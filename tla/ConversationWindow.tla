------------------------- MODULE ConversationWindow -------------------------
(***************************************************************************)
(* The transcript a persona's turn is seeded with (conversation_window.py, *)
(* _conversation_window_cache.py, conversation_seed.py).  Channel stores   *)
(* grow on their own while a message waits for its turn and while the      *)
(* history is fetched; the rows are fetched newest first, anchored at the  *)
(* message answered, admitted oldest-out within a token and a turn cap,    *)
(* and must start with somebody else's turn.  A process-wide cache of the  *)
(* last windows answers a second build for the same message.               *)
(***************************************************************************)
EXTENDS Integers, Sequences, FiniteSets, SequencesExt, Functions

CONSTANTS Channels, Personas,
          Others,        \* senders that are no persona
          Sizes,         \* tokens of a message
          MaxTurns, MaxTokens,
          Capacity,      \* DEFAULT_WINDOW_CACHE_CAPACITY
          MaxLog, MaxBuilds,
          Shapes         \* where a channel's log may start from

VARIABLES log,      \* each channel's store: [who, size, blank], oldest first
          cache,    \* sequence of [key, msg, rows], least recently used first
          build,    \* the window being built: [at, persona, channel, msg]
          window,   \* the last window built: [persona, channel, msg, turns, seen, fetched]
          builds

windowVars == <<log, cache, build, window, builds>>

NoBuild == [at |-> "idle", persona |-> "none", channel |-> "none", msg |-> 0]
NoWindow == [persona |-> "none", channel |-> "none", msg |-> 0, turns |-> <<>>, seen |-> 0, fetched |-> FALSE]

(* A row is named by its place in the log. *)
Limit == MaxTurns + 1
Fetched(c) ==
    LET n == Len(log[c])
        k == IF n < Limit THEN n ELSE Limit
    IN  [i \in 1..k |-> n + 1 - i]

-----------------------------------------------------------------------------
(* _WindowCache: the key names channel and persona, the value the message. *)
Lookup(key, msg) == {i \in DOMAIN cache : cache[i].key = key /\ cache[i].msg = msg}
Dropped(key) == SelectSeq(cache, LAMBDA e : e.key # key)
Touched(key) == Dropped(key) \o SelectSeq(cache, LAMBDA e : e.key = key)
Put(key, msg, rows) ==
    LET all == Append(Dropped(key), [key |-> key, msg |-> msg, rows |-> rows])
    IN  IF Len(all) > Capacity THEN Tail(all) ELSE all

(* Newest first in, oldest first out. *)
DropNewer(rows, msg) ==
    IF Contains(rows, msg) THEN SubSeq(rows, CHOOSE i \in DOMAIN rows : rows[i] = msg, Len(rows)) ELSE rows
Older(rows, c, msg) ==
    SelectSeq(Reverse(DropNewer(rows, msg)), LAMBDA m : m # msg /\ ~ log[c][m].blank)
TokensOf(rows, c) == FoldLeft(LAMBDA acc, m : acc + log[c][m].size, 0, rows)
ApplyAdmission(rows, c) ==
    LET fits(k) == TokensOf(SubSeq(rows, k, Len(rows)), c) <= MaxTokens /\ Len(rows) - k + 1 <= MaxTurns
        first == CHOOSE k \in 1..(Len(rows) + 1) : fits(k) /\ \A j \in 1..(k - 1) : ~ fits(j)
    IN  SubSeq(rows, first, Len(rows))
DropLeadingAssistant(rows, c, p) ==
    LET peers == {i \in DOMAIN rows : log[c][rows[i]].who # p}
    IN  IF peers = {} THEN <<>>
        ELSE SubSeq(rows, CHOOSE i \in peers : \A j \in peers : i <= j, Len(rows))

\* Mutant: the leading assistant turns are dropped before the budget is applied.
AssembleSwapped(rows, c, p, msg) ==
    ApplyAdmission(DropLeadingAssistant(Older(rows, c, msg), c, p), c)

Assemble(rows, c, p, msg) ==
    DropLeadingAssistant(ApplyAdmission(Older(rows, c, msg), c), c, p)

-----------------------------------------------------------------------------
WindowInit ==
    /\ log \in Shapes /\ cache = <<>> /\ build = NoBuild /\ window = NoWindow /\ builds = 0

Post(c) ==
    /\ FoldFunction(LAMBDA l, n : Len(l) + n, 0, log) < MaxLog
    /\ \E who \in Others \cup Personas, n \in Sizes, b \in BOOLEAN :
          log' = [log EXCEPT ![c] = Append(@, [who |-> who, size |-> n, blank |-> b])]
    /\ UNCHANGED <<cache, build, window, builds>>

Finish(rows) ==
    /\ window' = [persona |-> build.persona, channel |-> build.channel, msg |-> build.msg, fetched |-> TRUE,
                  turns |-> Assemble(rows, build.channel, build.persona, build.msg), seen |-> rows[1]]
    /\ build' = NoBuild

(* A turn for a message somebody else posted, at once or after a backlog. *)
StartBuild(p, c, msg) ==
    /\ build.at = "idle" /\ builds < MaxBuilds
    /\ msg \in DOMAIN log[c] /\ log[c][msg].who # p
    /\ build' = [at |-> "looking", persona |-> p, channel |-> c, msg |-> msg]
    /\ window' = NoWindow
    /\ builds' = builds + 1
    /\ UNCHANGED <<log, cache>>

Hit ==
    /\ build.at = "looking"
    /\ \E i \in Lookup(<<build.channel, build.persona>>, build.msg) :
          Finish(cache[i].rows)
    /\ cache' = Touched(<<build.channel, build.persona>>)
    /\ UNCHANGED <<log, builds>>

(* A miss on the key's other message still counts as a use of the key. *)
Miss ==
    /\ build.at = "looking"
    /\ Lookup(<<build.channel, build.persona>>, build.msg) = {}
    /\ cache' = Touched(<<build.channel, build.persona>>)
    /\ build' = [build EXCEPT !.at = "fetching"]
    /\ UNCHANGED <<log, window, builds>>

Fetch ==
    /\ build.at = "fetching"
    /\ Finish(Fetched(build.channel))
    /\ cache' = Put(<<build.channel, build.persona>>, build.msg, Fetched(build.channel))
    /\ UNCHANGED <<log, builds>>

(* The fetch fails: the turn sees the message alone. *)
FetchFails ==
    /\ build.at = "fetching"
    /\ window' = [NoWindow EXCEPT !.persona = build.persona, !.channel = build.channel, !.msg = build.msg]
    /\ build' = NoBuild
    /\ UNCHANGED <<log, cache, builds>>

WindowNext ==
    \/ \E c \in Channels : Post(c)
    \/ \E p \in Personas, c \in Channels : \E msg \in DOMAIN log[c] : StartBuild(p, c, msg)
    \/ Hit \/ Miss \/ Fetch \/ FetchFails

-----------------------------------------------------------------------------
(* Nothing posted after the message being answered is shown before it      *)
(* (conversation_window.py _drop_rows_newer_than_current).                 *)
NothingFromTheFuture == \A i \in DOMAIN window.turns : window.turns[i] < window.msg

(* While the answered message is among the rows fetched, the transcript is *)
(* a gapless run of the channel's past up to that message, within both     *)
(* caps, opened by somebody else, and no row that would still have fitted  *)
(* is missing, whether it came from the cache or from a store that has     *)
(* grown since (conversation_window.py _assemble_replayed_turns).          *)
Past(c, msg, oldest) == SelectSeq([i \in 1..(msg - 1) |-> i], LAMBDA m : m >= oldest /\ ~ log[c][m].blank)
WindowIsTheRecentPast ==
    LET c == window.channel
        w == window.turns
        oldest == IF window.seen - MaxTurns < 1 THEN 1 ELSE window.seen - MaxTurns
        past == Past(c, window.msg, oldest)
        skipped == SubSeq(past, 1, Len(past) - Len(w))
        next == Last(skipped)
    IN  window.fetched /\ window.seen - window.msg < Limit =>
            /\ IsSuffix(w, past)
            /\ Len(w) <= MaxTurns /\ TokensOf(w, c) <= MaxTokens
            /\ w # <<>> => log[c][w[1]].who # window.persona
            /\ skipped # <<>> =>
                 \/ log[c][next].who = window.persona
                 \/ Len(w) = MaxTurns \/ TokensOf(w, c) + log[c][next].size > MaxTokens
=============================================================================
