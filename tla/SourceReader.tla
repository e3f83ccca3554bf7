---------------------------- MODULE SourceReader -----------------------------
(***************************************************************************)
(* One poll of the source wallet: HyperliquidReader.fetch(), the           *)
(* normalization of what comes back, is_fresh(), and what the service and  *)
(* evaluate() then make of it.  The reader keeps nothing between polls, so *)
(* one poll of any payload is all its behaviour.                           *)
(*                                                                         *)
(* A payload is abstracted to what its reading depends on: an entry to its *)
(* coin and how its szi parses, the time to how it parses and its age.     *)
(***************************************************************************)
EXTENDS SequenceFolds

CONSTANTS
    Symbols,            \* Binance symbols
    Copied,             \* copy_trade.symbols.whitelist, as a set
    Coins,              \* coins a wallet may hold
    Mapping,            \* copy_trade.symbols.mapping
    NoCoin,             \* the coin of an entry that is null or names none
    Broken,             \* the coin of an entry or position that is not an object
    FreshnessTimeout,   \* source.freshness_timeout_seconds
    Payloads            \* what the wallet's server may answer

\* How the szi of an entry and the time of a payload parse.
Szi == [kind : {"number", "unreadable", "nan"}, size : Int]
Time == [kind : {"known", "missing", "unreadable", "overflowing"}, age : Int]
Entry == [coin : Coins \cup {NoCoin, Broken}, szi : Szi]
Payload == [isObject : BOOLEAN, time : Time,
            list : {"given", "absent", "null"}, entries : Seq(Entry)]

ASSUME ReaderAssumption ==
    /\ Copied \subseteq Symbols
    /\ DOMAIN Mapping \subseteq Coins
    /\ \A c \in DOMAIN Mapping : Mapping[c] \in Symbols
    /\ NoCoin \notin Coins /\ Broken \notin Coins /\ NoCoin # Broken
    /\ FreshnessTimeout \in Nat
    /\ Payloads \subseteq Payload

VARIABLES
    payload,   \* the answer of this poll
    polled,    \* whether fetch() has returned or raised
    outcome    \* what it came to

vars == <<payload, polled, outcome>>

-----------------------------------------------------------------------------
(* normalize_snapshot().  A fault is "unavailable" when it is raised as a   *)
(* SourceNormalizationError, which the service catches, and "unexpected"   *)
(* when it is another exception.                                           *)

Faults == {"none", "unavailable", "unexpected"}

TimeFault(time) ==
    CASE time.kind = "known"       -> "none"
      [] time.kind = "overflowing" -> "unexpected"
      [] OTHER                     -> "unavailable"

IsCopied(e) == e.coin \in DOMAIN Mapping /\ Mapping[e.coin] \in Copied

\* Faulty: the size is parsed before the coin is looked up; a size that does
\* not parse is skipped.
EntryFaultOfAnyCoin(e) ==
    CASE e.coin = Broken           -> "unexpected"
      [] e.szi.kind = "unreadable" -> "unavailable"
      [] e.szi.kind = "nan"        -> "unexpected"
      [] OTHER                     -> "none"
EntryFaultUnreadableSkipped(e) ==
    IF e.coin = Broken \/ (IsCopied(e) /\ e.szi.kind = "nan") THEN "unexpected" ELSE "none"

\* A szi that Decimal() refuses is a SourceNormalizationError, NaN passes and
\* is refused by the comparison in _derive_side().
EntryFault(e) ==
    CASE e.coin = Broken                             -> "unexpected"
      [] IsCopied(e) /\ e.szi.kind = "unreadable" -> "unavailable"
      [] IsCopied(e) /\ e.szi.kind = "nan"        -> "unexpected"
      [] OTHER                                       -> "none"

\* A missing assetPositions is an empty list, a null one cannot be iterated.
EntriesOf(p) == IF p.list = "given" THEN p.entries ELSE <<>>

FaultyEntries(p) == {i \in DOMAIN EntriesOf(p) : EntryFault(EntriesOf(p)[i]) # "none"}
FirstOf(I) == CHOOSE i \in I : \A j \in I : i <= j
LastOf(I) == CHOOSE i \in I : \A j \in I : i >= j

FirstFault(p) ==
    IF ~p.isObject THEN "unexpected"
    ELSE IF TimeFault(p.time) # "none" THEN TimeFault(p.time)
    ELSE IF p.list = "null" THEN "unexpected"
    ELSE IF FaultyEntries(p) = {} THEN "none"
    ELSE EntryFault(EntriesOf(p)[FirstOf(FaultyEntries(p))])

\* The entries that are read for symbol s.
ReadFor(p, s) ==
    {i \in DOMAIN EntriesOf(p) :
        IsCopied(EntriesOf(p)[i]) /\ Mapping[EntriesOf(p)[i].coin] = s}

\* Copied symbols that some coin is mapped to.
Reached == {Mapping[c] : c \in DOMAIN Mapping} \cap Copied

\* Faulty: an absent symbol gets no position.
PositionsWithoutFlats(p) ==
    [s \in {t \in Reached : ReadFor(p, t) # {}} |->
        EntriesOf(p)[LastOf(ReadFor(p, s))].szi.size]

\* A later entry of a symbol replaces an earlier one; absent symbols are flat.
Positions(p) ==
    [s \in Reached |-> IF ReadFor(p, s) = {} THEN 0
                       ELSE EntriesOf(p)[LastOf(ReadFor(p, s))].szi.size]

-----------------------------------------------------------------------------
(* fetch(), is_fresh() and the reading of the snapshot by evaluate().      *)

IsFresh(positions, age) == DOMAIN positions # {} /\ age <= FreshnessTimeout

\* What the service goes on with: sizes of all copied symbols, an absent
\* position read as flat.
Snapshot(p) ==
    [fresh |-> IsFresh(Positions(p), p.time.age),
     size  |-> [s \in Copied |-> IF s \in DOMAIN Positions(p) THEN Positions(p)[s] ELSE 0]]

NoSnapshot == [fresh |-> FALSE, size |-> [s \in Copied |-> 0]]

Init ==
    /\ payload \in Payloads
    /\ polled = FALSE
    /\ outcome = [fault |-> "none", snapshot |-> NoSnapshot]

\* _request() raised: every failure of it is a SourceReadError.
RequestFails ==
    /\ ~polled
    /\ polled' = TRUE
    /\ outcome' = [fault |-> "unavailable", snapshot |-> NoSnapshot]
    /\ UNCHANGED payload

Answered ==
    /\ ~polled
    /\ polled' = TRUE
    /\ outcome' = [fault    |-> FirstFault(payload),
                   snapshot |-> IF FirstFault(payload) = "none"
                                THEN Snapshot(payload) ELSE NoSnapshot]
    /\ UNCHANGED payload

Next == RequestFails \/ Answered

Spec == Init /\ [][Next]_vars

-----------------------------------------------------------------------------
(* Properties.                                                             *)

HasSnapshot == polled /\ outcome.fault = "none"

\* What a faultless payload says of symbol s, when it names it at most once.
NamesOnce(p, s) == \A i, j \in ReadFor(p, s) : i = j
Held(p, s) ==
    IF \E i \in ReadFor(p, s) : TRUE
    THEN EntriesOf(p)[CHOOSE i \in ReadFor(p, s) : TRUE].szi.size
    ELSE 0

\* The snapshot is the wallet: each copied symbol has the size the payload gives
\* it, wherever its entry stands and whatever entries are skipped before it, and
\* a recent snapshot is fresh even of a wallet that holds nothing, so that the
\* program follows it out of its positions (normalization.py:63-102,
\* hyperliquid_reader.py:76-81).
SnapshotIsWallet ==
    HasSnapshot =>
        /\ \A s \in Copied :
              NamesOnce(payload, s) => outcome.snapshot.size[s] = Held(payload, s)
        /\ outcome.snapshot.fresh <=>
              Reached # {} /\ payload.time.age <= FreshnessTimeout

\* No size is made up: a size in a snapshot is the number one of the symbol's
\* entries states, and a symbol is flat for want of an entry only when the
\* payload has none for it, also where several coins are mapped to one symbol
\* (normalization.py:70-82, 91-102).
SizeIsAnEntrys ==
    HasSnapshot =>
        \A s \in Copied :
            \/ \E i \in ReadFor(payload, s) :
                  /\ EntriesOf(payload)[i].szi.kind = "number"
                  /\ EntriesOf(payload)[i].szi.size = outcome.snapshot.size[s]
            \/ ReadFor(payload, s) = {} /\ outcome.snapshot.size[s] = 0

\* The payload without the entries of coins that are not copied.
Relevant(p) ==
    [p EXCEPT !.entries = Kept(@, {i \in DOMAIN @ : IsCopied(@[i]) \/ @[i].coin = Broken})]

\* What the wallet does with other coins is nothing to the program: entries of
\* coins that are not mapped or not copied, readable or not, change neither the
\* outcome of a poll nor its snapshot (normalization.py:65-76).
ForeignEntriesAreIgnored ==
    polled =>
        /\ FirstFault(payload) = FirstFault(Relevant(payload))
        /\ FirstFault(payload) = "none" => Snapshot(payload) = Snapshot(Relevant(payload))

\* A payload that lacks or garbles a required field counts as no data: the
\* service sees one of the two errors it has records for.
IsComplete(p) ==
    /\ p.isObject
    /\ p.time.kind = "known"
    /\ p.list = "given"
    /\ \A i \in DOMAIN p.entries :
          /\ p.entries[i].coin \notin {NoCoin, Broken}
          /\ IsCopied(p.entries[i]) => p.entries[i].szi.kind = "number"
IncompleteIsUnavailable ==
    polled /\ ~IsComplete(payload) => outcome.fault = "unavailable"
=============================================================================
