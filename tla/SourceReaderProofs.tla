------------------------- MODULE SourceReaderProofs -------------------------
(***************************************************************************)
(* For every whitelist, mapping and payload: a snapshot holds the sizes    *)
(* the payload states, no fault passes for a flat position.                *)
(***************************************************************************)
EXTENDS SourceReader, SequenceFoldsProofs

-----------------------------------------------------------------------------
(* The first and the last of some entries.                                 *)

LEMMA FirstOfIsFirst ==
    ASSUME NEW I \in SUBSET Nat, I # {}
    PROVE  FirstOf(I) \in I /\ \A j \in I : FirstOf(I) <= j
<1>1. \E i \in I : \A j \in I : i <= j
  BY LeastExists
<1> QED
  BY <1>1 DEF FirstOf

LEMMA LastOfIsLast ==
    ASSUME NEW n \in Nat, NEW I \in SUBSET (1 .. n), I # {}
    PROVE  LastOf(I) \in I /\ \A j \in I : LastOf(I) >= j
<1>1. \E i \in I : \A j \in I : i >= j
  BY GreatestExists
<1> QED
  BY <1>1 DEF LastOf

-----------------------------------------------------------------------------
(* What a payload without a fault is.                                      *)

LEMMA EntriesType ==
    ASSUME NEW p \in Payload
    PROVE  EntriesOf(p) \in Seq(Entry)
BY DEF Payload, EntriesOf

\* No entry is faulty, wherever it stands.
LEMMA FaultlessEntries ==
    ASSUME NEW p \in Payload, FirstFault(p) = "none"
    PROVE  FaultyEntries(p) = {}
<1>1. FaultyEntries(p) # {} => FirstFault(p) = EntryFault(EntriesOf(p)[FirstOf(FaultyEntries(p))])
  BY DEF FirstFault
<1>2. FaultyEntries(p) \in SUBSET Nat
  BY EntriesType DEF FaultyEntries
<1>3. FaultyEntries(p) # {} => FirstOf(FaultyEntries(p)) \in FaultyEntries(p)
  BY <1>2, FirstOfIsFirst
<1> QED
  BY <1>1, <1>3 DEF FaultyEntries

LEMMA LastReadIsRead ==
    ASSUME NEW p \in Payload, NEW s \in Copied, ReadFor(p, s) # {}
    PROVE  /\ LastOf(ReadFor(p, s)) \in ReadFor(p, s)
           /\ s \in Reached
           /\ Positions(p)[s] = EntriesOf(p)[LastOf(ReadFor(p, s))].szi.size
<1>1. ReadFor(p, s) \in SUBSET (1 .. Len(EntriesOf(p))) /\ Len(EntriesOf(p)) \in Nat
  BY EntriesType DEF ReadFor
<1>2. LastOf(ReadFor(p, s)) \in ReadFor(p, s)
  BY <1>1, LastOfIsLast
<1>3. s \in Reached
  BY DEF Reached, ReadFor, IsCopied
<1> QED
  BY <1>2, <1>3 DEF Positions

\* The size of a copied symbol in the snapshot.
LEMMA SnapshotSize ==
    ASSUME NEW p \in Payload, NEW s \in Copied
    PROVE  Snapshot(p).size[s] = IF ReadFor(p, s) = {} THEN 0
                                 ELSE EntriesOf(p)[LastOf(ReadFor(p, s))].szi.size
<1>1. Snapshot(p).size[s] = IF s \in DOMAIN Positions(p) THEN Positions(p)[s] ELSE 0
  BY DEF Snapshot
<1>2. DOMAIN Positions(p) = Reached
  BY DEF Positions
<1>3. CASE ReadFor(p, s) = {}
  BY <1>1, <1>2, <1>3 DEF Positions
<1>4. CASE ReadFor(p, s) # {}
  BY <1>1, <1>2, <1>4, LastReadIsRead
<1> QED
  BY <1>3, <1>4

-----------------------------------------------------------------------------
(* The poll.                                                               *)

IInv ==
    /\ payload \in Payload
    /\ HasSnapshot => FirstFault(payload) = "none" /\ outcome.snapshot = Snapshot(payload)

LEMMA PollInvariant == Spec => []IInv
<1>1. Init => IInv
  BY ReaderAssumption DEF Init, IInv, HasSnapshot
<1>2. IInv /\ [Next]_vars => IInv'
  <2> SUFFICES ASSUME IInv, [Next]_vars PROVE IInv'
    OBVIOUS
  <2>1. CASE RequestFails
    BY <2>1 DEF RequestFails, IInv, HasSnapshot
  <2>2. CASE Answered
    BY <2>2 DEF Answered, IInv, HasSnapshot
  <2>3. CASE UNCHANGED vars
    BY <2>3 DEF vars, IInv, HasSnapshot
  <2> QED
    BY <2>1, <2>2, <2>3 DEF Next
<1> QED
  BY <1>1, <1>2, PTL DEF Spec

\* SnapshotIsWallet: a position of a copied symbol is read as the wallet has it,
\* a wallet without positions is a fresh snapshot of flat ones.
THEOREM SnapshotsAreTrue == Spec => []SnapshotIsWallet
<1>1. IInv => SnapshotIsWallet
  <2> SUFFICES ASSUME IInv, HasSnapshot PROVE SnapshotIsWallet
    BY DEF SnapshotIsWallet
  <2>1. payload \in Payload /\ outcome.snapshot = Snapshot(payload)
    BY DEF IInv
  <2>2. ASSUME NEW s \in Copied, NamesOnce(payload, s)
        PROVE  outcome.snapshot.size[s] = Held(payload, s)
    <3>1. CASE ReadFor(payload, s) = {}
      BY <2>1, <3>1, SnapshotSize DEF Held
    <3>2. CASE ReadFor(payload, s) # {}
      <4> DEFINE named == CHOOSE i \in ReadFor(payload, s) : TRUE
      <4>1. named \in ReadFor(payload, s)
        BY <3>2
      <4>2. LastOf(ReadFor(payload, s)) = named
        BY <2>1, <2>2, <3>2, <4>1, LastReadIsRead DEF NamesOnce
      <4>3. Held(payload, s) = EntriesOf(payload)[named].szi.size
        BY <4>1 DEF Held
      <4> QED
        BY <2>1, <3>2, <4>2, <4>3, SnapshotSize
    <3> QED
      BY <3>1, <3>2
  <2>3. outcome.snapshot.fresh <=> Reached # {} /\ payload.time.age <= FreshnessTimeout
    <3>1. DOMAIN Positions(payload) = Reached
      BY DEF Positions
    <3>2. Snapshot(payload).fresh = IsFresh(Positions(payload), payload.time.age)
      BY DEF Snapshot
    <3> QED
      BY <2>1, <3>1, <3>2, Zenon DEF IsFresh
  <2> QED
    BY <2>2, <2>3 DEF SnapshotIsWallet
<1> QED
  BY <1>1, PollInvariant, PTL

\* SizeIsAnEntrys: with several coins of one symbol too, a size is one the
\* payload states, and only a symbol without an entry is flat for want of one.
THEOREM SizesAreStated == Spec => []SizeIsAnEntrys
<1>1. IInv => SizeIsAnEntrys
  <2> SUFFICES ASSUME IInv, HasSnapshot, NEW s \in Copied
               PROVE  \/ \E i \in ReadFor(payload, s) :
                            /\ EntriesOf(payload)[i].szi.kind = "number"
                            /\ EntriesOf(payload)[i].szi.size = outcome.snapshot.size[s]
                      \/ ReadFor(payload, s) = {} /\ outcome.snapshot.size[s] = 0
    BY DEF SizeIsAnEntrys
  <2>1. /\ payload \in Payload /\ FirstFault(payload) = "none"
        /\ outcome.snapshot = Snapshot(payload)
    BY DEF IInv
  <2>2. CASE ReadFor(payload, s) = {}
    BY <2>1, <2>2, SnapshotSize
  <2>3. CASE ReadFor(payload, s) # {}
    <3> DEFINE i == LastOf(ReadFor(payload, s))
    <3>1. i \in ReadFor(payload, s)
      BY <2>1, <2>3, LastReadIsRead
    <3>2. outcome.snapshot.size[s] = EntriesOf(payload)[i].szi.size
      BY <2>1, <2>3, SnapshotSize
    <3> HIDE DEF i
    <3>3. i \in DOMAIN EntriesOf(payload) /\ IsCopied(EntriesOf(payload)[i])
      BY <3>1 DEF ReadFor
    <3>4. EntryFault(EntriesOf(payload)[i]) = "none"
      BY <2>1, <3>3, FaultlessEntries DEF FaultyEntries
    <3>5. EntriesOf(payload)[i] \in Entry
      BY <2>1, <3>3, EntriesType
    <3>6. EntriesOf(payload)[i].szi.kind = "number"
      BY <3>3, <3>4, <3>5 DEF EntryFault, Entry, Szi
    <3> QED
      BY <3>1, <3>2, <3>6
  <2> QED
    BY <2>2, <2>3
<1> QED
  BY <1>1, PollInvariant, PTL

-----------------------------------------------------------------------------
(* The payload without the entries of other coins.                         *)

\* Of the kept rows, B are those that A are of all rows.
SameRows(h, kept, rows, I, A, B) ==
    /\ KeptAt(h, kept, rows, I)
    /\ A \subseteq DOMAIN rows \cap I
    /\ B \subseteq DOMAIN kept
    /\ \A j \in DOMAIN kept : j \in B <=> h[j] \in A

\* The first and the last of some kept rows are the first and the last of the
\* rows they are.
LEMMA EndsCorrespond ==
    ASSUME NEW S, NEW rows \in Seq(S), NEW kept \in Seq(S), NEW I, NEW h,
           NEW A, NEW B, SameRows(h, kept, rows, I, A, B)
    PROVE  /\ A = {} <=> B = {}
           /\ A # {} => /\ kept[FirstOf(B)] = rows[FirstOf(A)]
                        /\ kept[LastOf(B)] = rows[LastOf(A)]
<1> USE DEF SameRows
<1>1. \A i \in A : \E j \in B : h[j] = i
  BY DEF KeptAt
<1>2. \A j \in B : h[j] \in A /\ kept[j] = rows[h[j]]
  BY DEF KeptAt
<1>3. A = {} <=> B = {}
  BY <1>1, <1>2
<1>4. /\ Len(rows) \in Nat /\ DOMAIN rows = 1 .. Len(rows)
      /\ Len(kept) \in Nat /\ DOMAIN kept = 1 .. Len(kept)
  OBVIOUS
<1>5. \A i, j \in B : i < j => h[i] < h[j]
  BY DEF KeptAt
<1>6. A \in SUBSET (1 .. Len(rows)) /\ B \in SUBSET (1 .. Len(kept))
  BY <1>4
<1>7. A \in SUBSET Nat /\ B \in SUBSET Nat
  BY <1>4, <1>6
<1>8. CASE A # {}
  <2>1. /\ FirstOf(A) \in A /\ \A i \in A : FirstOf(A) <= i
        /\ FirstOf(B) \in B /\ \A j \in B : FirstOf(B) <= j
    BY <1>3, <1>7, <1>8, FirstOfIsFirst
  <2>2. PICK j \in B : h[j] = FirstOf(A)
    BY <1>1, <2>1
  <2>3. j = FirstOf(B)
    <3>1. ~(FirstOf(B) < j)
      <4>1. FirstOf(A) <= h[FirstOf(B)] /\ h[FirstOf(B)] \in Nat /\ h[j] \in Nat
        BY <1>2, <1>7, <2>1
      <4> QED
        BY <1>5, <2>1, <2>2, <4>1
    <3>2. FirstOf(B) <= j /\ j \in Nat /\ FirstOf(B) \in Nat
      BY <1>7, <2>1
    <3> QED
      BY <3>1, <3>2
  <2>4. /\ LastOf(A) \in A /\ \A i \in A : LastOf(A) >= i
        /\ LastOf(B) \in B /\ \A k \in B : LastOf(B) >= k
    BY <1>3, <1>4, <1>6, <1>8, LastOfIsLast
  <2>5. PICK k \in B : h[k] = LastOf(A)
    BY <1>1, <2>4
  <2>6. k = LastOf(B)
    <3>1. ~(k < LastOf(B))
      <4>1. LastOf(A) >= h[LastOf(B)] /\ h[LastOf(B)] \in Nat /\ h[k] \in Nat
        BY <1>2, <1>7, <2>4
      <4> QED
        BY <1>5, <2>4, <2>5, <4>1
    <3>2. LastOf(B) >= k /\ k \in Nat /\ LastOf(B) \in Nat
      BY <1>7, <2>4
    <3> QED
      BY <3>1, <3>2
  <2> QED
    BY <1>2, <1>3, <2>2, <2>3, <2>5, <2>6
<1> QED
  BY <1>3, <1>8

\* The entries that Relevant() keeps, each at the place it had.
LEMMA RelevantEntries ==
    ASSUME NEW p \in Payload
    PROVE  /\ Relevant(p) \in Payload
           /\ Relevant(p).isObject = p.isObject
           /\ Relevant(p).time = p.time
           /\ Relevant(p).list = p.list
           /\ \E I, h : /\ KeptAt(h, EntriesOf(Relevant(p)), EntriesOf(p), I)
                        /\ \A i \in DOMAIN EntriesOf(p) :
                              IsCopied(EntriesOf(p)[i]) \/ EntriesOf(p)[i].coin = Broken => i \in I
<1> DEFINE I == {i \in DOMAIN p.entries : IsCopied(p.entries[i]) \/ p.entries[i].coin = Broken}
<1>1. p.entries \in Seq(Entry)
  BY DEF Payload
<1>2. Relevant(p) = [p EXCEPT !.entries = Kept(p.entries, I)]
  BY DEF Relevant
<1> HIDE DEF I
<1>3. Kept(p.entries, I) \in Seq(Entry)
  BY <1>1, KeptType
<1>4. /\ Relevant(p) \in Payload /\ Relevant(p).isObject = p.isObject
      /\ Relevant(p).time = p.time /\ Relevant(p).list = p.list
      /\ Relevant(p).entries = Kept(p.entries, I)
  BY <1>2, <1>3 DEF Payload
<1>5. CASE p.list = "given"
  <2>1. EntriesOf(p) = p.entries /\ EntriesOf(Relevant(p)) = Kept(p.entries, I)
    BY <1>4, <1>5 DEF EntriesOf
  <2>2. PICK h : KeptAt(h, Kept(p.entries, I), p.entries, I)
    BY <1>1, KeptPlaces
  <2>3. \A i \in DOMAIN p.entries :
            IsCopied(p.entries[i]) \/ p.entries[i].coin = Broken => i \in I
    BY DEF I
  <2> QED
    BY <1>4, <2>1, <2>2, <2>3
<1>6. CASE p.list # "given"
  <2>1. EntriesOf(p) = <<>> /\ EntriesOf(Relevant(p)) = <<>> /\ DOMAIN <<>> = {}
    BY <1>4, <1>6 DEF EntriesOf
  <2>2. KeptAt(<<>>, EntriesOf(Relevant(p)), EntriesOf(p), {})
    BY <2>1 DEF KeptAt
  <2> QED
    BY <1>4, <2>1, <2>2
<1> QED
  BY <1>5, <1>6

LEMMA ForeignEntriesDoNothing ==
    ASSUME NEW p \in Payload
    PROVE  /\ FirstFault(p) = FirstFault(Relevant(p))
           /\ Snapshot(p) = Snapshot(Relevant(p))
<1> DEFINE r == Relevant(p)
           rows == EntriesOf(p)
           kept == EntriesOf(r)
<1>1. /\ r \in Payload /\ r.isObject = p.isObject /\ r.time = p.time /\ r.list = p.list
      /\ \E I, h : /\ KeptAt(h, kept, rows, I)
                   /\ \A i \in DOMAIN rows : IsCopied(rows[i]) \/ rows[i].coin = Broken => i \in I
  BY RelevantEntries
<1>2. PICK I, h : /\ KeptAt(h, kept, rows, I)
                  /\ \A i \in DOMAIN rows :
                        IsCopied(rows[i]) \/ rows[i].coin = Broken => i \in I
  BY <1>1
<1>3. rows \in Seq(Entry) /\ kept \in Seq(Entry)
  BY <1>1, EntriesType
<1>4. \A j \in DOMAIN kept : h[j] \in DOMAIN rows /\ kept[j] = rows[h[j]]
  BY <1>2 DEF KeptAt
<1>5. FirstFault(p) = FirstFault(r)
  <2> DEFINE A == FaultyEntries(p)
             B == FaultyEntries(r)
  <2>1. A \subseteq DOMAIN rows \cap I
    BY <1>2 DEF FaultyEntries, EntryFault
  <2>2. B \subseteq DOMAIN kept
    BY DEF FaultyEntries
  <2>3. \A j \in DOMAIN kept : j \in B <=> h[j] \in A
    BY <1>4 DEF FaultyEntries
  <2> HIDE DEF A, B, rows, kept, r
  <2>4. /\ A = {} <=> B = {}
        /\ A # {} => /\ kept[FirstOf(B)] = rows[FirstOf(A)]
                     /\ kept[LastOf(B)] = rows[LastOf(A)]
    <3>1. SameRows(h, kept, rows, I, A, B)
      BY <1>2, <2>1, <2>2, <2>3 DEF SameRows
    <3> QED
      BY <1>3, <3>1, EndsCorrespond
  <2>5. \A q : FirstFault(q) =
            IF ~q.isObject THEN "unexpected"
            ELSE IF TimeFault(q.time) # "none" THEN TimeFault(q.time)
            ELSE IF q.list = "null" THEN "unexpected"
            ELSE IF FaultyEntries(q) = {} THEN "none"
            ELSE EntryFault(EntriesOf(q)[FirstOf(FaultyEntries(q))])
    BY DEF FirstFault
  <2>6. A # {} => EntryFault(rows[FirstOf(A)]) = EntryFault(kept[FirstOf(B)])
    BY <2>4
  <2>7. /\ FirstFault(p) = IF ~p.isObject THEN "unexpected"
                           ELSE IF TimeFault(p.time) # "none" THEN TimeFault(p.time)
                           ELSE IF p.list = "null" THEN "unexpected"
                           ELSE IF A = {} THEN "none" ELSE EntryFault(rows[FirstOf(A)])
        /\ FirstFault(r) = IF ~r.isObject THEN "unexpected"
                           ELSE IF TimeFault(r.time) # "none" THEN TimeFault(r.time)
                           ELSE IF r.list = "null" THEN "unexpected"
                           ELSE IF B = {} THEN "none" ELSE EntryFault(kept[FirstOf(B)])
    BY <2>5 DEF A, B, rows, kept
  <2> QED
    BY <1>1, <2>4, <2>6, <2>7
<1>6. ASSUME NEW s \in Copied
      PROVE  Snapshot(p).size[s] = Snapshot(r).size[s]
  <2> DEFINE A == ReadFor(p, s)
             B == ReadFor(r, s)
  <2>1. A \subseteq DOMAIN rows \cap I
    BY <1>2 DEF ReadFor
  <2>2. B \subseteq DOMAIN kept
    BY DEF ReadFor
  <2>3. \A j \in DOMAIN kept : j \in B <=> h[j] \in A
    BY <1>4 DEF ReadFor
  <2> HIDE DEF A, B, rows, kept, r
  <2>4. (A = {} <=> B = {}) /\ (A # {} => kept[LastOf(B)] = rows[LastOf(A)])
    <3>1. SameRows(h, kept, rows, I, A, B)
      BY <1>2, <2>1, <2>2, <2>3 DEF SameRows
    <3> QED
      BY <1>3, <3>1, EndsCorrespond
  <2>5. /\ Snapshot(p).size[s] = IF A = {} THEN 0 ELSE rows[LastOf(A)].szi.size
        /\ Snapshot(r).size[s] = IF B = {} THEN 0 ELSE kept[LastOf(B)].szi.size
    BY <1>1, SnapshotSize DEF A, B, rows, kept
  <2> QED
    BY <2>4, <2>5
<1>7. Snapshot(p).fresh = Snapshot(r).fresh
  <2>1. DOMAIN Positions(p) = Reached /\ DOMAIN Positions(r) = Reached
    BY DEF Positions
  <2>2. /\ Snapshot(p).fresh = IsFresh(Positions(p), p.time.age)
        /\ Snapshot(r).fresh = IsFresh(Positions(r), r.time.age)
    BY DEF Snapshot
  <2>3. r.time = p.time
    BY <1>1
  <2> HIDE DEF r
  <2> QED
    BY <2>1, <2>2, <2>3, Zenon DEF IsFresh
<1>8. Snapshot(p) = Snapshot(r)
  <2> DEFINE Sizes(q) == [s \in Copied |-> IF s \in DOMAIN Positions(q) THEN Positions(q)[s] ELSE 0]
  <2>1. \A q : Snapshot(q) = [fresh |-> IsFresh(Positions(q), q.time.age), size |-> Sizes(q)]
    BY DEF Snapshot
  <2>2. Sizes(p) = Sizes(r)
    <3>1. \A q : Snapshot(q).size = Sizes(q)
      BY <2>1
    <3>2. \A s \in Copied : Sizes(p)[s] = Sizes(r)[s]
      BY <1>6, <3>1
    <3>3. \A q : DOMAIN Sizes(q) = Copied /\ Sizes(q) = [s \in Copied |-> Sizes(q)[s]]
      OBVIOUS
    <3> HIDE DEF Sizes, r
    <3>4. [s \in Copied |-> Sizes(p)[s]] = [s \in Copied |-> Sizes(r)[s]]
      BY <3>2
    <3> QED
      BY <3>3, <3>4
  <2>3. IsFresh(Positions(p), p.time.age) = IsFresh(Positions(r), r.time.age)
    BY <1>7, <2>1
  <2> HIDE DEF Sizes, r
  <2> QED
    BY <2>1, <2>2, <2>3
<1> QED
  BY <1>5, <1>8

\* ForeignEntriesAreIgnored: whatever the wallet does with other coins, a poll
\* comes to what it would have come to without their entries.
THEOREM OtherCoinsDoNotMatter == Spec => []ForeignEntriesAreIgnored
<1>1. IInv => ForeignEntriesAreIgnored
  BY ForeignEntriesDoNothing DEF IInv, ForeignEntriesAreIgnored
<1> QED
  BY <1>1, PollInvariant, PTL
=============================================================================
