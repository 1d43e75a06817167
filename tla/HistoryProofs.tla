--------------------------- MODULE HistoryProofs ---------------------------
(***************************************************************************)
(* Proofs about History: for every clock, every artifact and every number  *)
(* of receipts the listing is in order of time, and stays true.            *)
(***************************************************************************)
EXTENDS History, FiniteSetTheorems, TLAPS

Instants == [second : Int, micro : Nat]

\* How two texts compare when the times have the same second: at the sign that
\* follows it, then at the fraction (datetime.isoformat).
LEMMA TextOrder ==
  ASSUME NEW s \in Instants, NEW t \in Instants
  PROVE  TextBefore(IsoText(s), IsoText(t)) <=> Earlier(s, t)
<1> DEFINE a == IsoText(s)
           b == IsoText(t)
<1>1. /\ s.second \in Int /\ t.second \in Int /\ s.micro \in Nat /\ t.micro \in Nat
  BY DEF Instants
<1>2. /\ a[1] = s.second /\ b[1] = t.second
      /\ a[2] = IF s.micro = 0 THEN 43 ELSE 46
      /\ b[2] = IF t.micro = 0 THEN 43 ELSE 46
      /\ s.micro # 0 => a[3] = s.micro /\ a[4] = 43
      /\ t.micro # 0 => b[3] = t.micro /\ b[4] = 43
      /\ DOMAIN a = IF s.micro = 0 THEN 1..2 ELSE 1..4
      /\ Len(b) = IF t.micro = 0 THEN 2 ELSE 4
  BY DEF IsoText, Plus, Dot
<1> HIDE DEF a, b
<1>3. Earlier(s, t) => TextBefore(a, b)
  <2>1. CASE s.second < t.second
    <3>1. 1 \in 1..Len(b) /\ a[1] < b[1] /\ \A j \in 1..0 : FALSE
      BY <1>1, <1>2, <2>1
    <3> QED BY <3>1 DEF TextBefore
  <2>2. CASE s.second = t.second /\ s.micro < t.micro /\ s.micro = 0
    <3>1. 2 \in 1..Len(b) /\ a[2] < b[2] /\ \A j \in 1..(2 - 1) : j \in DOMAIN a /\ a[j] = b[j]
      BY <1>1, <1>2, <2>2
    <3> QED BY <3>1 DEF TextBefore
  <2>3. CASE s.second = t.second /\ s.micro < t.micro /\ s.micro # 0
    <3>1. 3 \in 1..Len(b) /\ a[3] < b[3] /\ \A j \in 1..(3 - 1) : j \in DOMAIN a /\ a[j] = b[j]
      BY <1>1, <1>2, <2>3
    <3> QED BY <3>1 DEF TextBefore
  <2> QED BY <2>1, <2>2, <2>3 DEF Earlier
<1>4. TextBefore(a, b) => Earlier(s, t)
  <2> SUFFICES ASSUME NEW i \in 1..Len(b),
                      \A j \in 1..(i - 1) : j \in DOMAIN a /\ a[j] = b[j],
                      i \notin DOMAIN a \/ a[i] < b[i]
               PROVE  Earlier(s, t)
    BY DEF TextBefore
  <2>1. i = 1 \/ (1 \in 1..(i - 1) /\ a[1] = b[1])
    BY <1>1, <1>2
  <2>2. CASE i = 1
    BY <1>1, <1>2, <2>2 DEF Earlier
  <2>3. CASE i = 2
    BY <1>1, <1>2, <2>1, <2>3 DEF Earlier
  <2>4. CASE i \in 3..4
    <3>1. a[1] = b[1] /\ a[2] = b[2] /\ t.micro # 0
      BY <1>1, <1>2, <2>4
    <3>2. i = 3 \/ a[3] = b[3]
      BY <1>1, <1>2, <2>4
    <3> QED BY <1>1, <1>2, <2>4, <3>1, <3>2 DEF Earlier
  <2> QED BY <1>1, <1>2, <2>2, <2>3, <2>4
<1> QED BY <1>3, <1>4 DEF a, b

\* Instants are instants whatever the width of the fraction.
LEMMA InstantType == \A n \in Nat : Instant(n) \in Instants
<1> SUFFICES ASSUME NEW n \in Nat PROVE Instant(n) \in Instants
  OBVIOUS
<1>1. n \div MicrosPerSecond \in Int /\ n % MicrosPerSecond \in Nat
  BY HistoryAssumption
<1> QED BY <1>1 DEF Instant, Instants

---------------------------------------------------------------------------
(* Pages.                                                                  *)

\* A page is as long as the limit says, or it leaves out nothing (store.py
\* recent).
LEMMA PageIsFull ==
  ASSUME NEW text, IsFiniteSet(DOMAIN text), NEW limit \in 1..100, NEW page \in Pages(text, limit),
         DOMAIN text \ {page[i] : i \in DOMAIN page} # {}
  PROVE  Len(page) = limit
<1> DEFINE n == Cardinality(DOMAIN text)
           size == IF n < Clamped(limit) THEN n ELSE Clamped(limit)
<1>1. n \in Nat /\ Clamped(limit) = limit
  BY FS_CardinalityType DEF Clamped
<1>2. /\ page \in [1..size -> DOMAIN text]
      /\ \A i, j \in 1..size : i < j => page[i] # page[j]
  BY DEF Pages
<1>3. size \in Nat
  BY <1>1
<1>4. page \in Seq(DOMAIN text) /\ Len(page) = size
  BY <1>2, <1>3
<1>5. CASE n < limit
  <2>1. size = n
    BY <1>1, <1>5
  <2>2. page \in Injection(1..n, DOMAIN text)
    BY <1>1, <1>2, <2>1 DEF Injection, IsInjective
  <2>3. Cardinality(1..n) = n
    BY <1>1, FS_Interval
  <2>4. page \in Surjection(1..n, DOMAIN text)
    BY <2>2, <2>3, FS_Injection
  <2>5. \A id \in DOMAIN text : \E i \in 1..n : page[i] = id
    BY <2>4 DEF Surjection
  <2> QED BY <1>2, <2>1, <2>5
<1>6. CASE ~(n < limit)
  BY <1>1, <1>4, <1>6
<1> QED BY <1>5, <1>6

\* The ids of a page are in the table, in the order of their texts.
LEMMA PageIsOrdered ==
  ASSUME NEW text, IsFiniteSet(DOMAIN text), NEW limit \in 1..100, NEW page \in Pages(text, limit)
  PROVE  /\ page \in Seq(DOMAIN text)
         /\ \A i, j \in DOMAIN page : i < j => ~TextBefore(text[page[i]], text[page[j]])
         /\ \A i \in DOMAIN page, id \in DOMAIN text \ {page[j] : j \in DOMAIN page} :
              ~TextBefore(text[page[i]], text[id])
<1> DEFINE n == Cardinality(DOMAIN text)
           size == IF n < Clamped(limit) THEN n ELSE Clamped(limit)
<1>1. size \in Nat
  BY FS_CardinalityType DEF Clamped
<1>2. /\ page \in [1..size -> DOMAIN text]
      /\ \A i, j \in 1..size : i < j =>
           page[i] # page[j] /\ ~TextBefore(text[page[i]], text[page[j]])
      /\ \A i \in 1..size, id \in DOMAIN text :
           TextBefore(text[page[i]], text[id]) => \E j \in 1..size : page[j] = id
  BY DEF Pages
<1>3. page \in Seq(DOMAIN text) /\ DOMAIN page = 1..size
  BY <1>1, <1>2
<1> QED BY <1>2, <1>3

---------------------------------------------------------------------------
(* The table and the listing.                                              *)

\* What an id stands for.
Made(id) == Receipt(id[1], id[2])

\* The id of a row or of a receipt on its way decides what it says; the listing
\* shows rows of the table, in order of time.
Kept ==
  /\ now \in Nat
  /\ IsFiniteSet(DOMAIN rows)
  /\ \A r \in pending : r = Made(r.receipt_id) /\ r.created_at \in Instants
  /\ \A id \in DOMAIN rows : /\ rows[id] = Made(id) /\ rows[id].receipt_id = id
                             /\ rows[id].created_at \in Instants
  /\ listing # NULL =>
       \A i \in DOMAIN listing.shown :
         /\ listing.shown[i].receipt_id \in DOMAIN rows
         /\ listing.shown[i] = rows[listing.shown[i].receipt_id]
  /\ NewestFirst

\* At first nothing is stored or listed.
LEMMA InitKept == Init => Kept
BY FS_EmptySet DEF Init, Kept, NewestFirst

\* A receipt says what its id stands for.
LEMMA ReceiptIsMade ==
  ASSUME NEW artifact, NEW n \in Nat
  PROVE  LET r == Receipt(artifact, n) IN r = Made(r.receipt_id) /\ r.created_at \in Instants
BY InstantType DEF Receipt, Made

\* The clock, evaluations, commits in any order and listings keep it so.
LEMMA NextKept == Kept /\ [Next]_hvars => Kept'
<1> SUFFICES ASSUME Kept, [Next]_hvars PROVE Kept'
  OBVIOUS
<1>1. CASE Tick
  BY <1>1 DEF Tick, Kept, NewestFirst
<1>2. CASE SetBack
  BY <1>2 DEF SetBack, Kept, NewestFirst
<1>3. ASSUME NEW artifact \in Artifacts, Evaluate(artifact) PROVE Kept'
  BY <1>3, ReceiptIsMade DEF Evaluate, Kept, NewestFirst
<1>4. ASSUME NEW receipt \in pending, Save(receipt) PROVE Kept'
  <2> DEFINE new == receipt.receipt_id
  <2>1. /\ receipt = Made(new) /\ receipt.created_at \in Instants
        /\ DOMAIN rows' = DOMAIN rows \cup {new}
        /\ \A id \in DOMAIN rows' : rows'[id] = IF id = new THEN receipt ELSE rows[id]
    BY <1>4 DEF Save, Kept
  <2>2. IsFiniteSet(DOMAIN rows')
    BY <2>1, FS_AddElement DEF Kept
  <2>3. \A id \in DOMAIN rows : rows'[id] = rows[id]
    BY <2>1 DEF Kept
  <2>4. \A id \in DOMAIN rows' : /\ rows'[id] = Made(id) /\ rows'[id].receipt_id = id
                                 /\ rows'[id].created_at \in Instants
    BY <2>1 DEF Kept
  <2>5. \A r \in pending' : r = Made(r.receipt_id) /\ r.created_at \in Instants
    BY <1>4 DEF Save, Kept
  <2>6. UNCHANGED <<now, listing>>
    BY <1>4 DEF Save
  <2>7. NewestFirst'
    BY <2>6 DEF Kept, NewestFirst
  <2> QED BY <2>1, <2>2, <2>3, <2>4, <2>5, <2>6, <2>7 DEF Kept
<1>5. ASSUME NEW limit \in Limits, List(limit) PROVE Kept'
  <2>1. limit \in 1..100
    BY <1>5 DEF List
  <2>2. PICK page \in Pages(CreatedAt, limit) :
          listing' = [shown |-> [i \in DOMAIN page |-> rows[page[i]]],
                      left_out |-> {rows[id] : id \in DOMAIN rows \ {page[i] : i \in DOMAIN page}},
                      limit |-> limit]
    BY <1>5 DEF List
  <2>3. UNCHANGED <<now, pending, rows>>
    BY <1>5 DEF List
  <2>4. DOMAIN CreatedAt = DOMAIN rows
        /\ \A id \in DOMAIN rows : CreatedAt[id] = IsoText(rows[id].created_at)
    BY DEF CreatedAt
  <2>5. IsFiniteSet(DOMAIN CreatedAt)
    BY <2>4 DEF Kept
  <2>6. /\ page \in Seq(DOMAIN rows)
        /\ \A i, j \in DOMAIN page : i < j =>
             ~TextBefore(CreatedAt[page[i]], CreatedAt[page[j]])
        /\ \A i \in DOMAIN page, id \in DOMAIN rows \ {page[j] : j \in DOMAIN page} :
             ~TextBefore(CreatedAt[page[i]], CreatedAt[id])
    BY <2>1, <2>4, <2>5, PageIsOrdered
  <2>7. \A i \in DOMAIN page : page[i] \in DOMAIN rows
    BY <2>6
  <2>8. \A id, other \in DOMAIN rows :
          ~TextBefore(CreatedAt[id], CreatedAt[other])
          => ~Earlier(rows[id].created_at, rows[other].created_at)
    BY <2>4, TextOrder DEF Kept
  <2>9. /\ DOMAIN listing'.shown = DOMAIN page
        /\ \A i \in DOMAIN page : listing'.shown[i] = rows[page[i]]
        /\ listing'.left_out = {rows[id] : id \in DOMAIN rows \ {page[i] : i \in DOMAIN page}}
        /\ listing'.limit = limit
    BY <2>2
  <2>10. \A i, j \in DOMAIN page : i < j =>
           ~Earlier(rows[page[i]].created_at, rows[page[j]].created_at)
    BY <2>6, <2>7, <2>8
  <2>11. \A i \in DOMAIN page, r \in listing'.left_out :
           ~Earlier(rows[page[i]].created_at, r.created_at)
    <3> TAKE i \in DOMAIN page, r \in listing'.left_out
    <3>1. PICK id \in DOMAIN rows \ {page[j] : j \in DOMAIN page} : r = rows[id]
      BY <2>9
    <3> QED BY <2>6, <2>7, <2>8, <3>1
  <2>12. listing'.left_out # {} => Len(listing'.shown) = limit
    <3>1. Len(listing'.shown) = Len(page)
      BY <2>2, <2>6
    <3>2. listing'.left_out # {} => DOMAIN CreatedAt \ {page[i] : i \in DOMAIN page} # {}
      BY <2>4, <2>9
    <3> QED BY <2>1, <2>5, <3>1, <3>2, PageIsFull
  <2>13. NewestFirst'
    BY <2>9, <2>10, <2>11, <2>12 DEF NewestFirst
  <2>14. \A i \in DOMAIN listing'.shown :
           /\ listing'.shown[i].receipt_id \in DOMAIN rows
           /\ listing'.shown[i] = rows[listing'.shown[i].receipt_id]
    BY <2>7, <2>9 DEF Kept
  <2> QED BY <2>3, <2>13, <2>14 DEF Kept
<1>6. CASE UNCHANGED hvars
  BY <1>6 DEF hvars, Kept, NewestFirst
<1> QED BY <1>1, <1>2, <1>3, <1>4, <1>5, <1>6 DEF Next

\* Every listing is in order of time and complete up to its limit, although
\* SQLite compares texts (store.py recent), in whatever order the handlers
\* committed and however the clock was set.
THEOREM HistoryNewestFirst == HistorySpec => []NewestFirst
<1>1. Kept => NewestFirst
  BY DEF Kept
<1> QED BY <1>1, InitKept, NextKept, PTL DEF HistorySpec

\* What was listed can be fetched ever after and says the same (api.py receipt,
\* store.py save).
THEOREM HistoryListedStaysTrue == HistorySpec => []ListedStaysTrue
<1>1. Kept => ListedStaysTrue
  BY DEF Kept, ListedStaysTrue, Fetch
<1> QED BY <1>1, InitKept, NextKept, PTL DEF HistorySpec
=============================================================================
