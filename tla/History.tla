------------------------------ MODULE History ------------------------------
(***************************************************************************)
(* Receipt history: receipts are evaluated and saved by concurrent         *)
(* handlers, listed by GET /v1/receipts and fetched one at a time by       *)
(* GET /v1/receipts/{id} (store.py, api.py).  A receipt is evaluated at    *)
(* one instant and committed at a later one, perhaps after younger ones,   *)
(* and the wall clock may be set back.                                     *)
(***************************************************************************)
EXTENDS Listing

CONSTANTS
  Artifacts,
  VerdictFor,        \* artifact -> the verdict of its receipts
  MicrosPerSecond,   \* 1000000 in Python; small in an instance
  Limits,            \* values of the limit parameter
  MaxNow, MaxSetbacks, MaxReceipts,   \* bounds of the verification
  NULL

ASSUME HistoryAssumption == MicrosPerSecond \in Nat \ {0} /\ Limits \subseteq Nat

VARIABLES
  now,         \* the wall clock, in microseconds
  setbacks,
  pending,     \* receipts evaluated and not yet committed
  rows,        \* the table: receipt id -> row
  listing      \* the last answer of GET /v1/receipts, with what it left out

hvars == <<now, setbacks, pending, rows, listing>>

Instant(n) == [second |-> n \div MicrosPerSecond, micro |-> n % MicrosPerSecond]

\* A bug a rewrite could bring in: the identity of a receipt forgets the time.
TimelessReceipt(artifact, n) ==
  [receipt_id |-> <<artifact, 0>>, created_at |-> Instant(n), verdict |-> VerdictFor[artifact]]

\* the digest of everything a receipt says is its id
Receipt(artifact, n) ==
  [receipt_id |-> <<artifact, n>>, created_at |-> Instant(n), verdict |-> VerdictFor[artifact]]

Init ==
  /\ now = 0 /\ setbacks = 0
  /\ pending = {} /\ rows = << >> /\ listing = NULL

Tick ==
  /\ now < MaxNow
  /\ now' = now + 1
  /\ UNCHANGED <<setbacks, pending, rows, listing>>

SetBack ==
  /\ now > 0 /\ setbacks < MaxSetbacks
  /\ now' = now - 1 /\ setbacks' = setbacks + 1
  /\ UNCHANGED <<pending, rows, listing>>

\* a handler of POST /v1/verify made its receipt
Evaluate(artifact) ==
  /\ Cardinality(DOMAIN rows) + Cardinality(pending) < MaxReceipts
  /\ pending' = pending \cup {Receipt(artifact, now)}
  /\ UNCHANGED <<now, setbacks, rows, listing>>

\* its INSERT OR REPLACE commits
Save(receipt) ==
  /\ receipt \in pending
  /\ pending' = pending \ {receipt}
  /\ rows' = [id \in DOMAIN rows \cup {receipt.receipt_id} |->
                IF id = receipt.receipt_id THEN receipt ELSE rows[id]]
  /\ UNCHANGED <<now, setbacks, listing>>

CreatedAt == [id \in DOMAIN rows |-> IsoText(rows[id].created_at)]

\* GET /v1/receipts: a limit outside 1..100 is refused, 422
List(limit) ==
  /\ limit \in 1..100
  /\ \E page \in Pages(CreatedAt, limit) :
       listing' = [shown |-> [i \in DOMAIN page |-> rows[page[i]]],
                   left_out |-> {rows[id] : id \in DOMAIN rows \ {page[i] : i \in DOMAIN page}},
                   limit |-> limit]
  /\ UNCHANGED <<now, setbacks, pending, rows>>

\* GET /v1/receipts/{receipt_id}, or 404
Fetch(id) == IF id \in DOMAIN rows THEN rows[id] ELSE NULL

Next ==
  \/ Tick \/ SetBack
  \/ \E artifact \in Artifacts : Evaluate(artifact)
  \/ \E receipt \in pending : Save(receipt)
  \/ \E limit \in Limits : List(limit)

HistorySpec == Init /\ [][Next]_hvars

---------------------------------------------------------------------------
(* Properties.                                                             *)

\* A listing is in order of time although the rows are compared as texts, some
\* of which lack the fraction (store.py recent): no receipt comes before a
\* younger one, and what the limit cut off is no younger than what was kept,
\* in whatever order the receipts were committed.
NewestFirst ==
  listing # NULL =>
    /\ \A i, j \in DOMAIN listing.shown : i < j =>
         ~Earlier(listing.shown[i].created_at, listing.shown[j].created_at)
    /\ \A i \in DOMAIN listing.shown, r \in listing.left_out :
         ~Earlier(listing.shown[i].created_at, r.created_at)
    /\ listing.left_out # {} => Len(listing.shown) = listing.limit

\* What a listing said of a receipt stays true: the row can still be fetched and
\* says the same, however often the artifact is verified again (store.py save
\* replaces only a row with the same digest; api.py receipt).
ListedStaysTrue ==
  listing # NULL =>
    \A i \in DOMAIN listing.shown :
      Fetch(listing.shown[i].receipt_id) = listing.shown[i]
=============================================================================
