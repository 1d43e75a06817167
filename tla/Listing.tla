------------------------------ MODULE Listing ------------------------------
(***************************************************************************)
(* The listing of receipts: ReceiptStore.recent of store.py.  SQLite       *)
(* orders rows by created_at as text, the text datetime.isoformat makes.   *)
(*                                                                         *)
(* An instant is a second and a microsecond.  Its text is a sequence of    *)
(* symbols that compare as the bytes do: a number stands for a field of    *)
(* digits of fixed width, punctuation for its character code.              *)
(***************************************************************************)
EXTENDS Naturals, Sequences, FiniteSets

Plus == 43
Dot == 46
Zed == 90

Earlier(s, t) == s.second < t.second \/ (s.second = t.second /\ s.micro < t.micro)

\* A bug a rewrite could bring in: "Z" for "+00:00".
IsoTextZulu(t) ==
  IF t.micro = 0 THEN <<t.second, Zed>> ELSE <<t.second, Dot, t.micro, Zed>>

\* isoformat leaves a fraction of zero out; the zone is always +00:00
IsoText(t) ==
  IF t.micro = 0 THEN <<t.second, Plus>> ELSE <<t.second, Dot, t.micro, Plus>>

\* s sorts before t: at the first symbol where they differ, or as its beginning
TextBefore(s, t) ==
  \E i \in 1..Len(t) :
    /\ \A j \in 1..(i - 1) : j \in DOMAIN s /\ s[j] = t[j]
    /\ i \notin DOMAIN s \/ s[i] < t[i]

Clamped(limit) == IF limit < 1 THEN 1 ELSE IF limit > 100 THEN 100 ELSE limit

\* What ORDER BY created_at DESC LIMIT may return, as receipt ids: text is the
\* created_at column, and rows with equal texts come in any order.
Pages(text, limit) ==
  LET rows == Cardinality(DOMAIN text)
      size == IF rows < Clamped(limit) THEN rows ELSE Clamped(limit)
  IN {page \in [1..size -> DOMAIN text] :
        /\ \A i, j \in 1..size : i < j =>
             page[i] # page[j] /\ ~TextBefore(text[page[i]], text[page[j]])
        /\ \A i \in 1..size, id \in DOMAIN text :
             TextBefore(text[page[i]], text[id]) => \E j \in 1..size : page[j] = id}
=============================================================================
