---------------------------- MODULE TensorWriter ----------------------------
(***************************************************************************)
(* TensorWriter and its cache (core/writer/): which part of an item's      *)
(* chunk a key may write, each key once and all of them.                   *)
(***************************************************************************)
EXTENDS TensorSlots

Keys(layouts) == [k \in DOMAIN layouts |-> layouts[k].key]

\* new: the cache is cleared, and each key gets its part of the chunk.
NewWriter(layouts, chunk) ==
  [ err     |-> IF ItemSize(layouts) > Cardinality(DOMAIN chunk) THEN "BufferTooSmall" ELSE "none",
    out     |-> chunk,
    keys    |-> Keys(layouts),
    offset  |-> [k \in DOMAIN layouts |-> ItemSize(First(layouts, k - 1))],
    size    |-> [k \in DOMAIN layouts |-> AlignedBytes(layouts[k])],
    written |-> [k \in DOMAIN layouts |-> FALSE] ]

KeyPos(w, key) == CHOOSE k \in DOMAIN w.keys : w.keys[k] = key

HasKey(w, key) == \E k \in DOMAIN w.keys : w.keys[k] = key

PartOf(w, k) == [i \in 0 .. w.size[k] - 1 |-> w.out[w.offset[k] + i]]

KeyPart(w, key) == PartOf(w, KeyPos(w, key))

Put(w, k, part) == [w EXCEPT !.out = Overlay(w.out, MovedTo(w.offset[k], part))]

Refuse(w, e) == [w EXCEPT !.err = e]

\* Mutant: what the closure left unwritten is not cleared.
AfterClosureKeepsRest(w, k, part, n) ==
  IF n > w.size[k] THEN Refuse(Put(w, k, part), "BufferOutOfBounds")
  ELSE [Put(w, k, part) EXCEPT !.written[k] = TRUE]

\* What write does once the closure has written `part` and returned n.
AfterClosure(w, k, part, n) ==
  IF n > w.size[k] THEN Refuse(Put(w, k, part), "BufferOutOfBounds")
  ELSE [Put(w, k, [i \in DOMAIN part |-> IF i < n THEN part[i] ELSE Zero]) EXCEPT !.written[k] = TRUE]

\* write: r is what the closure makes of the part of the key, an error or how
\* much it says it has written, and is not looked at where it is not called.
Write(w, key, r) ==
  CASE ~HasKey(w, key) -> Refuse(w, "UnknownKey")
    [] HasKey(w, key) /\ w.written[KeyPos(w, key)] -> Refuse(w, "KeyExists")
    [] HasKey(w, key) /\ ~w.written[KeyPos(w, key)] ->
         LET k == KeyPos(w, key)
         IN  IF r.err # "none" THEN Refuse(Put(w, k, r.out), r.err) ELSE AfterClosure(w, k, r.out, r.n)

\* finalize.
Finalize(w) == IF \A k \in DOMAIN w.keys : w.written[k] THEN w ELSE Refuse(w, "MissingKeys")
=============================================================================
