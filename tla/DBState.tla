------------------------------ MODULE DBState -------------------------------
(***************************************************************************)
(* dbState (state.go): the primary tree and the trees derived from it, and *)
(* the operations that every write, transaction and replay goes through.   *)
(* A tree is the set or function it holds; its order is a matter of the    *)
(* comparator and no operation here depends on it.                         *)
(***************************************************************************)
EXTENDS Naturals, FiniteSets, Sequences

CONSTANTS Keys,     \* the ordered key type
          Values,   \* the value type
          NoValue,  \* a key that is absent
          Names     \* names an index may be registered under

ASSUME KeysAssumption == Keys \subseteq Nat /\ IsFiniteSet(Keys)
ASSUME NoValueAssumption == NoValue \notin Values

\* data and ttl as total functions: NoValue is absence, deadline 0 is none.
\* exp holds (deadline, key) pairs; idx maps each registered name to the
\* (key, value) pairs of its tree.
States ==
  [data : [Keys -> Values \union {NoValue}],
   ttl  : [Keys -> Nat],
   exp  : SUBSET (Nat \X Keys),
   idx  : UNION {[N -> SUBSET (Keys \X Values)] : N \in SUBSET Names}]

newDBState ==
  [data |-> [k \in Keys |-> NoValue],
   ttl  |-> [k \in Keys |-> 0],
   exp  |-> {},
   idx  |-> [n \in {} |-> {}]]

Contains(s, k) == s.data[k] # NoValue

\* Mutant: the previous deadline keeps its slot in exp.
setKeepingSlot(s, k, v, deadline) ==
  [data |-> [s.data EXCEPT ![k] = v],
   ttl  |-> [s.ttl EXCEPT ![k] = deadline],
   exp  |-> s.exp \union (IF deadline > 0 THEN {<<deadline, k>>} ELSE {}),
   idx  |-> [n \in DOMAIN s.idx |-> (s.idx[n] \ {<<k, s.data[k]>>}) \union {<<k, v>>}]]

set(s, k, v, deadline) ==
  [data |-> [s.data EXCEPT ![k] = v],
   ttl  |-> [s.ttl EXCEPT ![k] = deadline],
   exp  |-> (s.exp \ {<<s.ttl[k], k>>})
              \union (IF deadline > 0 THEN {<<deadline, k>>} ELSE {}),
   idx  |-> [n \in DOMAIN s.idx |-> (s.idx[n] \ {<<k, s.data[k]>>}) \union {<<k, v>>}]]

delete(s, k) ==
  IF Contains(s, k)
  THEN [data |-> [s.data EXCEPT ![k] = NoValue],
        ttl  |-> [s.ttl EXCEPT ![k] = 0],
        exp  |-> s.exp \ {<<s.ttl[k], k>>},
        idx  |-> [n \in DOMAIN s.idx |-> s.idx[n] \ {<<k, s.data[k]>>}]]
  ELSE s

expired(s, k, now) == s.ttl[k] > 0 /\ s.ttl[k] <= now

get(s, k, now) == IF Contains(s, k) /\ ~expired(s, k, now) THEN s.data[k] ELSE NoValue

\* Mutant: a deadline that is reached does not count as passed.
liveLenOffByOne(s, now) ==
  Cardinality({k \in Keys : Contains(s, k)}) - Cardinality({e \in s.exp : e[1] < now})

\* The tree size less the expired prefix of exp.
liveLen(s, now) ==
  Cardinality({k \in Keys : Contains(s, k)}) - Cardinality({e \in s.exp : e[1] <= now})

\* The pairs an index scan yields: iterIndexTree skips expired keys.
iterIndexTree(s, n, now) == {e \in s.idx[n] : ~expired(s, e[1], now)}

\* CreateIndex and DropIndex on the live state.
addIndex(s, n) ==
  [data |-> s.data, ttl |-> s.ttl, exp |-> s.exp,
   idx |-> [m \in DOMAIN s.idx \union {n} |->
              IF m = n THEN {<<k, s.data[k]>> : k \in {j \in Keys : Contains(s, j)}}
              ELSE s.idx[m]]]

dropIndex(s, n) ==
  [data |-> s.data, ttl |-> s.ttl, exp |-> s.exp,
   idx |-> [m \in DOMAIN s.idx \ {n} |-> s.idx[m]]]
-----------------------------------------------------------------------------
(***************************************************************************)
(* Log records, and their replay by Open.                                  *)
(***************************************************************************)
Records ==
  [op : {"set"}, key : Keys, val : Values, deadline : Nat] \union [op : {"delete"}, key : Keys]

SetOp(k, v, deadline) == [op |-> "set", key |-> k, val |-> v, deadline |-> deadline]
DeleteOp(k) == [op |-> "delete", key |-> k]

\* The apply callback of Open: opSet, opSetTTL, opDelete.
apply(s, rec) ==
  IF rec.op = "set" THEN set(s, rec.key, rec.val, rec.deadline) ELSE delete(s, rec.key)

\* Intact records applied in log order.
replay(s, recs) ==
  LET upTo[i \in 0 .. Len(recs)] ==
        IF i = 0 THEN s ELSE apply(upTo[i - 1], recs[i])
  IN  upTo[Len(recs)]
-----------------------------------------------------------------------------
\* Every entry of the derived trees mirrors the primary tree: a deadline
\* belongs to a present key and has its one slot in exp, and each index holds
\* exactly the present pairs.
Mirror(s) ==
  /\ \A k \in Keys : s.ttl[k] > 0 => Contains(s, k)
  /\ s.exp = {<<s.ttl[k], k>> : k \in {j \in Keys : s.ttl[j] > 0}}
  /\ \A n \in DOMAIN s.idx :
       s.idx[n] = {<<k, s.data[k]>> : k \in {j \in Keys : Contains(s, j)}}

\* What readers see at a time: each key's value and deadline while unexpired.
View(s, now) ==
  [k \in Keys |-> IF get(s, k, now) = NoValue THEN <<NoValue, 0>>
                  ELSE <<s.data[k], s.ttl[k]>>]

\* Two states that no reader tells apart at a time.
SameAt(s, t, now) == View(s, now) = View(t, now)

=============================================================================
