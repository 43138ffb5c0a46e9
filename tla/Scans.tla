------------------------------- MODULE Scans --------------------------------
(***************************************************************************)
(* The iterators of DB and of Tx (db.go, tx.go, index.go): loops over a    *)
(* tree that run while others write.  A DB iterator holds mu's read lock   *)
(* for the whole loop and walks the live tree; a Tx iterator holds no lock *)
(* and walks the tree of its snapshot.  Both fix now before the loop and   *)
(* skip what had expired by then.                                          *)
(***************************************************************************)
EXTENDS DBState

CONSTANTS Scanners,    \* goroutines that iterate
          MaxWrites,   \* bound on the writes
          MaxClock     \* bound on time, and on deadlines

ASSUME ScansAssumption == Values \subseteq Nat /\ {MaxWrites, MaxClock} \subseteq Nat

VARIABLES
  state,    \* db.state
  clock,    \* the wall clock
  writes,   \* writes so far
  pc,       \* per scanner: "idle", "begun" (a Tx), "called", "loop" or "done"
  scan,     \* the iterator (its kind, tree, direction, pivot and now) and its cursor
  snap,     \* the state the loop walks; for a DB iterator, at its RLock
  got       \* the pairs yielded, in order

vars == <<state, clock, writes, pc, scan, snap, got>>

NoPivot == <<>>

\* All, Keys and Values, Ascend, Backward, Descend over the primary tree,
\* and the same four over an index.
Iterators ==
  [kind : {"db", "tx"}, tree : {"data"} \union Names, desc : BOOLEAN,
   pivot : {NoPivot} \union (Keys \X Values), now : {0}]

NoScan == [kind |-> "db", tree |-> "data", desc |-> FALSE, pivot |-> NoPivot, now |-> 0]
-----------------------------------------------------------------------------
(***************************************************************************)
(* Trees in order.  An index orders pairs by its comparator, here by       *)
(* value, with the key as tiebreak.                                        *)
(***************************************************************************)
Entries(s, tree) ==
  IF tree = "data" THEN {<<k, s.data[k]>> : k \in {j \in Keys : Contains(s, j)}}
  ELSE IF tree \in DOMAIN s.idx THEN s.idx[tree] ELSE {}

compare(tree, e, f) ==
  IF tree = "data" THEN e[1] < f[1]
  ELSE e[2] < f[2] \/ (e[2] = f[2] /\ e[1] < f[1])

Precedes(sc, e, f) == IF sc.desc THEN compare(sc.tree, f, e) ELSE compare(sc.tree, e, f)

\* The entries from the pivot on.
InRange(sc, entries) ==
  IF sc.pivot = NoPivot THEN entries ELSE {e \in entries : ~Precedes(sc, e, sc.pivot)}

\* The loop's next entry after the cursor, in the tree as it is now.
Ahead(sc, s, cursor) ==
  LET range == InRange(sc, Entries(s, sc.tree)) IN
  IF cursor = NoPivot THEN range ELSE {e \in range : Precedes(sc, cursor, e)}

First(sc, entries) == CHOOSE e \in entries : \A f \in entries \ {e} : Precedes(sc, e, f)
-----------------------------------------------------------------------------
Init ==
  /\ state = newDBState
  /\ clock = 0 /\ writes = 0
  /\ pc = [g \in Scanners |-> "idle"]
  /\ scan = [g \in Scanners |-> [it |-> NoScan, cursor |-> NoPivot]]
  /\ snap = [g \in Scanners |-> newDBState]
  /\ got = [g \in Scanners |-> <<>>]

\* Mutant: the read lock is given up before the loop.
ReadLockedBriefly == FALSE

\* A loop of a DB iterator holds mu.RLock.
ReadLocked == \E g \in Scanners : pc[g] = "loop" /\ scan[g].it.kind = "db"

\* A write of the live state, a commit's included; it takes mu exclusively.
Write ==
  /\ ~ReadLocked
  /\ writes < MaxWrites
  /\ writes' = writes + 1
  /\ \/ \E k \in Keys, v \in Values, deadline \in 0 .. MaxClock :
          state' = set(state, k, v, deadline)
     \/ \E k \in Keys : Contains(state, k) /\ state' = delete(state, k)
     \/ \E n \in Names \ DOMAIN state.idx : state' = addIndex(state, n)
     \/ \E n \in DOMAIN state.idx : state' = dropIndex(state, n)
  /\ UNCHANGED <<clock, pc, scan, snap, got>>

\* Begin: the snapshot a Tx iterator walks.
Begin(g) ==
  /\ pc[g] = "idle"
  /\ pc' = [pc EXCEPT ![g] = "begun"]
  /\ snap' = [snap EXCEPT ![g] = state]
  /\ UNCHANGED <<state, clock, writes, scan, got>>

\* The iterator is started; over the primary tree it reads the time here.
Call(g) ==
  /\ \E it \in Iterators :
       /\ pc[g] = IF it.kind = "tx" THEN "begun" ELSE "idle"
       /\ scan' = [scan EXCEPT ![g] = [it |-> [it EXCEPT !.now = clock], cursor |-> NoPivot]]
  /\ pc' = [pc EXCEPT ![g] = "called"]
  /\ UNCHANGED <<state, clock, writes, snap, got>>

\* mu.RLock, or nothing for a Tx; iterIndexTree reads the time only now.
Enter(g) ==
  /\ pc[g] = "called"
  /\ pc' = [pc EXCEPT ![g] = "loop"]
  /\ snap' = IF scan[g].it.kind = "db" THEN [snap EXCEPT ![g] = state] ELSE snap
  /\ scan' = IF scan[g].it.tree = "data" THEN scan ELSE [scan EXCEPT ![g].it.now = clock]
  /\ UNCHANGED <<state, clock, writes, got>>

\* The tree the loop walks.
Walked(g) == IF scan[g].it.kind = "db" THEN state ELSE snap[g]

\* One turn of the loop: an expired key is skipped, any other is yielded.
Turn(g) ==
  LET ahead == Ahead(scan[g].it, Walked(g), scan[g].cursor)
      e == First(scan[g].it, ahead) IN
  /\ pc[g] = "loop"
  /\ ahead # {}
  /\ scan' = [scan EXCEPT ![g].cursor = e]
  /\ got' = IF expired(Walked(g), e[1], scan[g].it.now) THEN got
            ELSE [got EXCEPT ![g] = Append(@, e)]
  /\ UNCHANGED <<state, clock, writes, pc, snap>>

\* The tree is exhausted.
End(g) ==
  /\ pc[g] = "loop"
  /\ Ahead(scan[g].it, Walked(g), scan[g].cursor) = {}
  /\ pc' = [pc EXCEPT ![g] = "done"]
  /\ UNCHANGED <<state, clock, writes, scan, snap, got>>

\* The loop's body breaks off, or the finished scan is looked at no more.
Leave(g) ==
  /\ pc[g] \in {"loop", "done"}
  /\ pc' = [pc EXCEPT ![g] = "idle"]
  /\ scan' = [scan EXCEPT ![g] = [it |-> NoScan, cursor |-> NoPivot]]
  /\ snap' = [snap EXCEPT ![g] = newDBState]
  /\ got' = [got EXCEPT ![g] = <<>>]
  /\ UNCHANGED <<state, clock, writes>>

Tick ==
  /\ clock < MaxClock
  /\ clock' = clock + 1
  /\ UNCHANGED <<state, writes, pc, scan, snap, got>>

Next ==
  \/ Write \/ Tick
  \/ \E g \in Scanners : Begin(g) \/ Call(g) \/ Enter(g) \/ Turn(g) \/ End(g) \/ Leave(g)

Spec == Init /\ [][Next]_vars
-----------------------------------------------------------------------------
(***************************************************************************)
(* Properties.                                                             *)
(***************************************************************************)
\* What a scan should yield: the visible pairs in its range of one state.
Expected(g) ==
  {e \in InRange(scan[g].it, {<<k, snap[g].data[k]>> : k \in {j \in Keys : Contains(snap[g], j)}}) :
     ~expired(snap[g], e[1], scan[g].it.now)}

\* Every iterator yields, in its order, a beginning of the visible pairs of
\* one state, the one at its RLock or its Begin, and all of them if the loop
\* is not broken off, however writers interleave with the loop.
ScanIsASnapshot ==
  \A g \in Scanners : pc[g] \in {"loop", "done"} =>
    LET it == scan[g].it
        pairs == {got[g][i] : i \in DOMAIN got[g]}
        there == it.tree = "data" \/ it.tree \in DOMAIN snap[g].idx IN
    /\ \A i, j \in DOMAIN got[g] : i < j => Precedes(it, got[g][i], got[g][j])
    /\ there => pairs \subseteq Expected(g)
    /\ there => \A e \in Expected(g), p \in pairs : Precedes(it, e, p) => e \in pairs
    /\ there /\ pc[g] = "done" => pairs = Expected(g)

=============================================================================
