-------------------------- MODULE TransactionalMap --------------------------
(***************************************************************************)
(* What the store promises its users: a map from keys to values with       *)
(* deadlines, one writer at a time, snapshot transactions, atomic commits. *)
(* There is no log, no sweeper, no compaction and no index here, and no    *)
(* crash: none of them changes what can be read.                           *)
(***************************************************************************)
EXTENDS Naturals

CONSTANTS Keys, Txs,
          Absent      \* the entry of a key that is not there

VARIABLES
  map,       \* what a reader sees: each key's (value, deadline), or Absent
  private,   \* what each open transaction sees
  mode,      \* "done", "read" or "write"
  now        \* the time

vars == <<map, private, mode, now>>

Empty == [k \in Keys |-> Absent]

Init ==
  /\ map = Empty
  /\ private = [t \in Txs |-> Empty]
  /\ mode = [t \in Txs |-> "done"]
  /\ now = 0

NoWriter == \A t \in Txs : mode[t] # "write"

\* m and n differ in one key at most.
OneKey(m, n) == \E k \in Keys : \A j \in Keys \ {k} : m[j] = n[j]

\* A Set, SetTTL or Delete outside of a transaction.
Write ==
  /\ NoWriter
  /\ OneKey(map, map')
  /\ UNCHANGED <<private, mode, now>>

Begin(t) ==
  /\ mode[t] = "done"
  /\ mode' \in {[mode EXCEPT ![t] = "read"]} \union
               (IF NoWriter THEN {[mode EXCEPT ![t] = "write"]} ELSE {})
  /\ private' = [private EXCEPT ![t] = map]
  /\ UNCHANGED <<map, now>>

\* A write inside a transaction, or the undoing of several.
TxWrite(t) ==
  /\ mode[t] = "write"
  /\ \A s \in Txs \ {t} : private'[s] = private[s]
  /\ UNCHANGED <<map, mode, now>>

Finish(t) ==
  /\ mode[t] # "done"
  /\ mode' = [mode EXCEPT ![t] = "done"]
  /\ private' = [private EXCEPT ![t] = Empty]
  /\ UNCHANGED now

\* All of the transaction's changes at once, and nobody else's undone.
Commit(t) == mode[t] = "write" /\ Finish(t) /\ map' = private[t]

Rollback(t) == Finish(t) /\ map' = map

\* The process ends: open transactions are gone, the map is not.
Restart ==
  /\ mode' = [t \in Txs |-> "done"]
  /\ private' = [t \in Txs |-> Empty]
  /\ UNCHANGED <<map, now>>

Live(m, time) ==
  [k \in Keys |-> IF m[k] # Absent /\ m[k][2] > 0 /\ m[k][2] <= time THEN Absent ELSE m[k]]

\* Time passes, and nothing else makes a key disappear.
Expire ==
  /\ now' = now + 1
  /\ map' = Live(map, now')
  /\ private' = [t \in Txs |-> Live(private[t], now')]
  /\ UNCHANGED mode

Next ==
  \/ Write \/ Restart \/ Expire
  \/ \E t \in Txs : Begin(t) \/ TxWrite(t) \/ Commit(t) \/ Rollback(t)

Spec == Init /\ [][Next]_vars

=============================================================================
