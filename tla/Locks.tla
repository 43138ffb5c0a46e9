------------------------------- MODULE Locks --------------------------------
(***************************************************************************)
(* The locks of a DB and the goroutines that take them (db.go, tx.go,      *)
(* savepoint.go, index.go, groupcommit.go, ttl.go, compact.go, backup.go,  *)
(* replication.go): writerMu, compactMu, mu, gsync.mu, the leadership of   *)
(* a group fsync, the stop and done channels, and bgWG.                    *)
(*                                                                         *)
(* A goroutine is the sequence of synchronising instructions it has still  *)
(* to execute.  Each Go function is such a sequence.                       *)
(***************************************************************************)
EXTENDS Naturals, Sequences

CONSTANTS Callers,     \* goroutines that call the DB's methods
          Calls,       \* the methods they call
          LoopBody,    \* the methods called in the body of an iterator's loop
          Options,     \* the options Open may be given: a SyncPolicy and, of
                       \* {"sweeper", "auto"}, the background work asked for
          NoOne,       \* the owner of a free lock
          MaxCalls     \* bound on the calls of one caller

ASSUME MaxCallsAssumption == MaxCalls \in Nat

Goroutines == Callers \union {"sweeper", "syncer", "auto"}
Mutexes == {"writerMu", "compactMu", "gs"}

VARIABLES
  options,     \* the options of the database, fixed when it is opened
  todo,        \* the instructions each goroutine has left
  mutex,       \* the owner of each mutex
  writer,      \* the goroutine that holds mu exclusively
  announced,   \* the goroutine in mu.Lock that waits for the readers to leave
  readers,     \* how many read locks on mu each goroutine holds
  syncing,     \* gsync.syncing: the leader whose fsync is in flight
  closed,      \* db.closed, and "done" once Close has returned
  stopped,     \* the stop channels that are closed
  ended,       \* the background goroutines that have ended or never started
  calls        \* calls each caller has made

muVars == <<writer, announced, readers>>
lifeVars == <<closed, stopped, ended>>
vars == <<options, todo, mutex, muVars, syncing, lifeVars, calls>>
-----------------------------------------------------------------------------
(***************************************************************************)
(* Instructions.  Check(undo) is a test of closed and writeErr, with what  *)
(* is executed instead of the rest if it fails; May(undo) is anything else *)
(* that may fail or end the function.  WriteLog(undo) is writeLog with its *)
(* maybeAutoCompact.                                                       *)
(***************************************************************************)
Instr(do, what, undo) == [do |-> do, what |-> what, undo |-> undo]

Lock(m) == Instr("lock", m, <<>>)
Unlock(m) == Instr("unlock", m, <<>>)
RLock == Instr("rlock", "mu", <<>>)
RUnlock == Instr("runlock", "mu", <<>>)
Check(undo) == Instr("check", "closed", undo)
May(undo) == Instr("may", "fail", undo)
WriteLog(undo) == Instr("append", "log", undo)
Wait(what) == Instr("wait", what, <<>>)
Stop(what) == Instr("stop", what, <<>>)

\* What a caller executes after a function, whichever way that returned.
Then(code, rest) ==
  [i \in DOMAIN code |->
     IF code[i].do \in {"check", "may", "append", "close"}
     THEN [code[i] EXCEPT !.undo = @ \o rest] ELSE code[i]] \o rest

\* markDurable, with mu held.
markDurable == <<Lock("gs"), Unlock("gs")>>

waitDurable == <<Instr("group", "gs", <<>>)>>

\* The leader's round, from mu.RLock to the broadcast.  After a failed fsync
\* it looks at the file again and may set writeErr.
leaderRounds ==
  LET read == <<RLock, RUnlock>>
      done == <<Instr("unlead", "gs", <<>>)>>
  IN  {read \o done, read \o read \o done, read \o read \o <<Lock("mu"), Unlock("mu")>> \o done}

\* setInternal and Delete, which share their locking.
setInternal ==
  LET undo == <<Unlock("mu"), Unlock("writerMu")>> IN
  <<Lock("writerMu"), Lock("mu"), Check(undo), May(undo), WriteLog(undo)>> \o undo \o waitDurable

\* Get, Len, LiveLen, TTL, Indexes and LogState.
Get == <<RLock, RUnlock>>

\* Begin(true): what follows runs only if it succeeds.
BeginWritable ==
  <<Lock("writerMu"), Lock("mu"), Check(<<Unlock("mu"), Unlock("writerMu")>>), Unlock("mu")>>

\* Savepoint, RollbackTo and Release.
Savepoint == <<Lock("mu"), Unlock("mu")>>

Commit ==
  LET undo == <<Unlock("mu"), Unlock("writerMu")>> IN
  <<Lock("mu"), Check(undo), May(undo), WriteLog(undo)>> \o undo \o waitDurable

Rollback == <<Lock("mu"), Unlock("mu"), Unlock("writerMu")>>

\* Mutant: an error of the function leaves the transaction open.
UpdateForgetsRollback == BeginWritable \o Savepoint \o <<May(<<>>)>> \o Commit

\* Update with a savepoint; its function may fail.
Update == BeginWritable \o Savepoint \o <<May(Rollback)>> \o Commit

View == <<Lock("mu"), Check(<<Unlock("mu")>>), Unlock("mu"), Lock("mu"), Unlock("mu")>>

CreateIndex == <<Lock("writerMu"), Lock("mu"), Unlock("mu"), Unlock("writerMu")>>

DBSync == <<Lock("mu"), Check(<<Unlock("mu")>>), May(<<Unlock("mu")>>)>> \o markDurable \o <<Unlock("mu")>>

\* Mutant: Phase B takes writerMu to pause the writers.
CompactPausingWriters ==
  LET undo == <<Unlock("mu"), Unlock("compactMu")>> IN
  <<Lock("compactMu"), Lock("mu"), Check(undo), Unlock("mu"),
    Lock("mu"), Unlock("mu"),
    Lock("writerMu"), Lock("mu"), Check(<<Unlock("mu"), Unlock("writerMu"), Unlock("compactMu")>>)>>
    \o markDurable \o <<Unlock("mu"), Unlock("writerMu"), Unlock("compactMu")>>

\* Phase A, releaseState, Phase B.
Compact ==
  LET undo == <<Unlock("mu"), Unlock("compactMu")>> IN
  <<Lock("compactMu"), Lock("mu"), Check(undo), Unlock("mu"),
    Lock("mu"), Unlock("mu"), May(<<Unlock("compactMu")>>),
    Lock("mu"), Check(undo), May(undo)>> \o markDurable \o <<Unlock("mu"), Unlock("compactMu")>>

BackupTo ==
  <<Lock("compactMu"), Lock("mu"), Check(<<Unlock("mu"), Unlock("compactMu")>>),
    Unlock("mu"), Unlock("compactMu")>>

ReadLogRange ==
  <<Lock("compactMu"), RLock, Check(<<RUnlock, Unlock("compactMu")>>),
    RUnlock, Unlock("compactMu")>>

\* Mutant: Close does not wait for the auto-compaction.
CloseWithoutWait ==
  <<Lock("mu"), Instr("close", "db", <<Unlock("mu")>>), Unlock("mu"),
    Stop("syncer"), Wait("syncer"), Stop("sweeper"), Wait("sweeper"),
    Lock("mu")>> \o markDurable \o <<Unlock("mu"), Instr("closed", "db", <<>>)>>

\* Mutant: Close keeps mu until it returns.
CloseHoldingMu ==
  <<Lock("mu"), Instr("close", "db", <<Unlock("mu")>>),
    Stop("syncer"), Wait("syncer"), Stop("sweeper"), Wait("sweeper"), Wait("auto")>>
    \o markDurable \o <<Unlock("mu"), Instr("closed", "db", <<>>)>>

\* The flag, the goroutines' ends, the final sync.
Close ==
  <<Lock("mu"), Instr("close", "db", <<Unlock("mu")>>), Unlock("mu"),
    Stop("syncer"), Wait("syncer"), Stop("sweeper"), Wait("sweeper"), Wait("auto"),
    Lock("mu")>> \o markDurable \o <<Unlock("mu"), Instr("closed", "db", <<>>)>>

\* The scan, then an Update if it found an expired key.
sweepExpired == <<RLock, Check(<<RUnlock>>), RUnlock, May(<<>>)>> \o Update

\* One turn of sweepLoop, which notes an error.
sweepLoop == Then(sweepExpired, <<May(<<>>), Lock("mu"), Unlock("mu")>>)

backgroundSync == <<Lock("mu"), Unlock("mu")>>

\* The goroutine of maybeAutoCompact: Compact, then compacting is cleared.
\* That it has instructions left is db.compacting and bgWG's count.
autoCompaction == Then(Compact, <<Lock("mu"), Unlock("mu")>>)

\* What each method executes.
Code(call) ==
  CASE call = "setInternal" -> setInternal
    [] call = "Get" -> Get
    [] call = "Update" -> Update
    [] call = "View" -> View
    [] call = "CreateIndex" -> CreateIndex
    [] call = "Sync" -> DBSync
    [] call = "Compact" -> Compact
    [] call = "BackupTo" -> BackupTo
    [] call = "ReadLogRange" -> ReadLogRange
    [] call = "Close" -> Close

\* The iterators of DB hold the read lock while the loop's body runs.
All == {<<RLock>> \o Then(Code(c), <<RUnlock>>) : c \in LoopBody} \union {<<RLock, RUnlock>>}
-----------------------------------------------------------------------------
Init ==
  /\ options \in Options
  /\ todo = [g \in Goroutines |-> <<>>]
  /\ mutex = [m \in Mutexes |-> NoOne]
  /\ writer = NoOne /\ announced = NoOne
  /\ readers = [g \in Goroutines |-> 0]
  /\ syncing = NoOne
  /\ closed = "no"
  /\ stopped = {}
  /\ ended = {"sweeper", "syncer"} \
               (options.background
                  \union (IF options.policy = "SyncEverySecond" THEN {"syncer"} ELSE {}))
  /\ calls = [g \in Callers |-> 0]

Next1(g, do) == todo[g] # <<>> /\ Head(todo[g]).do = do
Goes(g) == todo' = [todo EXCEPT ![g] = Tail(@)]
GoesTo(g, code) == todo' = [todo EXCEPT ![g] = code]

Call(g) ==
  /\ todo[g] = <<>>
  /\ calls[g] < MaxCalls
  /\ calls' = [calls EXCEPT ![g] = @ + 1]
  /\ \E code \in {Code(c) : c \in Calls} \union All : GoesTo(g, code)
  /\ UNCHANGED <<options, mutex, muVars, syncing, lifeVars>>

LockMutex(g) ==
  LET m == Head(todo[g]).what IN
  /\ Next1(g, "lock") /\ m # "mu"
  /\ mutex[m] = NoOne
  /\ mutex' = [mutex EXCEPT ![m] = g]
  /\ Goes(g)
  /\ UNCHANGED <<options, muVars, syncing, lifeVars, calls>>

UnlockMutex(g) ==
  LET m == Head(todo[g]).what IN
  /\ Next1(g, "unlock") /\ m # "mu"
  /\ mutex' = [mutex EXCEPT ![m] = NoOne]
  /\ Goes(g)
  /\ UNCHANGED <<options, muVars, syncing, lifeVars, calls>>

\* mu.Lock: a writer first shuts out new readers, then waits for those
\* inside (sync.RWMutex).
AnnounceMu(g) ==
  /\ Next1(g, "lock") /\ Head(todo[g]).what = "mu"
  /\ writer = NoOne /\ announced = NoOne
  /\ announced' = g
  /\ UNCHANGED <<options, todo, mutex, writer, readers, syncing, lifeVars, calls>>

LockMu(g) ==
  /\ announced = g
  /\ \A h \in Goroutines : readers[h] = 0
  /\ writer' = g /\ announced' = NoOne
  /\ Goes(g)
  /\ UNCHANGED <<options, mutex, readers, syncing, lifeVars, calls>>

UnlockMu(g) ==
  /\ Next1(g, "unlock") /\ Head(todo[g]).what = "mu"
  /\ writer' = NoOne
  /\ Goes(g)
  /\ UNCHANGED <<options, mutex, announced, readers, syncing, lifeVars, calls>>

RLockMu(g) ==
  /\ Next1(g, "rlock")
  /\ writer = NoOne /\ announced = NoOne
  /\ readers' = [readers EXCEPT ![g] = @ + 1]
  /\ Goes(g)
  /\ UNCHANGED <<options, mutex, writer, announced, syncing, lifeVars, calls>>

RUnlockMu(g) ==
  /\ Next1(g, "runlock")
  /\ readers' = [readers EXCEPT ![g] = @ - 1]
  /\ Goes(g)
  /\ UNCHANGED <<options, mutex, writer, announced, syncing, lifeVars, calls>>

\* canWrite, or the test of closed alone.  writeErr may be set at any time.
CheckClosed(g) ==
  /\ Next1(g, "check")
  /\ \/ closed = "no" /\ Goes(g)
     \/ GoesTo(g, Head(todo[g]).undo)
  /\ UNCHANGED <<options, mutex, muVars, syncing, lifeVars, calls>>

MayFail(g) ==
  /\ Next1(g, "may")
  /\ Goes(g) \/ GoesTo(g, Head(todo[g]).undo)
  /\ UNCHANGED <<options, mutex, muVars, syncing, lifeVars, calls>>

\* writeLog; the first append that finds the log grown starts a compaction.
AppendLog(g) ==
  /\ Next1(g, "append")
  /\ \/ Goes(g)
     \/ GoesTo(g, Head(todo[g]).undo)
     \/ /\ "auto" \in options.background /\ closed = "no" /\ todo["auto"] = <<>>
        /\ todo' = [todo EXCEPT ![g] = Tail(@), !["auto"] = autoCompaction]
  /\ UNCHANGED <<options, mutex, muVars, syncing, lifeVars, calls>>

\* waitDurable finds no fsync in flight and leads one, gsync.mu released.
Lead(g) ==
  /\ Next1(g, "group") /\ options.policy = "SyncAlways"
  /\ mutex["gs"] = NoOne /\ syncing = NoOne
  /\ syncing' = g
  /\ \E round \in leaderRounds : GoesTo(g, round \o Tail(todo[g]))
  /\ UNCHANGED <<options, mutex, muVars, lifeVars, calls>>

\* waitDurable finds its append durable, at once or after a broadcast, or the
\* policy does not wait.
Covered(g) ==
  /\ Next1(g, "group")
  /\ mutex["gs"] = NoOne
  /\ Goes(g)
  /\ UNCHANGED <<options, mutex, muVars, syncing, lifeVars, calls>>

Unlead(g) ==
  /\ Next1(g, "unlead")
  /\ mutex["gs"] = NoOne
  /\ syncing' = NoOne
  /\ Goes(g)
  /\ UNCHANGED <<options, mutex, muVars, lifeVars, calls>>

\* Close sets closed, or returns since another Close did.
SetClosed(g) ==
  /\ Next1(g, "close")
  /\ \/ closed = "no" /\ closed' = "yes" /\ Goes(g)
     \/ closed # "no" /\ closed' = closed /\ GoesTo(g, Head(todo[g]).undo)
  /\ UNCHANGED <<options, mutex, muVars, syncing, stopped, ended, calls>>

CloseChannel(g) ==
  /\ Next1(g, "stop")
  /\ stopped' = stopped \union {Head(todo[g]).what}
  /\ Goes(g)
  /\ UNCHANGED <<options, mutex, muVars, syncing, closed, ended, calls>>

\* A receive from a done channel, or bgWG.Wait.
Await(g) ==
  /\ Next1(g, "wait")
  /\ IF Head(todo[g]).what = "auto" THEN todo["auto"] = <<>> ELSE Head(todo[g]).what \in ended
  /\ Goes(g)
  /\ UNCHANGED <<options, mutex, muVars, syncing, lifeVars, calls>>

CloseReturns(g) ==
  /\ Next1(g, "closed")
  /\ closed' = "done"
  /\ Goes(g)
  /\ UNCHANGED <<options, mutex, muVars, syncing, stopped, ended, calls>>

\* A tick of sweepLoop or backgroundSync.
Tick(b) ==
  /\ b \notin ended
  /\ todo[b] = <<>>
  /\ GoesTo(b, IF b = "sweeper" THEN sweepLoop ELSE backgroundSync)
  /\ UNCHANGED <<options, mutex, muVars, syncing, lifeVars, calls>>

\* The loop sees its stop channel closed and closes its done channel.
End(b) ==
  /\ b \in stopped \ ended
  /\ todo[b] = <<>>
  /\ ended' = ended \union {b}
  /\ UNCHANGED <<options, todo, mutex, muVars, syncing, closed, stopped, calls>>

Step(g) ==
  \/ LockMutex(g) \/ UnlockMutex(g)
  \/ AnnounceMu(g) \/ LockMu(g) \/ UnlockMu(g) \/ RLockMu(g) \/ RUnlockMu(g)
  \/ CheckClosed(g) \/ MayFail(g) \/ AppendLog(g)
  \/ Lead(g) \/ Covered(g) \/ Unlead(g)
  \/ SetClosed(g) \/ CloseChannel(g) \/ Await(g) \/ CloseReturns(g)

Next ==
  \/ \E g \in Goroutines : Step(g)
  \/ \E g \in Callers : Call(g)
  \/ \E b \in {"sweeper", "syncer"} : Tick(b) \/ End(b)

Spec == Init /\ [][Next]_vars
-----------------------------------------------------------------------------
(***************************************************************************)
(* Properties.                                                             *)
(***************************************************************************)
\* A lock is held by a goroutine that still has to release it.
TypeOK ==
  /\ \A m \in Mutexes : mutex[m] # NoOne =>
       \E i \in DOMAIN todo[mutex[m]] : todo[mutex[m]][i] = Unlock(m)
  /\ writer # NoOne => \E i \in DOMAIN todo[writer] : todo[writer][i] = Unlock("mu")
  /\ announced # NoOne => Head(todo[announced]) = Lock("mu")
  /\ \A g \in Goroutines : readers[g] > 0 => \E i \in DOMAIN todo[g] : todo[g][i] = RUnlock
  /\ closed \in {"no", "yes", "done"}

Holds(g, m) == IF m = "mu" THEN writer = g \/ readers[g] > 0 ELSE mutex[m] = g

\* A goroutine about to take a lock.
Takes(g, m) ==
  /\ todo[g] # <<>>
  /\ \/ Head(todo[g]) = Lock(m)
     \/ m = "mu" /\ Head(todo[g]) = RLock
     \/ m = "gs" /\ Head(todo[g]).do \in {"group", "unlead"}

\* The lock order that the fields of DB document: writerMu and compactMu
\* before mu, mu before gsync.mu, and writerMu and compactMu never together.
LockOrder ==
  \A g \in Goroutines :
    /\ Takes(g, "writerMu") => \A m \in {"compactMu", "mu", "gs"} : ~Holds(g, m)
    /\ Takes(g, "compactMu") => \A m \in {"writerMu", "mu", "gs"} : ~Holds(g, m)
    /\ Takes(g, "mu") => ~Holds(g, "mu") /\ ~Holds(g, "gs")
    /\ Takes(g, "gs") => ~Holds(g, "gs")

\* When Close has returned, the syncer, the sweeper and any auto-compaction
\* have ended, and no later write starts another one.
QuietAfterClose ==
  closed = "done" => {"sweeper", "syncer"} \subseteq ended /\ todo["auto"] = <<>>

\* The goroutines that g waits for: those that have to release a lock, leave
\* the read lock or end before g can go on, and the leader whose broadcast a
\* committer may be asleep for.
WaitsFor(g) ==
  LET next == Head(todo[g]) IN
  IF todo[g] = <<>> THEN {}
  ELSE CASE next = Lock("mu") ->
              ({writer} \ {NoOne}) \union ({announced} \ {NoOne, g})
                \union (IF announced = g THEN {h \in Goroutines : readers[h] > 0} ELSE {})
         [] next.do = "rlock" -> {writer, announced} \ {NoOne}
         [] next.do = "lock" /\ next.what # "mu" -> {mutex[next.what]} \ {NoOne}
         [] next.do = "group" -> {mutex["gs"], syncing} \ {NoOne}
         [] next.do = "unlead" -> {mutex["gs"]} \ {NoOne}
         [] next.do = "wait" ->
              {next.what} \ (IF todo["auto"] = <<>> THEN ended \union {"auto"} ELSE ended)
         [] OTHER -> {}

\* Never does everyone wait for everyone: whatever the callers call, whichever
\* checks fail and whatever runs in the background, no goroutines wait for
\* each other in a circle, be it through the four locks, a read lock behind a
\* waiting writer, the leader of a group fsync, a done channel or bgWG.
NoDeadlock ==
  LET waits == [g \in Goroutines |-> WaitsFor(g)]
      waiting == {g \in Goroutines : waits[g] # {}}
  IN  \A stuck \in SUBSET waiting \ {{}} : \E g \in stuck : waits[g] \intersect stuck = {}

=============================================================================
