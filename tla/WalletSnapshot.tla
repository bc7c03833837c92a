--------------------------- MODULE WalletSnapshot ---------------------------
(***************************************************************************)
(* The Redis snapshot of the assets users hold                             *)
(* (rust/rc-api/src/cache/wallet_snapshot.rs) and the tool that rebuilds   *)
(* and purges it (cli/wallet_snapshot_cli.rs).  A task runs one operation, *)
(* command by command; the tasks share Redis and the owner column of       *)
(* PostgreSQL, which the asset handlers change.  No handler calls          *)
(* on_asset_state_change yet: an owner changes with or without it.         *)
(***************************************************************************)
EXTENDS Integers, FiniteSets

CONSTANTS User, Asset, Task,
          Nobody,     \* owner_id IS NULL
          Pages,      \* the pages readers ask for, from 0
          PageSize,   \* how many rows a page has
          MaxMoves,   \* bound on changes of owner
          MaxFaults   \* bound on calls that fail

ASSUME WalletAssumption ==
    /\ Nobody \notin User /\ IsFiniteSet(Asset) /\ Asset # {} /\ Task \subseteq Nat
    /\ Pages \subseteq Nat /\ 0 \in Pages /\ PageSize \in Nat \ {0}
    /\ MaxMoves \in Nat /\ MaxFaults \in Nat

VARIABLES owner,   \* assets.owner_id
          zset,    \* wallet:{user}:assets, the members
          count,   \* asset_count in wallet:{user}; 0 when there is none
          pc,      \* the next command of each task
          job,     \* what the task works on
          shown,   \* the list get_assets returned to the caller of the task
          moves, faults,
          ever,    \* ghost: what each user has ever owned
          clean    \* ghost: one task at a time, every move reported, no faults

tables == <<owner, zset, count>>
vars == <<tables, pc, job, shown, moves, faults, ever, clean>>

ReadSteps    == {"zcard", "zrevrange", "page"}
RebuildSteps == {"select", "delset", "delhash", "zadd", "hset"}
PurgeSteps   == {"purgehash", "purgeset"}
NotifySteps  == {"zrem", "decr", "add", "incr"}
Steps == ReadSteps \cup RebuildSteps \cup PurgeSteps \cup NotifySteps

Jobs == [user : User \cup {Nobody}, old : User \cup {Nobody}, asset : Asset,
         page : Pages, rows : SUBSET Asset, left : SUBSET Asset]

TypeOK ==
    /\ owner \in [Asset -> User \cup {Nobody}]
    /\ zset \in [User -> SUBSET Asset] /\ count \in [User -> Int]
    /\ pc \in [Task -> Steps \cup {"idle", "done"}]
    /\ job \in [Task -> Jobs]
    /\ shown \in [Task -> SUBSET Asset]
    /\ moves \in 0..MaxMoves /\ faults \in 0..MaxFaults
    /\ ever \in [User -> SUBSET Asset] /\ clean \in BOOLEAN

Owned(u) == {a \in Asset : owner[a] = u}
Open == {t \in Task : pc[t] \in Steps}

-----------------------------------------------------------------------------
NoJob == [user |-> Nobody, old |-> Nobody, asset |-> CHOOSE a \in Asset : TRUE,
          page |-> 0, rows |-> {}, left |-> {}]

\* The wallets are cached as they are, or not at all.
Init ==
    /\ owner \in [Asset -> User \cup {Nobody}]
    /\ \E warm \in SUBSET User :
          /\ zset = [u \in User |-> IF u \in warm THEN Owned(u) ELSE {}]
          /\ count = [u \in User |-> IF u \in warm THEN Cardinality(Owned(u)) ELSE 0]
    /\ pc = [t \in Task |-> "idle"] /\ job = [t \in Task |-> NoJob]
    /\ shown = [t \in Task |-> {}]
    /\ moves = 0 /\ faults = 0
    /\ ever = [u \in User |-> Owned(u)] /\ clean = TRUE

\* The locals of a task end with it.
Go(t, step, j) ==
    /\ pc' = [pc EXCEPT ![t] = step]
    /\ job' = [job EXCEPT ![t] = IF step = "done" THEN [NoJob EXCEPT !.user = j.user] ELSE j]
Goto(t, step) == Go(t, step, job[t])

\* Tasks are numbered as they start.
Fresh(t) == pc[t] = "idle" /\ \A s \in Task : s < t => pc[s] # "idle"

Lose == faults < MaxFaults /\ faults' = faults + 1 /\ clean' = FALSE

\* A task starts: a read of a page or a rebuild of a wallet, or its purge.
Start(t, u, step, page) ==
    /\ Fresh(t)
    /\ step # "zcard" => page = 0
    /\ Go(t, step, [NoJob EXCEPT !.user = u, !.page = page])
    /\ clean' = (clean /\ Open = {})
    /\ UNCHANGED <<tables, shown, moves, faults, ever>>

-----------------------------------------------------------------------------
(***************************************************************************)
(* An asset gets another owner, and on_asset_state_change is called with   *)
(* both, or is not.                                                        *)
(***************************************************************************)
Give(a, v) ==
    /\ moves < MaxMoves /\ moves' = moves + 1
    /\ v # owner[a]
    /\ owner' = [owner EXCEPT ![a] = v]
    /\ ever' = [u \in User |-> IF u = v THEN ever[u] \cup {a} ELSE ever[u]]

Move(t, a, v) ==
    /\ Fresh(t) /\ Give(a, v)
    /\ Go(t, IF owner[a] # Nobody THEN "zrem" ELSE "add",
          [NoJob EXCEPT !.user = v, !.old = owner[a], !.asset = a])
    /\ clean' = (clean /\ Open = {})
    /\ UNCHANGED <<zset, count, shown, faults>>

MoveUnreported(a, v) ==
    /\ Give(a, v)
    /\ clean' = FALSE
    /\ UNCHANGED <<zset, count, pc, job, shown, faults>>

-----------------------------------------------------------------------------
\* Mutant of OnError: the task waits for a retry nobody makes.
OnErrorRetry(t) == "retry"

\* Where a task goes on when a command fails: see the early returns.
OnError(t) ==
    CASE pc[t] \in {"zcard", "zrevrange"} -> "page"
      [] pc[t] = "purgehash"              -> "purgeset"
      [] pc[t] \in {"zrem", "decr"} /\ job[t].user # Nobody -> "add"
      [] OTHER                            -> "done"

(***************************************************************************)
(* A command on the wallet of u: the set and the count it leaves.  It may  *)
(* fail, having taken effect or not.                                       *)
(***************************************************************************)
CommandTo(t, at, u, members, n, next, j) ==
    /\ pc[t] = at
    /\ \/ /\ zset' = [zset EXCEPT ![u] = members] /\ count' = [count EXCEPT ![u] = n]
          /\ \/ Go(t, next, j) /\ UNCHANGED <<faults, clean>>
             \/ Goto(t, OnError(t)) /\ Lose
       \/ Goto(t, OnError(t)) /\ Lose /\ UNCHANGED <<zset, count>>
    /\ UNCHANGED <<owner, shown, moves, ever>>

Command(t, at, u, members, n, next) == CommandTo(t, at, u, members, n, next, job[t])

\* Mutant of RemoveAsset: the asset is taken out of the wallet of the new owner.
RemoveAssetOfNew(t) ==
    LET u == IF job[t].user # Nobody THEN job[t].user ELSE job[t].old IN
    \/ Command(t, "zrem", u, zset[u] \ {job[t].asset}, count[u], "decr")
    \/ Command(t, "decr", u, zset[u], count[u] - 1,
               IF job[t].user # Nobody THEN "add" ELSE "done")

\* remove_asset and add_asset; updated_at is left out.
RemoveAsset(t) ==
    LET u == job[t].old IN
    \/ Command(t, "zrem", u, zset[u] \ {job[t].asset}, count[u], "decr")
    \/ Command(t, "decr", u, zset[u], count[u] - 1,
               IF job[t].user # Nobody THEN "add" ELSE "done")

AddAsset(t) ==
    LET u == job[t].user IN
    \/ Command(t, "add", u, zset[u] \cup {job[t].asset}, count[u], "incr")
    \/ Command(t, "incr", u, zset[u], count[u] + 1, "done")

Purge(t) ==
    LET u == job[t].user IN
    \/ Command(t, "purgehash", u, zset[u], 0, "purgeset")
    \/ Command(t, "purgeset", u, {}, count[u], "done")

-----------------------------------------------------------------------------
(***************************************************************************)
(* rebuild_from_pg and rebuild_for_user: the rows of one SELECT, then DEL, *)
(* DEL, a ZADD per row and HSET.                                           *)
(***************************************************************************)

\* Mutant of Select: the rows of every user.
SelectAll(t) ==
    /\ pc[t] = "select"
    /\ LET rows == {a \in Asset : owner[a] # Nobody}
       IN Go(t, "delset", [job[t] EXCEPT !.rows = rows, !.left = rows])
    /\ UNCHANGED <<tables, shown, moves, faults, ever, clean>>

Select(t) ==
    /\ pc[t] = "select"
    /\ \/ /\ LET rows == Owned(job[t].user)
             IN Go(t, "delset", [job[t] EXCEPT !.rows = rows, !.left = rows])
          /\ UNCHANGED <<faults, clean>>
       \/ Goto(t, "done") /\ Lose
    /\ UNCHANGED <<tables, shown, moves, ever>>

Clear(t) ==
    LET u == job[t].user IN
    \/ Command(t, "delset", u, {}, count[u], "delhash")
    \/ Command(t, "delhash", u, zset[u], 0, IF job[t].rows = {} THEN "hset" ELSE "zadd")

\* Mutant of Refill: the loop ends one row early.
RefillShort(t) ==
    LET u == job[t].user IN
    \E a \in job[t].left :
        CommandTo(t, "zadd", u, zset[u] \cup {a}, count[u], "hset",
                  [job[t] EXCEPT !.left = @ \ {a}])

\* One ZADD of the loop; the rows come in no order that matters here.
Refill(t) ==
    LET u == job[t].user IN
    \E a \in job[t].left :
        CommandTo(t, "zadd", u, zset[u] \cup {a}, count[u],
                  IF job[t].left = {a} THEN "hset" ELSE "zadd",
                  [job[t] EXCEPT !.left = @ \ {a}])

SetCount(t) ==
    LET u == job[t].user IN
    Command(t, "hset", u, zset[u], Cardinality(job[t].rows), "done")

-----------------------------------------------------------------------------
(***************************************************************************)
(* get_assets.  A set without members is no set: the page comes from       *)
(* PostgreSQL and a rebuild is spawned behind the answer, unless the page  *)
(* is empty.  A page behind the last asset is empty, in a set too, where   *)
(* it is an answer like any other.                                         *)
(***************************************************************************)

\* LIMIT and OFFSET: how many of n rows are on a page.
OnPage(n, page) ==
    LET rest == n - page * PageSize IN
    CASE rest <= 0                     -> 0
      [] rest > 0 /\ rest < PageSize   -> rest
      [] rest > 0 /\ rest >= PageSize  -> PageSize

\* What a page of the rows S may be.  Which of them it has is decided by created_at,
\* in PostgreSQL finer than in Redis, and is left open.
PageOf(S, page) == {rows \in SUBSET S : Cardinality(rows) = OnPage(Cardinality(S), page)}

Zcard(t) ==
    /\ pc[t] = "zcard"
    /\ \/ Goto(t, IF zset[job[t].user] # {} THEN "zrevrange" ELSE "page") /\ UNCHANGED <<faults, clean>>
       \/ Goto(t, OnError(t)) /\ Lose
    /\ UNCHANGED <<tables, shown, moves, ever>>

Zrevrange(t) ==
    /\ pc[t] = "zrevrange"
    /\ \/ /\ Goto(t, "done") /\ UNCHANGED <<faults, clean>>
          /\ \E rows \in PageOf(zset[job[t].user], job[t].page) :
                shown' = [shown EXCEPT ![t] = rows]
       \/ Goto(t, OnError(t)) /\ Lose /\ UNCHANGED shown
    /\ UNCHANGED <<tables, moves, ever>>

\* fetch_assets_from_pg
FetchPage(t) ==
    /\ pc[t] = "page"
    /\ \/ /\ \E rows \in PageOf(Owned(job[t].user), job[t].page) :
                /\ shown' = [shown EXCEPT ![t] = rows]
                /\ Goto(t, IF rows # {} THEN "select" ELSE "done")
          /\ UNCHANGED <<faults, clean>>
       \/ Goto(t, "done") /\ Lose /\ UNCHANGED shown
    /\ UNCHANGED <<tables, moves, ever>>

-----------------------------------------------------------------------------
Run(t) ==
    \/ RemoveAsset(t) \/ AddAsset(t) \/ Purge(t)
    \/ Select(t) \/ Clear(t) \/ Refill(t) \/ SetCount(t)
    \/ Zcard(t) \/ Zrevrange(t) \/ FetchPage(t)

Next ==
    \/ \E t \in Task :
          \/ \E u \in User, step \in {"zcard", "select", "purgehash"}, page \in Pages :
                Start(t, u, step, page)
          \/ \E a \in Asset, v \in User \cup {Nobody} : Move(t, a, v)
          \/ Run(t)
    \/ \E a \in Asset, v \in User \cup {Nobody} : MoveUnreported(a, v)

(***************************************************************************)
(* Tokio polls every task that can go on, and a command ends, with a reply *)
(* or with an error; nobody has to start a task.                           *)
(***************************************************************************)
Spec == Init /\ [][Next]_vars /\ \A t \in Task : WF_vars(Run(t))

-----------------------------------------------------------------------------
(***************************************************************************)
(* However reports, rebuilds, purges and failures are mixed, a wallet      *)
(* shows nobody an asset that was never his: no set holds, and no caller   *)
(* is given, an asset the user has not owned at some time.                 *)
(***************************************************************************)
NeverForeign ==
    /\ \A u \in User : zset[u] \subseteq ever[u]
    /\ \A t \in Task : job[t].user \in User => shown[t] \subseteq ever[job[t].user]

(***************************************************************************)
(* While every change of owner is reported, one after the other, nothing   *)
(* sold stays in a wallet, purges and rebuilds in between notwithstanding: *)
(* a set holds only what its user owns, though it may lack assets, for a   *)
(* report that comes after a purge starts the set again with one asset.    *)
(***************************************************************************)
NothingSoldStays ==
    clean /\ Open = {} => \A u \in User : zset[u] \subseteq Owned(u)

\* Nothing but t is left to happen to the snapshot.
Last(t) ==
    /\ moves = MaxMoves /\ faults = MaxFaults
    /\ \A s \in Task \ {t} : pc[s] = "done"

(***************************************************************************)
(* The snapshot heals (docs/ops/wallet-snapshot-rebuild.md:134): whatever  *)
(* went wrong before, a last rebuild, or a last read that finds no set but *)
(* an asset on its page, leaves set and count as PostgreSQL has them.  A   *)
(* read of a page without one heals nothing: get_assets spawns no rebuild. *)
(***************************************************************************)
SnapshotHeals ==
    \A t \in Task :
        LET u == job[t].user
            n == Cardinality(Owned(u))
        IN
        (/\ Last(t)
         /\ \/ pc[t] = "select"
            \/ pc[t] = "zcard" /\ zset[u] = {} /\ OnPage(n, job[t].page) > 0)
        ~> (pc[t] = "done" /\ u \in User /\ zset[u] = Owned(u) /\ count[u] = n)
=============================================================================
