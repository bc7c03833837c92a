---------------------------- MODULE WalletProofs ----------------------------
(***************************************************************************)
(* Proofs of the safety properties of WalletSnapshot for any number of     *)
(* users, assets, tasks, changes of owner and failures.                    *)
(***************************************************************************)
EXTENDS WalletSnapshot, FiniteSetTheorems, TLAPS

\* What a task that is about to run a step carries.
Fit(step, j) ==
    /\ step \in ReadSteps \cup RebuildSteps \cup PurgeSteps \cup {"add", "incr"} => j.user \in User
    /\ step \in {"zrem", "decr"} => j.old \in User
    /\ step \in NotifySteps /\ j.user \in User => j.asset \in ever[j.user]
    /\ j.user \in User => j.rows \subseteq ever[j.user]
    /\ j.left \subseteq j.rows

\* What it carries is moreover current, while nothing disturbs it.
Current(step, j) ==
    /\ step \in NotifySteps => owner[j.asset] = j.user
    /\ step \in RebuildSteps \ {"select"} => j.rows \subseteq Owned(j.user)

Carried == \A t \in Task : Fit(pc[t], job[t]) /\ (pc[t] = "idle" => shown[t] = {})
OwnedEver == \A u \in User : Owned(u) \subseteq ever[u]

\* Of the members of a set only the one that a report is about to remove is not owned.
Tidy ==
    clean =>
        /\ \A s, t \in Open : s = t
        /\ \A t \in Open : Current(pc[t], job[t])
        /\ \A u \in User : \A a \in zset[u] :
              \/ owner[a] = u
              \/ \E t \in Open : pc[t] = "zrem" /\ job[t].old = u /\ job[t].asset = a

WInv == TypeOK /\ OwnedEver /\ Carried /\ NeverForeign /\ Tidy

LEMMA NoJobType == NoJob \in Jobs /\ NoJob.rows = {} /\ NoJob.left = {} /\ NoJob.user = Nobody
  BY WalletAssumption DEF NoJob, Jobs

\* A wallet holds finitely many assets.
LEMMA CountType == ASSUME NEW S \in SUBSET Asset PROVE Cardinality(S) \in Nat
  BY WalletAssumption, FS_Subset, FS_CardinalityType

LEMMA InitWInv == Init => WInv
<1> SUFFICES ASSUME Init PROVE WInv
  OBVIOUS
<1>1. PICK warm \in SUBSET User :
        /\ zset = [u \in User |-> IF u \in warm THEN Owned(u) ELSE {}]
        /\ count = [u \in User |-> IF u \in warm THEN Cardinality(Owned(u)) ELSE 0]
  BY DEF Init
<1>2. \A u \in User : Owned(u) \in SUBSET Asset /\ Cardinality(Owned(u)) \in Int
  BY CountType DEF Owned
<1>3. zset \in [User -> SUBSET Asset] /\ count \in [User -> Int] /\ \A u \in User : zset[u] \subseteq Owned(u)
  BY <1>1, <1>2
<1>4. /\ owner \in [Asset -> User \cup {Nobody}] /\ ever = [u \in User |-> Owned(u)]
      /\ pc = [t \in Task |-> "idle"] /\ job = [t \in Task |-> NoJob] /\ shown = [t \in Task |-> {}]
      /\ moves = 0 /\ faults = 0 /\ clean = TRUE
  BY DEF Init
<1>5. TypeOK
  BY <1>2, <1>3, <1>4, NoJobType, WalletAssumption DEF TypeOK
<1>6. OwnedEver
  BY <1>4 DEF OwnedEver
<1>7. Carried
  BY <1>4, NoJobType, WalletAssumption
     DEF Carried, Fit, ReadSteps, RebuildSteps, PurgeSteps, NotifySteps
<1>8. NeverForeign
  BY <1>3, <1>4 DEF NeverForeign
<1>9. Tidy
  BY <1>3, <1>4 DEF Tidy, Open, Owned, Steps, ReadSteps, RebuildSteps, PurgeSteps, NotifySteps
<1> QED
  BY <1>5, <1>6, <1>7, <1>8, <1>9 DEF WInv

-----------------------------------------------------------------------------
\* A step of an open task, whatever it does to the wallets.
LEMMA TaskStep ==
    ASSUME WInv, NEW t \in Task, pc[t] \in Steps,
           NEW step \in Steps \cup {"done"}, NEW j \in Jobs, Go(t, step, j),
           j.user = job[t].user, Fit(step, j),
           UNCHANGED <<owner, moves, ever>>,
           faults' \in 0..MaxFaults, clean' \in BOOLEAN,
           zset' \in [User -> SUBSET Asset], count' \in [User -> Int],
           \A u \in User : zset'[u] \subseteq ever[u],
           shown' \in [Task -> SUBSET Asset], \A s \in Task \ {t} : shown'[s] = shown[s],
           job[t].user \in User => shown'[t] \subseteq ever[job[t].user],
           clean' => /\ clean
                     /\ step \in Steps => Current(step, j)
                     /\ \A u \in User : \A a \in zset'[u] : owner[a] = u
    PROVE  WInv'
<1> DEFINE k == IF step = "done" THEN [NoJob EXCEPT !.user = j.user] ELSE j
<1>1. pc' = [pc EXCEPT ![t] = step] /\ job' = [job EXCEPT ![t] = k]
  BY DEF Go
<1>2. k \in Jobs /\ k.user = job[t].user /\ (step \in Steps => k = j)
  BY NoJobType DEF Jobs, Steps, ReadSteps, RebuildSteps, PurgeSteps, NotifySteps
<1>3. Fit(step, k)
  BY NoJobType, <1>2 DEF Fit, Jobs, ReadSteps, RebuildSteps, PurgeSteps, NotifySteps
<1> HIDE DEF k
<1>4. TypeOK'
  BY <1>1, <1>2 DEF WInv, TypeOK
<1>5. OwnedEver'
  BY DEF WInv, OwnedEver, Owned
<1>6. Carried'
  <2>1. ASSUME NEW s \in Task PROVE Fit(pc[s], job[s])'
    <3>1. CASE s = t
      <4>1. pc'[s] = step /\ job'[s] = k
        BY <1>1, <3>1 DEF WInv, TypeOK
      <4> QED
        BY <4>1, <1>3 DEF Fit
    <3>2. CASE s # t
      <4>1. pc'[s] = pc[s] /\ job'[s] = job[s] /\ Fit(pc[s], job[s])
        BY <1>1, <3>2 DEF WInv, TypeOK, Carried
      <4> QED
        BY <4>1 DEF Fit
    <3> QED
      BY <3>1, <3>2
  <2>2. \A s \in Task : pc'[s] = "idle" => shown'[s] = {}
    BY <1>1 DEF WInv, Carried, TypeOK, Steps, ReadSteps, RebuildSteps, PurgeSteps, NotifySteps
  <2> QED
    BY <2>1, <2>2 DEF Carried
<1>7. NeverForeign'
  BY <1>1, <1>2 DEF WInv, NeverForeign, TypeOK
<1>8. Tidy'
  <2> SUFFICES ASSUME clean' PROVE Tidy'
    BY DEF Tidy
  <2>1. Open' \subseteq {t}
    BY <1>1 DEF WInv, TypeOK, Tidy, Open
  <2>2. ASSUME NEW s \in Open' PROVE Current(pc[s], job[s])'
    <3>1. s = t /\ pc'[s] = step /\ step \in Steps /\ job'[s] = j
      BY <1>1, <1>2, <2>1 DEF Open, WInv, TypeOK
    <3>2. Current(step, j)
      BY <3>1
    <3> QED
      BY <3>1, <3>2 DEF Current, Owned
  <2>3. \A u \in User : \A a \in zset'[u] : owner'[a] = u
    OBVIOUS
  <2> QED
    BY <2>1, <2>2, <2>3 DEF Tidy
<1> QED
  BY <1>4, <1>5, <1>6, <1>7, <1>8 DEF WInv

\* Where a failing command leads.
LEMMA OnErrorOk ==
    ASSUME WInv, NEW t \in Task, pc[t] \in Steps
    PROVE  OnError(t) \in Steps \cup {"done"} /\ Fit(OnError(t), job[t])
<1> USE DEF ReadSteps, RebuildSteps, PurgeSteps, NotifySteps
<1>0. job[t] \in Jobs /\ Fit(pc[t], job[t])
  BY DEF WInv, TypeOK, Carried
<1>1. CASE pc[t] \in {"zcard", "zrevrange"}
  <2>1. OnError(t) = "page"
    BY <1>1 DEF OnError
  <2> QED
    BY <1>0, <1>1, <2>1 DEF Fit, Steps
<1>2. CASE pc[t] = "purgehash"
  <2>1. OnError(t) = "purgeset"
    BY <1>2 DEF OnError
  <2> QED
    BY <1>0, <1>2, <2>1 DEF Fit, Steps
<1>3. CASE pc[t] \in {"zrem", "decr"} /\ job[t].user # Nobody
  <2>1. OnError(t) = "add"
    BY <1>3 DEF OnError
  <2> QED
    BY <1>0, <1>3, <2>1 DEF Fit, Steps, Jobs
<1>4. CASE /\ pc[t] \notin {"zcard", "zrevrange", "purgehash"}
           /\ ~(pc[t] \in {"zrem", "decr"} /\ job[t].user # Nobody)
  <2>1. OnError(t) = "done"
    BY <1>4 DEF OnError
  <2> QED
    BY <1>0, <2>1 DEF Fit
<1> QED
  BY <1>1, <1>2, <1>3, <1>4

\* While nothing disturbs it, only an open report leaves something that was sold.
LEMMA OwnedButSold ==
    ASSUME WInv, clean, NEW t \in Open
    PROVE  /\ Current(pc[t], job[t])
           /\ \A v \in User : \A a \in zset[v] :
                 owner[a] = v \/ (pc[t] = "zrem" /\ job[t].old = v /\ job[t].asset = a)
  BY DEF WInv, Tidy

\* A command on one wallet that leaves members which were, and when calm are, owned.
LEMMA CommandOk ==
    ASSUME WInv, NEW t \in Task, NEW at \in Steps, NEW u \in User,
           NEW members \in SUBSET ever[u], NEW n \in Int,
           NEW next \in Steps \cup {"done"}, NEW j \in Jobs,
           j.user = job[t].user, Fit(next, j),
           at = "zrem" => u = job[t].old,
           clean => /\ next \in Steps => Current(next, j)
                    /\ \A a \in members : owner[a] = u,
           CommandTo(t, at, u, members, n, next, j)
    PROVE  WInv'
<1> USE DEF CommandTo
<1>1. /\ pc[t] = at /\ t \in Open /\ pc[t] \in Steps /\ job[t] \in Jobs
      /\ UNCHANGED <<owner, moves, ever>> /\ shown' = shown
  BY DEF WInv, TypeOK, Open
<1>2. /\ shown' \in [Task -> SUBSET Asset] /\ \A s \in Task \ {t} : shown'[s] = shown[s]
      /\ job[t].user \in User => shown'[t] \subseteq ever[job[t].user]
  BY <1>1 DEF WInv, TypeOK, NeverForeign
<1>3. CASE zset' = [zset EXCEPT ![u] = members] /\ count' = [count EXCEPT ![u] = n]
  <2>1. /\ zset' \in [User -> SUBSET Asset] /\ count' \in [User -> Int]
        /\ \A v \in User : zset'[v] \subseteq ever[v]
    BY <1>3 DEF WInv, TypeOK, NeverForeign
  <2>2. CASE Go(t, next, j) /\ UNCHANGED <<faults, clean>>
    <3>1. faults' \in 0..MaxFaults /\ clean' \in BOOLEAN
      BY <2>2 DEF WInv, TypeOK
    <3>2. ASSUME clean', NEW v \in User, NEW a \in zset'[v] PROVE owner[a] = v
      <4>1. clean
        BY <2>2, <3>2
      <4> QED
        BY <1>1, <1>3, <3>2, <4>1, OwnedButSold DEF WInv, TypeOK
    <3> QED
      BY <1>1, <1>2, <2>1, <2>2, <3>1, <3>2, TaskStep
  <2>3. CASE Goto(t, OnError(t)) /\ Lose
    <3>1. faults' \in 0..MaxFaults /\ clean' = FALSE
      BY <2>3, WalletAssumption DEF WInv, TypeOK, Lose
    <3>2. Go(t, OnError(t), job[t])
      BY <2>3 DEF Goto
    <3> QED
      BY <1>1, <1>2, <2>1, <3>1, <3>2, OnErrorOk, TaskStep
  <2>4. CASE Goto(t, OnError(t)) /\ Lose /\ UNCHANGED <<zset, count>>
    BY <2>3, <2>4
  <2> QED
    BY <2>2, <2>3, <2>4
<1>4. CASE Goto(t, OnError(t)) /\ Lose /\ UNCHANGED <<zset, count>>
  <2>1. faults' \in 0..MaxFaults /\ clean' = FALSE
    BY <1>4, WalletAssumption DEF WInv, TypeOK, Lose
  <2>2. Go(t, OnError(t), job[t])
    BY <1>4 DEF Goto
  <2>3. /\ zset' \in [User -> SUBSET Asset] /\ count' \in [User -> Int]
        /\ \A v \in User : zset'[v] \subseteq ever[v]
    BY <1>4 DEF WInv, TypeOK, NeverForeign
  <2> QED
    BY <1>1, <1>2, <2>1, <2>2, <2>3, OnErrorOk, TaskStep
<1> QED
  BY <1>3, <1>4

\* The two commands of remove_asset.
LEMMA RemoveAssetOk == ASSUME WInv, NEW t \in Task, RemoveAsset(t) PROVE WInv'
<1> DEFINE u == job[t].old
<1>1. job[t] \in Jobs /\ Fit(pc[t], job[t])
  BY DEF WInv, TypeOK, Carried
<1>2. CASE Command(t, "zrem", u, (zset[u] \ {job[t].asset}), count[u], "decr")
  <2>1. pc[t] = "zrem" /\ t \in Open /\ Fit("zrem", job[t])
    BY <1>2, <1>1 DEF Command, CommandTo, Open, Steps, ReadSteps, RebuildSteps, PurgeSteps, NotifySteps
  <2>2. /\ u \in User /\ (zset[u] \ {job[t].asset}) \subseteq ever[u] /\ count[u] \in Int
        /\ "decr" \in Steps \cup {"done"} /\ Fit("decr", job[t])
    BY <1>1, <2>1 DEF WInv, TypeOK, NeverForeign, Fit, Jobs, Steps, ReadSteps, RebuildSteps, PurgeSteps, NotifySteps
  <2>3. ASSUME clean
        PROVE  /\ "decr" \in Steps => Current("decr", job[t])
               /\ \A a \in (zset[u] \ {job[t].asset}) : owner[a] = u
    <3>1. /\ Current("zrem", job[t])
          /\ \A v \in User : \A a \in zset[v] : owner[a] = v \/ (job[t].old = v /\ job[t].asset = a)
      BY <2>1, <2>3, OwnedButSold
    <3> QED
      BY <1>1, <2>1, <2>2, <3>1 DEF Current, Jobs, Steps, ReadSteps, RebuildSteps, PurgeSteps, NotifySteps
  <2> QED
    BY <1>1, <1>2, <2>1, <2>2, <2>3, CommandOk DEF Command, Open
<1>3. CASE Command(t, "decr", u, zset[u], (count[u] - 1), (IF job[t].user # Nobody THEN "add" ELSE "done"))
  <2>1. pc[t] = "decr" /\ t \in Open /\ Fit("decr", job[t])
    BY <1>3, <1>1 DEF Command, CommandTo, Open, Steps, ReadSteps, RebuildSteps, PurgeSteps, NotifySteps
  <2>2. /\ u \in User /\ zset[u] \subseteq ever[u] /\ (count[u] - 1) \in Int
        /\ (IF job[t].user # Nobody THEN "add" ELSE "done") \in Steps \cup {"done"} /\ Fit((IF job[t].user # Nobody THEN "add" ELSE "done"), job[t])
    BY <1>1, <2>1 DEF WInv, TypeOK, NeverForeign, Fit, Jobs, Steps, ReadSteps, RebuildSteps, PurgeSteps, NotifySteps
  <2>3. ASSUME clean
        PROVE  /\ (IF job[t].user # Nobody THEN "add" ELSE "done") \in Steps => Current((IF job[t].user # Nobody THEN "add" ELSE "done"), job[t])
               /\ \A a \in zset[u] : owner[a] = u
    <3>1. /\ Current("decr", job[t])
          /\ \A v \in User : \A a \in zset[v] : owner[a] = v
      BY <2>1, <2>3, OwnedButSold
    <3> QED
      BY <1>1, <2>1, <2>2, <3>1 DEF Current, Jobs, Steps, ReadSteps, RebuildSteps, PurgeSteps, NotifySteps
  <2> QED
    BY <1>1, <1>3, <2>1, <2>2, <2>3, CommandOk DEF Command, Open
<1> QED
  BY <1>2, <1>3 DEF RemoveAsset

\* The two commands of add_asset.
LEMMA AddAssetOk == ASSUME WInv, NEW t \in Task, AddAsset(t) PROVE WInv'
<1> DEFINE u == job[t].user
<1>1. job[t] \in Jobs /\ Fit(pc[t], job[t])
  BY DEF WInv, TypeOK, Carried
<1>2. CASE Command(t, "add", u, (zset[u] \cup {job[t].asset}), count[u], "incr")
  <2>1. pc[t] = "add" /\ t \in Open /\ Fit("add", job[t])
    BY <1>2, <1>1 DEF Command, CommandTo, Open, Steps, ReadSteps, RebuildSteps, PurgeSteps, NotifySteps
  <2>2. /\ u \in User /\ (zset[u] \cup {job[t].asset}) \subseteq ever[u] /\ count[u] \in Int
        /\ "incr" \in Steps \cup {"done"} /\ Fit("incr", job[t])
    BY <1>1, <2>1 DEF WInv, TypeOK, NeverForeign, Fit, Jobs, Steps, ReadSteps, RebuildSteps, PurgeSteps, NotifySteps
  <2>3. ASSUME clean
        PROVE  /\ "incr" \in Steps => Current("incr", job[t])
               /\ \A a \in (zset[u] \cup {job[t].asset}) : owner[a] = u
    <3>1. /\ Current("add", job[t])
          /\ \A v \in User : \A a \in zset[v] : owner[a] = v
      BY <2>1, <2>3, OwnedButSold
    <3> QED
      BY <1>1, <2>1, <2>2, <3>1 DEF Current, Jobs, Steps, ReadSteps, RebuildSteps, PurgeSteps, NotifySteps
  <2> QED
    BY <1>1, <1>2, <2>1, <2>2, <2>3, CommandOk DEF Command, Open
<1>3. CASE Command(t, "incr", u, zset[u], (count[u] + 1), "done")
  <2>1. pc[t] = "incr" /\ t \in Open /\ Fit("incr", job[t])
    BY <1>3, <1>1 DEF Command, CommandTo, Open, Steps, ReadSteps, RebuildSteps, PurgeSteps, NotifySteps
  <2>2. /\ u \in User /\ zset[u] \subseteq ever[u] /\ (count[u] + 1) \in Int
        /\ "done" \in Steps \cup {"done"} /\ Fit("done", job[t])
    BY <1>1, <2>1 DEF WInv, TypeOK, NeverForeign, Fit, Jobs, Steps, ReadSteps, RebuildSteps, PurgeSteps, NotifySteps
  <2>3. ASSUME clean
        PROVE  /\ "done" \in Steps => Current("done", job[t])
               /\ \A a \in zset[u] : owner[a] = u
    <3>1. /\ Current("incr", job[t])
          /\ \A v \in User : \A a \in zset[v] : owner[a] = v
      BY <2>1, <2>3, OwnedButSold
    <3> QED
      BY <1>1, <2>1, <2>2, <3>1 DEF Current, Jobs, Steps, ReadSteps, RebuildSteps, PurgeSteps, NotifySteps
  <2> QED
    BY <1>1, <1>3, <2>1, <2>2, <2>3, CommandOk DEF Command, Open
<1> QED
  BY <1>2, <1>3 DEF AddAsset

\* The two commands of a purge.
LEMMA PurgeOk == ASSUME WInv, NEW t \in Task, Purge(t) PROVE WInv'
<1> DEFINE u == job[t].user
<1>1. job[t] \in Jobs /\ Fit(pc[t], job[t])
  BY DEF WInv, TypeOK, Carried
<1>2. CASE Command(t, "purgehash", u, zset[u], 0, "purgeset")
  <2>1. pc[t] = "purgehash" /\ t \in Open /\ Fit("purgehash", job[t])
    BY <1>2, <1>1 DEF Command, CommandTo, Open, Steps, ReadSteps, RebuildSteps, PurgeSteps, NotifySteps
  <2>2. /\ u \in User /\ zset[u] \subseteq ever[u] /\ 0 \in Int
        /\ "purgeset" \in Steps \cup {"done"} /\ Fit("purgeset", job[t])
    BY <1>1, <2>1 DEF WInv, TypeOK, NeverForeign, Fit, Jobs, Steps, ReadSteps, RebuildSteps, PurgeSteps, NotifySteps
  <2>3. ASSUME clean
        PROVE  /\ "purgeset" \in Steps => Current("purgeset", job[t])
               /\ \A a \in zset[u] : owner[a] = u
    <3>1. /\ Current("purgehash", job[t])
          /\ \A v \in User : \A a \in zset[v] : owner[a] = v
      BY <2>1, <2>3, OwnedButSold
    <3> QED
      BY <1>1, <2>1, <2>2, <3>1 DEF Current, Jobs, Steps, ReadSteps, RebuildSteps, PurgeSteps, NotifySteps
  <2> QED
    BY <1>1, <1>2, <2>1, <2>2, <2>3, CommandOk DEF Command, Open
<1>3. CASE Command(t, "purgeset", u, {}, count[u], "done")
  <2>1. pc[t] = "purgeset" /\ t \in Open /\ Fit("purgeset", job[t])
    BY <1>3, <1>1 DEF Command, CommandTo, Open, Steps, ReadSteps, RebuildSteps, PurgeSteps, NotifySteps
  <2>2. /\ u \in User /\ {} \subseteq ever[u] /\ count[u] \in Int
        /\ "done" \in Steps \cup {"done"} /\ Fit("done", job[t])
    BY <1>1, <2>1 DEF WInv, TypeOK, NeverForeign, Fit, Jobs, Steps, ReadSteps, RebuildSteps, PurgeSteps, NotifySteps
  <2>3. ASSUME clean
        PROVE  /\ "done" \in Steps => Current("done", job[t])
               /\ \A a \in {} : owner[a] = u
    <3>1. /\ Current("purgeset", job[t])
          /\ \A v \in User : \A a \in zset[v] : owner[a] = v
      BY <2>1, <2>3, OwnedButSold
    <3> QED
      BY <1>1, <2>1, <2>2, <3>1 DEF Current, Jobs, Steps, ReadSteps, RebuildSteps, PurgeSteps, NotifySteps
  <2> QED
    BY <1>1, <1>3, <2>1, <2>2, <2>3, CommandOk DEF Command, Open
<1> QED
  BY <1>2, <1>3 DEF Purge

\* The two DELs of a rebuild.
LEMMA ClearOk == ASSUME WInv, NEW t \in Task, Clear(t) PROVE WInv'
<1> DEFINE u == job[t].user
<1>1. job[t] \in Jobs /\ Fit(pc[t], job[t])
  BY DEF WInv, TypeOK, Carried
<1>2. CASE Command(t, "delset", u, {}, count[u], "delhash")
  <2>1. pc[t] = "delset" /\ t \in Open /\ Fit("delset", job[t])
    BY <1>2, <1>1 DEF Command, CommandTo, Open, Steps, ReadSteps, RebuildSteps, PurgeSteps, NotifySteps
  <2>2. /\ u \in User /\ {} \subseteq ever[u] /\ count[u] \in Int
        /\ "delhash" \in Steps \cup {"done"} /\ Fit("delhash", job[t])
    BY <1>1, <2>1 DEF WInv, TypeOK, NeverForeign, Fit, Jobs, Steps, ReadSteps, RebuildSteps, PurgeSteps, NotifySteps
  <2>3. ASSUME clean
        PROVE  /\ "delhash" \in Steps => Current("delhash", job[t])
               /\ \A a \in {} : owner[a] = u
    <3>1. /\ Current("delset", job[t])
          /\ \A v \in User : \A a \in zset[v] : owner[a] = v
      BY <2>1, <2>3, OwnedButSold
    <3> QED
      BY <1>1, <2>1, <2>2, <3>1 DEF Current, Jobs, Steps, ReadSteps, RebuildSteps, PurgeSteps, NotifySteps
  <2> QED
    BY <1>1, <1>2, <2>1, <2>2, <2>3, CommandOk DEF Command, Open
<1>3. CASE Command(t, "delhash", u, zset[u], 0, (IF job[t].rows = {} THEN "hset" ELSE "zadd"))
  <2>1. pc[t] = "delhash" /\ t \in Open /\ Fit("delhash", job[t])
    BY <1>3, <1>1 DEF Command, CommandTo, Open, Steps, ReadSteps, RebuildSteps, PurgeSteps, NotifySteps
  <2>2. /\ u \in User /\ zset[u] \subseteq ever[u] /\ 0 \in Int
        /\ (IF job[t].rows = {} THEN "hset" ELSE "zadd") \in Steps \cup {"done"} /\ Fit((IF job[t].rows = {} THEN "hset" ELSE "zadd"), job[t])
    BY <1>1, <2>1 DEF WInv, TypeOK, NeverForeign, Fit, Jobs, Steps, ReadSteps, RebuildSteps, PurgeSteps, NotifySteps
  <2>3. ASSUME clean
        PROVE  /\ (IF job[t].rows = {} THEN "hset" ELSE "zadd") \in Steps => Current((IF job[t].rows = {} THEN "hset" ELSE "zadd"), job[t])
               /\ \A a \in zset[u] : owner[a] = u
    <3>1. /\ Current("delhash", job[t])
          /\ \A v \in User : \A a \in zset[v] : owner[a] = v
      BY <2>1, <2>3, OwnedButSold
    <3> QED
      BY <1>1, <2>1, <2>2, <3>1 DEF Current, Jobs, Steps, ReadSteps, RebuildSteps, PurgeSteps, NotifySteps
  <2> QED
    BY <1>1, <1>3, <2>1, <2>2, <2>3, CommandOk DEF Command, Open
<1> QED
  BY <1>2, <1>3 DEF Clear

\* The last command of a rebuild.
LEMMA SetCountOk == ASSUME WInv, NEW t \in Task, SetCount(t) PROVE WInv'
<1> DEFINE u == job[t].user
<1>1. job[t] \in Jobs /\ Fit(pc[t], job[t])
  BY DEF WInv, TypeOK, Carried
<1>2. CASE Command(t, "hset", u, zset[u], Cardinality(job[t].rows), "done")
  <2>1. pc[t] = "hset" /\ t \in Open /\ Fit("hset", job[t])
    BY <1>2, <1>1 DEF Command, CommandTo, Open, Steps, ReadSteps, RebuildSteps, PurgeSteps, NotifySteps
  <2>2. /\ u \in User /\ zset[u] \subseteq ever[u] /\ Cardinality(job[t].rows) \in Int
        /\ "done" \in Steps \cup {"done"} /\ Fit("done", job[t])
    BY <1>1, <2>1, CountType DEF WInv, TypeOK, NeverForeign, Fit, Jobs, Steps, ReadSteps, RebuildSteps, PurgeSteps, NotifySteps
  <2>3. ASSUME clean
        PROVE  /\ "done" \in Steps => Current("done", job[t])
               /\ \A a \in zset[u] : owner[a] = u
    <3>1. /\ Current("hset", job[t])
          /\ \A v \in User : \A a \in zset[v] : owner[a] = v
      BY <2>1, <2>3, OwnedButSold
    <3> QED
      BY <1>1, <2>1, <2>2, <3>1 DEF Current, Jobs, Steps, ReadSteps, RebuildSteps, PurgeSteps, NotifySteps
  <2> QED
    BY <1>1, <1>2, <2>1, <2>2, <2>3, CommandOk DEF Command, Open
<1> QED
  BY <1>2 DEF SetCount

\* One ZADD of a rebuild puts a row of its SELECT into the set.
LEMMA RefillOk == ASSUME WInv, NEW t \in Task, Refill(t) PROVE WInv'
<1> DEFINE u == job[t].user
           next(a) == IF job[t].left = {a} THEN "hset" ELSE "zadd"
           j(a)    == [job[t] EXCEPT !.left = @ \ {a}]
<1>1. PICK a \in job[t].left : CommandTo(t, "zadd", u, zset[u] \cup {a}, count[u], next(a), j(a))
  BY DEF Refill
<1>2. pc[t] = "zadd" /\ t \in Open /\ job[t] \in Jobs /\ Fit("zadd", job[t])
  BY <1>1 DEF CommandTo, WInv, TypeOK, Carried, Open, Steps, RebuildSteps
<1>3. /\ u \in User /\ zset[u] \cup {a} \subseteq ever[u] /\ count[u] \in Int
      /\ next(a) \in {"hset", "zadd"} /\ j(a) \in Jobs
      /\ j(a).user = u /\ j(a).rows = job[t].rows /\ j(a).left \subseteq job[t].left
  BY <1>2 DEF WInv, TypeOK, NeverForeign, Fit, Jobs, RebuildSteps
<1>4. next(a) \in Steps /\ Fit(next(a), j(a))
  BY <1>2, <1>3 DEF Fit, Steps, ReadSteps, RebuildSteps, PurgeSteps, NotifySteps
<1>5. ASSUME clean PROVE Current(next(a), j(a)) /\ \A b \in zset[u] \cup {a} : owner[b] = u
  <2>1. Current("zadd", job[t]) /\ \A v \in User : \A b \in zset[v] : owner[b] = v
    BY <1>2, <1>5, OwnedButSold
  <2>2. job[t].rows \subseteq Owned(u) /\ a \in job[t].rows
    BY <1>2, <2>1 DEF Current, Fit, RebuildSteps
  <2> QED
    BY <1>3, <2>1, <2>2 DEF Current, Owned, NotifySteps
<1> HIDE DEF next, j
<1>6. zset[u] \cup {a} \in SUBSET ever[u] /\ "zadd" \in Steps
  BY <1>3 DEF Steps, RebuildSteps
<1> QED
  BY <1>1, <1>3, <1>4, <1>5, <1>6, CommandOk

\* A step that reads: the wallets stay, the caller may be shown something.
LEMMA ReadOk ==
    ASSUME WInv, NEW t \in Task, pc[t] \in Steps \ {"zrem"},
           NEW step \in Steps \cup {"done"}, NEW j \in Jobs, Go(t, step, j),
           j.user = job[t].user, Fit(step, j),
           UNCHANGED <<tables, moves, ever>>,
           NEW show \in SUBSET Asset, shown' = [shown EXCEPT ![t] = show],
           show \subseteq ever[job[t].user] \/ show = shown[t],
           \/ UNCHANGED <<faults, clean>> /\ (clean /\ step \in Steps => Current(step, j))
           \/ Lose
    PROVE  WInv'
<1>1. /\ zset' = zset /\ count' = count /\ UNCHANGED <<owner, moves, ever>>
      /\ zset' \in [User -> SUBSET Asset] /\ count' \in [User -> Int]
      /\ \A u \in User : zset'[u] \subseteq ever[u]
  BY DEF tables, WInv, TypeOK, NeverForeign
<1>2. faults' \in 0..MaxFaults /\ clean' \in BOOLEAN /\ (clean' => clean)
  <2>1. CASE UNCHANGED <<faults, clean>>
    BY <2>1 DEF WInv, TypeOK
  <2>2. CASE Lose
    <3>1. clean' = FALSE /\ faults < MaxFaults /\ faults' = faults + 1
      BY <2>2 DEF Lose
    <3>2. faults' \in 0..MaxFaults
      BY <3>1, WalletAssumption DEF WInv, TypeOK
    <3> QED
      BY <3>1, <3>2
  <2> QED
    BY <2>1, <2>2
<1>3. /\ shown' \in [Task -> SUBSET Asset] /\ \A s \in Task \ {t} : shown'[s] = shown[s]
      /\ job[t].user \in User => shown'[t] \subseteq ever[job[t].user]
  BY DEF WInv, TypeOK, NeverForeign
<1>4. ASSUME clean'
      PROVE  /\ clean /\ (step \in Steps => Current(step, j))
             /\ \A u \in User : \A a \in zset'[u] : owner[a] = u
  <2>1. clean /\ ~Lose
    BY <1>2, <1>4 DEF Lose
  <2>2. t \in Open
    BY DEF Open
  <2> QED
    BY <1>1, <2>1, <2>2, OwnedButSold
<1>5. pc[t] \in Steps
  OBVIOUS
<1> QED
  BY <1>1, <1>2, <1>3, <1>4, <1>5, TaskStep

\* What a task that reads or rebuilds a wallet knows.
LEMMA ReaderKnows ==
    ASSUME WInv, NEW t \in Task, pc[t] \in ReadSteps \cup {"select"}
    PROVE  /\ pc[t] \in Steps \ {"zrem"} /\ job[t] \in Jobs /\ job[t].user \in User
           /\ shown = [shown EXCEPT ![t] = shown[t]] /\ shown[t] \in SUBSET Asset
           /\ Owned(job[t].user) \subseteq ever[job[t].user]
           /\ Owned(job[t].user) \in SUBSET Asset
           /\ zset[job[t].user] \subseteq ever[job[t].user]
           /\ zset[job[t].user] \in SUBSET Asset
           /\ \A step \in ReadSteps \cup {"select", "done"} : Fit(step, job[t]) /\ Current(step, job[t])
<1>1. pc[t] \in Steps \ {"zrem"} /\ job[t] \in Jobs /\ Fit(pc[t], job[t])
  BY DEF WInv, TypeOK, Carried, Steps, ReadSteps, RebuildSteps
<1>2. job[t].user \in User
  BY <1>1 DEF Fit, RebuildSteps
<1>3. \A step \in ReadSteps \cup {"select", "done"} : Fit(step, job[t]) /\ Current(step, job[t])
  BY <1>1, <1>2 DEF Fit, Current, ReadSteps, RebuildSteps, NotifySteps
<1> QED
  BY <1>1, <1>2, <1>3 DEF WInv, TypeOK, OwnedEver, NeverForeign, Owned

\* The SELECT of a rebuild.
LEMMA SelectOk == ASSUME WInv, NEW t \in Task, Select(t) PROVE WInv'
<1>1. pc[t] = "select" /\ UNCHANGED <<tables, moves, ever>> /\ shown' = shown
  BY DEF Select
<1>2. pc[t] \in ReadSteps \cup {"select"}
  BY <1>1
<1> DEFINE rows == Owned(job[t].user)
           j    == [job[t] EXCEPT !.rows = rows, !.left = rows]
<1>3. CASE Go(t, "delset", j) /\ UNCHANGED <<faults, clean>>
  <2>0. job[t] \in Jobs /\ rows \in SUBSET Asset
    BY <1>2, ReaderKnows
  <2>1. j \in Jobs /\ j.user = job[t].user /\ j.rows = rows /\ j.left = rows
    BY <2>0 DEF Jobs
  <2>2. "delset" \in Steps /\ Fit("delset", j) /\ Current("delset", j)
    BY <1>2, <2>1, ReaderKnows DEF Fit, Current, Steps, ReadSteps, RebuildSteps, PurgeSteps, NotifySteps
  <2> HIDE DEF j
  <2>3. /\ pc[t] \in Steps \ {"zrem"} /\ shown[t] \in SUBSET Asset
        /\ shown' = [shown EXCEPT ![t] = shown[t]]
    BY <1>1, <1>2, ReaderKnows
  <2> QED
    BY <1>1, <1>3, <2>1, <2>2, <2>3, ReadOk
<1>4. CASE Goto(t, "done") /\ Lose
  BY <1>1, <1>2, <1>4, ReaderKnows, ReadOk DEF Goto
<1> QED
  BY <1>3, <1>4 DEF Select

\* The steps of get_assets.
LEMMA ZcardOk == ASSUME WInv, NEW t \in Task, Zcard(t) PROVE WInv'
<1>1. pc[t] = "zcard" /\ UNCHANGED <<tables, moves, ever>> /\ shown' = shown
  BY DEF Zcard
<1>2. pc[t] \in ReadSteps \cup {"select"} /\ {"zrevrange", "page"} \subseteq ReadSteps /\ ReadSteps \subseteq Steps
  BY <1>1 DEF ReadSteps, Steps
<1>3. ASSUME NEW step \in {"zrevrange", "page"}, Goto(t, step), UNCHANGED <<faults, clean>> PROVE WInv'
  BY <1>1, <1>2, <1>3, ReaderKnows, ReadOk, ZenonT(60) DEF Goto
<1>4. CASE Goto(t, OnError(t)) /\ Lose
  <2>1. OnError(t) = "page"
    BY <1>1 DEF OnError
  <2> QED
    BY <1>1, <1>2, <1>4, <2>1, ReaderKnows, ReadOk DEF Goto
<1> QED
  BY <1>3, <1>4 DEF Zcard

LEMMA ZrevrangeOk == ASSUME WInv, NEW t \in Task, Zrevrange(t) PROVE WInv'
<1>1. pc[t] = "zrevrange" /\ UNCHANGED <<tables, moves, ever>>
  BY DEF Zrevrange
<1>2. pc[t] \in ReadSteps \cup {"select"} /\ "page" \in ReadSteps /\ ReadSteps \subseteq Steps
  BY <1>1 DEF ReadSteps, Steps
<1>3. ASSUME Goto(t, "done"), UNCHANGED <<faults, clean>>,
             NEW rows \in PageOf(zset[job[t].user], job[t].page),
             shown' = [shown EXCEPT ![t] = rows]
      PROVE  WInv'
  <2>1. Go(t, "done", job[t]) /\ Fit("done", job[t])
    BY <1>2, <1>3, ReaderKnows DEF Goto
  <2>2. "done" \notin Steps
    BY DEF Steps, ReadSteps, RebuildSteps, PurgeSteps, NotifySteps
  <2>3. /\ pc[t] \in Steps \ {"zrem"} /\ job[t] \in Jobs
        /\ rows \subseteq ever[job[t].user] /\ rows \in SUBSET Asset
    BY <1>2, <1>3, ReaderKnows DEF PageOf
  <2> QED
    BY <1>1, <1>3, <2>1, <2>2, <2>3, ReadOk
<1>4. CASE Goto(t, OnError(t)) /\ Lose /\ UNCHANGED shown
  <2>1. OnError(t) = "page"
    BY <1>1 DEF OnError
  <2> QED
    BY <1>1, <1>2, <1>4, <2>1, ReaderKnows, ReadOk, SMTT(60) DEF Goto
<1> QED
  BY <1>3, <1>4 DEF Zrevrange

LEMMA FetchPageOk == ASSUME WInv, NEW t \in Task, FetchPage(t) PROVE WInv'
<1>1. pc[t] = "page" /\ UNCHANGED <<tables, moves, ever>>
  BY DEF FetchPage
<1>2. pc[t] \in ReadSteps \cup {"select"} /\ "select" \in Steps
  BY <1>1 DEF ReadSteps, RebuildSteps, Steps
<1>3. ASSUME NEW rows \in PageOf(Owned(job[t].user), job[t].page),
             shown' = [shown EXCEPT ![t] = rows],
             NEW step \in {"select", "done"}, Goto(t, step), UNCHANGED <<faults, clean>>
      PROVE  WInv'
  <2>1. rows \in SUBSET Asset /\ rows \subseteq ever[job[t].user]
    BY <1>2, ReaderKnows DEF PageOf
  <2>2. /\ pc[t] \in Steps \ {"zrem"} /\ job[t] \in Jobs /\ Go(t, step, job[t])
        /\ step \in Steps \cup {"done"} /\ Fit(step, job[t]) /\ Current(step, job[t])
    BY <1>2, <1>3, ReaderKnows DEF Goto
  <2> QED
    BY <1>1, <1>3, <2>1, <2>2, ReadOk
<1>4. CASE Goto(t, "done") /\ Lose /\ UNCHANGED shown
  BY <1>1, <1>2, <1>4, ReaderKnows, ReadOk DEF Goto
<1> QED
  BY <1>3, <1>4 DEF FetchPage

\* Any step of a task.
LEMMA RunOk == ASSUME WInv, NEW t \in Task, Run(t) PROVE WInv'
  BY RemoveAssetOk, AddAssetOk, PurgeOk, SelectOk, ClearOk, RefillOk, SetCountOk,
     ZcardOk, ZrevrangeOk, FetchPageOk
     DEF Run

-----------------------------------------------------------------------------
(***************************************************************************)
(* A task starts, with a job for the wallet of a user or of nobody, while  *)
(* the owner of an asset may change.                                       *)
(***************************************************************************)
LEMMA StartStep ==
    ASSUME WInv, NEW t \in Task, pc[t] = "idle",
           NEW step \in Steps, NEW j \in Jobs, j.rows = {}, j.left = {},
           Go(t, step, j), Fit(step, j)',
           UNCHANGED <<zset, count, shown, faults>>,
           TypeOK', OwnedEver', \A u \in User : ever[u] \subseteq ever'[u],
           clean' => clean /\ Open = {},
           clean' => Current(step, j)',
           clean' => \A u \in User : \A a \in zset[u] :
                        owner'[a] = u \/ (step = "zrem" /\ j.old = u /\ j.asset = a)
    PROVE  WInv'
<1>1. step # "done" /\ step # "idle"
  BY DEF Steps, ReadSteps, RebuildSteps, PurgeSteps, NotifySteps
<1>2. pc' = [pc EXCEPT ![t] = step] /\ job' = [job EXCEPT ![t] = j]
  BY <1>1 DEF Go
<1>3. /\ pc'[t] = step /\ job'[t] = j
      /\ \A s \in Task \ {t} : pc'[s] = pc[s] /\ job'[s] = job[s]
  BY <1>2 DEF WInv, TypeOK
<1>4. Carried'
  <2>1. ASSUME NEW s \in Task PROVE Fit(pc[s], job[s])'
    <3>1. CASE s = t
      BY <1>3, <3>1 DEF Fit
    <3>2. CASE s # t
      <4>1. pc'[s] = pc[s] /\ job'[s] = job[s] /\ Fit(pc[s], job[s])
        BY <1>3, <3>2 DEF WInv, Carried
      <4> QED
        BY <4>1 DEF Fit
    <3> QED
      BY <3>1, <3>2
  <2>2. \A s \in Task : pc'[s] = "idle" => shown'[s] = {}
    BY <1>1, <1>3 DEF WInv, Carried
  <2> QED
    BY <2>1, <2>2 DEF Carried
<1>5. NeverForeign'
  <2>1. \A u \in User : zset'[u] \subseteq ever'[u]
    BY DEF WInv, NeverForeign
  <2>2. shown'[t] = {}
    BY DEF WInv, Carried
  <2>3. \A s \in Task : job'[s].user \in User => shown'[s] \subseteq ever'[job'[s].user]
    BY <1>3, <2>2 DEF WInv, NeverForeign
  <2> QED
    BY <2>1, <2>3 DEF NeverForeign
<1>6. Tidy'
  <2> SUFFICES ASSUME clean' PROVE Tidy'
    BY DEF Tidy
  <2>1. Open' = {t}
    BY <1>3 DEF Open
  <2>2. Current(pc[t], job[t])'
    BY <1>3 DEF Current, Owned
  <2>3. \A u \in User : \A a \in zset'[u] :
           owner'[a] = u \/ (pc'[t] = "zrem" /\ job'[t].old = u /\ job'[t].asset = a)
    BY <1>3
  <2> QED
    BY <2>1, <2>2, <2>3 DEF Tidy
<1> QED
  BY <1>4, <1>5, <1>6 DEF WInv

LEMMA StartOk ==
    ASSUME WInv, NEW t \in Task, NEW u \in User,
           NEW step \in {"zcard", "select", "purgehash"}, NEW page \in Pages,
           Start(t, u, step, page)
    PROVE  WInv'
<1> DEFINE j == [NoJob EXCEPT !.user = u, !.page = page]
<1>1. /\ pc[t] = "idle" /\ Go(t, step, j) /\ clean' = (clean /\ Open = {})
      /\ owner' = owner /\ ever' = ever /\ moves' = moves
      /\ UNCHANGED <<zset, count, shown, faults>>
  BY DEF Start, Fresh, tables
<1>2. j \in Jobs /\ j.user = u /\ j.rows = {} /\ j.left = {}
  BY NoJobType DEF Jobs
<1>3. /\ step \in Steps /\ step # "done" /\ step \notin NotifySteps
      /\ step \notin RebuildSteps \ {"select"}
  BY DEF Steps, ReadSteps, RebuildSteps, PurgeSteps, NotifySteps
<1> HIDE DEF j
<1>4. Fit(step, j)' /\ Current(step, j)'
  BY <1>2, <1>3 DEF Fit, Current, NotifySteps
<1>5. TypeOK' /\ OwnedEver'
  <2>1. pc' = [pc EXCEPT ![t] = step] /\ job' = [job EXCEPT ![t] = j]
    BY <1>1, <1>3 DEF Go
  <2>2. clean' \in BOOLEAN
    BY <1>1
  <2> QED
    BY <1>1, <1>2, <1>3, <2>1, <2>2 DEF WInv, TypeOK, OwnedEver, Owned
<1>6. clean' => clean /\ Open = {} /\ \A v \in User : \A a \in zset[v] : owner'[a] = v
  BY <1>1 DEF WInv, Tidy
<1> QED
  BY <1>1, <1>2, <1>3, <1>4, <1>5, <1>6, StartStep

-----------------------------------------------------------------------------
\* What a change of owner keeps.
LEMMA GiveOk ==
    ASSUME WInv, NEW a \in Asset, NEW v \in User \cup {Nobody}, Give(a, v)
    PROVE  /\ owner' \in [Asset -> User \cup {Nobody}] /\ ever' \in [User -> SUBSET Asset]
           /\ moves' \in 0..MaxMoves /\ owner[a] \in User \cup {Nobody} /\ v # owner[a]
           /\ owner'[a] = v /\ \A b \in Asset \ {a} : owner'[b] = owner[b]
           /\ \A u \in User : ever[u] \subseteq ever'[u]
           /\ v \in User => a \in ever'[v]
           /\ OwnedEver'
<1>1. /\ moves' = moves + 1 /\ moves < MaxMoves /\ v # owner[a]
      /\ owner' = [owner EXCEPT ![a] = v]
      /\ ever' = [u \in User |-> IF u = v THEN ever[u] \cup {a} ELSE ever[u]]
  BY DEF Give
<1>2. moves' \in 0..MaxMoves
  BY <1>1, WalletAssumption DEF WInv, TypeOK
<1>3. /\ owner' \in [Asset -> User \cup {Nobody}] /\ ever' \in [User -> SUBSET Asset]
      /\ owner[a] \in User \cup {Nobody}
      /\ owner'[a] = v /\ \A b \in Asset \ {a} : owner'[b] = owner[b]
  BY <1>1 DEF WInv, TypeOK
<1>4. /\ \A u \in User : ever[u] \subseteq ever'[u]
      /\ v \in User => a \in ever'[v]
  BY <1>1 DEF WInv, TypeOK
<1>5. OwnedEver'
  BY <1>3, <1>4 DEF WInv, OwnedEver, Owned
<1> QED
  BY <1>1, <1>2, <1>3, <1>4, <1>5

LEMMA MoveOk ==
    ASSUME WInv, NEW t \in Task, NEW a \in Asset, NEW v \in User \cup {Nobody}, Move(t, a, v)
    PROVE  WInv'
<1>1. /\ pc[t] = "idle" /\ Give(a, v) /\ clean' = (clean /\ Open = {})
      /\ Go(t, IF owner[a] # Nobody THEN "zrem" ELSE "add",
            [NoJob EXCEPT !.user = v, !.old = owner[a], !.asset = a])
      /\ UNCHANGED <<zset, count, shown, faults>>
  BY DEF Move, Fresh
<1>2. /\ v # owner[a] /\ owner[a] \in User \cup {Nobody}
      /\ owner'[a] = v /\ (v \in User => a \in ever'[v])
      /\ \A b \in Asset \ {a} : owner'[b] = owner[b]
  BY <1>1, GiveOk
<1>3. PICK step \in {"zrem", "add"} : step = IF owner[a] # Nobody THEN "zrem" ELSE "add"
  OBVIOUS
<1>4. PICK j \in Jobs : j = [NoJob EXCEPT !.user = v, !.old = owner[a], !.asset = a]
  BY <1>2, NoJobType DEF Jobs
<1>5. /\ step \in Steps /\ step # "done"
      /\ step = "zrem" => owner[a] \in User
      /\ step = "add" => v \in User
      /\ owner[a] \in User => step = "zrem"
      /\ j.user = v /\ j.old = owner[a] /\ j.asset = a /\ j.rows = {} /\ j.left = {}
  BY <1>2, <1>3, <1>4, NoJobType, WalletAssumption DEF Steps, NotifySteps, Jobs
<1>6. Go(t, step, j)
  BY <1>1, <1>3, <1>4
<1>7. Fit(step, j)' /\ Current(step, j)'
  BY <1>2, <1>5 DEF Fit, Current, ReadSteps, RebuildSteps, PurgeSteps, NotifySteps
<1>8. TypeOK'
  <2>1. pc' = [pc EXCEPT ![t] = step] /\ job' = [job EXCEPT ![t] = j]
    BY <1>5, <1>6 DEF Go
  <2>2. clean' \in BOOLEAN
    BY <1>1
  <2> QED
    BY <1>1, <1>5, <2>1, <2>2, GiveOk DEF WInv, TypeOK
<1>9. ASSUME clean'
      PROVE  /\ clean /\ Open = {}
             /\ \A u \in User : \A b \in zset[u] :
                   owner'[b] = u \/ (step = "zrem" /\ j.old = u /\ j.asset = b)
  <2>1. clean /\ Open = {}
    BY <1>1, <1>9
  <2>2. \A u \in User : \A b \in zset[u] : b \in Asset /\ owner[b] = u
    BY <2>1 DEF WInv, TypeOK, Tidy
  <2> QED
    BY <1>2, <1>5, <2>1, <2>2
<1>10. OwnedEver' /\ \A u \in User : ever[u] \subseteq ever'[u]
  BY <1>1, GiveOk
<1> QED
  BY <1>1, <1>5, <1>6, <1>7, <1>8, <1>9, <1>10, StartStep

LEMMA MoveUnreportedOk ==
    ASSUME WInv, NEW a \in Asset, NEW v \in User \cup {Nobody}, MoveUnreported(a, v)
    PROVE  WInv'
<1>1. Give(a, v) /\ clean' = FALSE /\ UNCHANGED <<zset, count, pc, job, shown, faults>>
  BY DEF MoveUnreported
<1>2. TypeOK' /\ OwnedEver'
  BY <1>1, GiveOk DEF WInv, TypeOK
<1>3. \A u \in User : ever[u] \subseteq ever'[u]
  BY <1>1, GiveOk
<1>4. Carried' /\ NeverForeign'
  BY <1>1, <1>3 DEF WInv, Carried, Fit, NeverForeign
<1> QED
  BY <1>1, <1>2, <1>4 DEF WInv, Tidy

-----------------------------------------------------------------------------
LEMMA NextWInv == WInv /\ [Next]_vars => WInv'
<1> SUFFICES ASSUME WInv, [Next]_vars PROVE WInv'
  OBVIOUS
<1>1. CASE Next
  BY <1>1, RunOk, StartOk, MoveOk, MoveUnreportedOk DEF Next
<1>2. CASE UNCHANGED vars
  <2>1. /\ owner' = owner /\ zset' = zset /\ count' = count /\ pc' = pc /\ job' = job
        /\ shown' = shown /\ moves' = moves /\ faults' = faults /\ ever' = ever /\ clean' = clean
    BY <1>2 DEF vars, tables
  <2>2. TypeOK' /\ OwnedEver' /\ Carried' /\ NeverForeign'
    BY <2>1 DEF WInv, TypeOK, OwnedEver, Owned, Carried, Fit, NeverForeign
  <2>3. Tidy'
    BY <2>1 DEF WInv, Tidy, Open, Current, Owned
  <2> QED
    BY <2>2, <2>3 DEF WInv
<1> QED
  BY <1>1, <1>2

(***************************************************************************)
(* The inductive invariant of the wallet snapshot: what each task carries  *)
(* between two commands of wallet_snapshot.rs, for any number of tasks,    *)
(* users, assets, changes of owner and failures.                           *)
(***************************************************************************)
THEOREM WalletInvariance == Spec => []WInv
<1>1. Init => WInv
  BY InitWInv
<1>2. WInv /\ [Next]_vars => WInv'
  BY NextWInv
<1> QED
  BY <1>1, <1>2, PTL DEF Spec

\* Redis, the owner column and the tasks keep their types.
THEOREM WalletTypes == Spec => []TypeOK
<1>1. WInv => TypeOK
  BY DEF WInv
<1> QED
  BY <1>1, WalletInvariance, PTL

(***************************************************************************)
(* No wallet set holds, and no caller of get_assets is given, an asset     *)
(* that its user never owned, however reports, rebuilds and purges mix.    *)
(***************************************************************************)
THEOREM WalletsAreNeverForeign == Spec => []NeverForeign
<1>1. WInv => NeverForeign
  BY DEF WInv
<1> QED
  BY <1>1, WalletInvariance, PTL

(***************************************************************************)
(* While every change of owner is reported by on_asset_state_change, one   *)
(* after the other and without failures, nothing sold stays in a wallet.   *)
(***************************************************************************)
THEOREM SoldIsRemoved == Spec => []NothingSoldStays
<1>1. WInv => NothingSoldStays
  BY DEF WInv, TypeOK, Tidy, NothingSoldStays, Owned
<1> QED
  BY <1>1, WalletInvariance, PTL
=============================================================================
