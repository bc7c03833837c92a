------------------------------ MODULE CtrCache ------------------------------
(***************************************************************************)
(* Dynamic verification of one tag: the three-level buffer of its NFC      *)
(* counter (rust/rc-api/src/cache/ctr_cache.rs: in-process map, Redis,     *)
(* PostgreSQL) and the part of handle_full_verify that reads and advances  *)
(* it (rust/rc-api/src/routes/verify.rs), with several verifications in    *)
(* flight on several instances of rc-api.  The buffer is keyed by uid and  *)
(* tags do not interact.                                                   *)
(***************************************************************************)
EXTENDS Integers

CONSTANTS Instance,    \* processes of rc-api, each with an L1 map
          Request,     \* verifications whose CMAC is valid
          MaxCtr,      \* bound on the counter, 2^24 - 1 in the code
          Redis,       \* redis_available()
          RedisFails,  \* whether a call to Redis may fail
          Serial       \* TRUE: never two verifications of the tag at once

ASSUME CtrAssumption ==
    /\ MaxCtr \in Nat
    /\ Redis \in BOOLEAN /\ RedisFails \in BOOLEAN /\ Serial \in BOOLEAN

VARIABLES pg,         \* assets.last_verified_ctr, NULL being 0
          l1,         \* the DashMap entry of each instance
          l2,         \* the Redis entry
          stage,      \* where each verification stands
          host,       \* the instance that serves it
          ctr,        \* the counter it presents
          seen,       \* the value its cache lookup has brought up
          answer,     \* tag_authentication of the response
          acked,      \* ghost: the largest counter a client was told is verified
          floor,      \* ghost: acked when the verification came in
          committed   \* ghost: every value pg has had

buffer == <<pg, l1, l2>>
vars == <<buffer, stage, host, ctr, seen, answer, acked, floor, committed>>

Ctr == 0..MaxCtr
Absent == -1
Entry == Ctr \cup {Absent}
Stage == {"idle", "l1", "l2", "l2fill", "l3", "l3fill", "backfill",
          "update", "l1put", "l2put", "reply", "done"}

TypeOK ==
    /\ pg \in Ctr /\ l1 \in [Instance -> Entry] /\ l2 \in Entry
    /\ stage \in [Request -> Stage] /\ host \in [Request -> Instance]
    /\ ctr \in [Request -> Ctr] /\ seen \in [Request -> Ctr]
    /\ answer \in [Request -> {"none", "verified", "replay_suspected", "error"}]
    /\ acked \in Ctr /\ floor \in [Request -> Ctr] /\ committed \subseteq Ctr

InFlight == {r \in Request : stage[r] \notin {"idle", "done"}}

-----------------------------------------------------------------------------
\* The buffer is warm or cold, and nothing runs.
Init ==
    /\ pg \in Ctr
    /\ l1 \in [Instance -> {Absent, pg}]
    /\ l2 \in {Absent, pg}
    /\ stage = [r \in Request |-> "idle"]
    /\ host \in [Request -> Instance]
    /\ ctr = [r \in Request |-> 0]
    /\ seen = [r \in Request |-> 0]
    /\ answer = [r \in Request |-> "none"]
    /\ acked = pg
    /\ floor = [r \in Request |-> 0]
    /\ committed = {pg}

Goto(r, s) == stage' = [stage EXCEPT ![r] = s]

Answer(r, a) == Goto(r, "done") /\ answer' = [answer EXCEPT ![r] = a]

\* Mutants of Decide: the same counter passes; a tag never verified is flagged.
DecideStrict(r, cached) ==
    IF ctr[r] < cached /\ cached > 0
    THEN Answer(r, "replay_suspected")
    ELSE Goto(r, "update") /\ UNCHANGED answer
DecideZero(r, cached) ==
    IF ctr[r] <= cached
    THEN Answer(r, "replay_suspected")
    ELSE Goto(r, "update") /\ UNCHANGED answer

\* The replay check of handle_full_verify on what get_ctr returned.
Decide(r, cached) ==
    IF ctr[r] <= cached /\ cached > 0
    THEN Answer(r, "replay_suspected")
    ELSE Goto(r, "update") /\ UNCHANGED answer

Receive(r, c) ==
    /\ stage[r] = "idle"
    /\ Serial => InFlight = {}
    /\ ctr' = [ctr EXCEPT ![r] = c]
    /\ floor' = [floor EXCEPT ![r] = acked]
    /\ Goto(r, "l1")
    /\ UNCHANGED <<buffer, host, seen, answer, acked, committed>>

-----------------------------------------------------------------------------
(***************************************************************************)
(* get_ctr.  A reply of Redis or of PostgreSQL carries the value of the    *)
(* moment it was read; the map is filled when the reply is handled.        *)
(***************************************************************************)
L1Lookup(r) ==
    /\ stage[r] = "l1"
    /\ IF l1[host[r]] # Absent
       THEN Decide(r, l1[host[r]])
       ELSE Goto(r, IF Redis THEN "l2" ELSE "l3") /\ UNCHANGED answer
    /\ UNCHANGED <<buffer, host, ctr, seen, acked, floor, committed>>

L2Hit(r) ==
    /\ stage[r] = "l2"
    /\ l2 # Absent
    /\ seen' = [seen EXCEPT ![r] = l2]
    /\ Goto(r, "l2fill")
    /\ UNCHANGED <<buffer, host, ctr, answer, acked, floor, committed>>

L2Miss(r) ==
    /\ stage[r] = "l2"
    /\ l2 = Absent \/ RedisFails
    /\ Goto(r, "l3")
    /\ UNCHANGED <<buffer, host, ctr, seen, answer, acked, floor, committed>>

L2Fill(r) ==
    /\ stage[r] = "l2fill"
    /\ l1' = [l1 EXCEPT ![host[r]] = seen[r]]
    /\ Decide(r, seen[r])
    /\ UNCHANGED <<pg, l2, host, ctr, seen, acked, floor, committed>>

L3Select(r) ==
    /\ stage[r] = "l3"
    /\ seen' = [seen EXCEPT ![r] = pg]
    /\ Goto(r, "l3fill")
    /\ UNCHANGED <<buffer, host, ctr, answer, acked, floor, committed>>

L3Fill(r) ==
    /\ stage[r] = "l3fill"
    /\ l1' = [l1 EXCEPT ![host[r]] = seen[r]]
    /\ IF Redis THEN Goto(r, "backfill") /\ UNCHANGED answer ELSE Decide(r, seen[r])
    /\ UNCHANGED <<pg, l2, host, ctr, seen, acked, floor, committed>>

\* Mutants of SetL2: the next counter to expect is stored; an entry stays as it is.
SetL2Next(c) == l2' = c + 1 \/ (RedisFails /\ UNCHANGED l2)
SetL2IfAbsent(c) == l2' = (IF l2 = Absent THEN c ELSE l2)

\* SET ctr:{uid} of a value: lost when Redis fails, which nobody hears of.
SetL2(c) == l2' = c \/ (RedisFails /\ UNCHANGED l2)

\* Mutant of Backfill: the counter presented is stored, verified or not.
BackfillPresented(r) ==
    /\ stage[r] = "backfill"
    /\ SetL2(ctr[r])
    /\ Decide(r, seen[r])
    /\ UNCHANGED <<pg, l1, host, ctr, seen, acked, floor, committed>>

Backfill(r) ==
    /\ stage[r] = "backfill"
    /\ SetL2(seen[r])
    /\ Decide(r, seen[r])
    /\ UNCHANGED <<pg, l1, host, ctr, seen, acked, floor, committed>>

-----------------------------------------------------------------------------
(***************************************************************************)
(* update_asset_ctr, then update_ctr: the row first, unconditionally, then *)
(* the map, then Redis.  An UPDATE whose acknowledgement is lost is        *)
(* answered with an error and leaves the caches alone.                     *)
(***************************************************************************)
Update(r) ==
    /\ stage[r] = "update"
    /\ pg' = ctr[r]
    /\ committed' = committed \cup {ctr[r]}
    /\ \/ Goto(r, "l1put") /\ UNCHANGED answer
       \/ Answer(r, "error")
    /\ UNCHANGED <<l1, l2, host, ctr, seen, acked, floor>>

L1Put(r) ==
    /\ stage[r] = "l1put"
    /\ l1' = [l1 EXCEPT ![host[r]] = ctr[r]]
    /\ Goto(r, IF Redis THEN "l2put" ELSE "reply")
    /\ UNCHANGED <<pg, l2, host, ctr, seen, answer, acked, floor, committed>>

L2Put(r) ==
    /\ stage[r] = "l2put"
    /\ SetL2(ctr[r])
    /\ Goto(r, "reply")
    /\ UNCHANGED <<pg, l1, host, ctr, seen, answer, acked, floor, committed>>

\* The summary of the response may still fail, after the counter has moved.
Reply(r) ==
    /\ stage[r] = "reply"
    /\ \/ /\ Answer(r, "verified")
          /\ acked' = IF ctr[r] > acked THEN ctr[r] ELSE acked
       \/ Answer(r, "error") /\ UNCHANGED acked
    /\ UNCHANGED <<buffer, host, ctr, seen, floor, committed>>

-----------------------------------------------------------------------------
\* A database error before anything was written.
Fail(r) ==
    /\ stage[r] \in {"l3", "update"}
    /\ Answer(r, "error")
    /\ UNCHANGED <<buffer, host, ctr, seen, acked, floor, committed>>

\* The entry of the map outlives L1_TTL.
ExpireL1(i) ==
    /\ l1[i] # Absent
    /\ l1' = [l1 EXCEPT ![i] = Absent]
    /\ UNCHANGED <<pg, l2, stage, host, ctr, seen, answer, acked, floor, committed>>

\* The key outlives L2_TTL_SECS, is evicted, or Redis restarts empty.
ExpireL2 ==
    /\ l2 # Absent
    /\ l2' = Absent
    /\ UNCHANGED <<pg, l1, stage, host, ctr, seen, answer, acked, floor, committed>>

\* An instance dies with its map and the verifications it serves.
Crash(i) ==
    LET lost == {r \in InFlight : host[r] = i} IN
    /\ lost # {}
    /\ l1' = [l1 EXCEPT ![i] = Absent]
    /\ stage' = [r \in Request |-> IF r \in lost THEN "done" ELSE stage[r]]
    /\ answer' = [r \in Request |-> IF r \in lost THEN "error" ELSE answer[r]]
    /\ UNCHANGED <<pg, l2, host, ctr, seen, acked, floor, committed>>

Next ==
    \/ \E r \in Request :
          \/ \E c \in Ctr : Receive(r, c)
          \/ L1Lookup(r) \/ L2Hit(r) \/ L2Miss(r) \/ L2Fill(r)
          \/ L3Select(r) \/ L3Fill(r) \/ Backfill(r)
          \/ Update(r) \/ L1Put(r) \/ L2Put(r) \/ Reply(r) \/ Fail(r)
    \/ \E i \in Instance : ExpireL1(i) \/ Crash(i)
    \/ ExpireL2

Spec == Init /\ [][Next]_vars

-----------------------------------------------------------------------------
(***************************************************************************)
(* Whatever is lost, late or out of order, the caches hold only counters   *)
(* the row really had: a cached value is never ahead of every verification *)
(* that reached PostgreSQL.                                                *)
(***************************************************************************)
CachesHoldCommitted ==
    /\ l2 \in committed \cup {Absent}
    /\ \A i \in Instance : l1[i] \in committed \cup {Absent}

(***************************************************************************)
(* No false alarm: a tap is reported replay_suspected only when a counter  *)
(* at least as large had been recorded in PostgreSQL before, so a tag      *)
(* whose counter moves on is never flagged for what a cache holds.         *)
(***************************************************************************)
FlagIsJustified ==
    \A r \in Request : answer[r] = "replay_suspected" =>
        \E c \in committed : c > 0 /\ ctr[r] <= c

(***************************************************************************)
(* Verifying the same or a smaller counter again is flagged                *)
(* (docs/ops/stage-5-error-matrix.md:26): a verification that came in      *)
(* after a counter was answered verified succeeds only with a larger one.  *)
(* Counter 0 is not told apart from a tag never verified.                  *)
(***************************************************************************)
RepeatIsFlagged ==
    \A r \in Request : answer[r] = "verified" /\ floor[r] > 0 => ctr[r] > floor[r]

(***************************************************************************)
(* No level of the buffer that can be read falls behind a counter a client *)
(* was told is verified, through expiries, crashes and lost commits        *)
(* (ctr_cache.rs, "CTR" Property 2).                                       *)
(***************************************************************************)
BufferKeepsUp ==
    /\ pg >= acked
    /\ Redis /\ l2 # Absent => l2 >= acked
    /\ \A i \in Instance : l1[i] # Absent => l1[i] >= acked
=============================================================================
