--------------------------- MODULE CtrCacheProofs ---------------------------
(***************************************************************************)
(* Proofs about CtrCache and CtrCalibrate for any number of instances,     *)
(* verifications and counters.  Part 1 holds under every interleaving and  *)
(* failure; part 2 needs one instance, a Redis whose calls succeed, and    *)
(* verifications that do not overlap, and the run CtrRepeat shows that the *)
(* last of these cannot be dropped.  Part 3 adds the calibration tool to   *)
(* part 1.                                                                 *)
(***************************************************************************)
EXTENDS CtrCalibrate, TLAPS

-----------------------------------------------------------------------------
(***************************************************************************)
(* Part 1.  Every value on its way into a cache has been in the row.       *)
(***************************************************************************)

\* What a verification carries to a cache was committed.
CarriedCommitted ==
    \A r \in Request :
        /\ stage[r] \in {"l2fill", "l3fill", "backfill"} => seen[r] \in committed
        /\ stage[r] \in {"l1put", "l2put", "reply"} => ctr[r] \in committed

\* Only a finished verification is flagged.
FlaggedIsDone == \A r \in Request : answer[r] = "replay_suspected" => stage[r] = "done"

IInv ==
    /\ TypeOK
    /\ pg \in committed
    /\ CachesHoldCommitted
    /\ CarriedCommitted
    /\ FlaggedIsDone
    /\ FlagIsJustified

\* The replay check finishes the verification with a justified flag, or lets it
\* on to the update.
LEMMA DecideOk ==
    ASSUME TypeOK, FlaggedIsDone, FlagIsJustified, NEW r \in Request, NEW c \in Ctr,
           c \in committed, stage[r] # "done", Decide(r, c), committed' = committed, ctr' = ctr
    PROVE  /\ stage' \in [Request -> Stage]
           /\ answer' \in [Request -> {"none", "verified", "replay_suspected", "error"}]
           /\ stage'[r] \in {"update", "done"}
           /\ \A q \in Request \ {r} : stage'[q] = stage[q] /\ answer'[q] = answer[q]
           /\ FlaggedIsDone' /\ FlagIsJustified'
<1>1. CASE ctr[r] <= c /\ c > 0
  BY <1>1 DEF TypeOK, FlaggedIsDone, FlagIsJustified, Decide, Answer, Goto, Stage
<1>2. CASE ~(ctr[r] <= c /\ c > 0)
  BY <1>2 DEF TypeOK, FlaggedIsDone, FlagIsJustified, Decide, Goto, Stage
<1> QED
  BY <1>1, <1>2

LEMMA InitIInv == Init => IInv
  BY CtrAssumption DEF Init, IInv, TypeOK, CachesHoldCommitted, CarriedCommitted,
     FlaggedIsDone, FlagIsJustified, Ctr, Entry, Stage, Absent

LEMMA NextIInv == IInv /\ [Next]_vars => IInv'
<1> SUFFICES ASSUME IInv, [Next]_vars PROVE IInv'
  OBVIOUS
<1> USE DEF IInv
<1> Absent \notin Ctr
  BY DEF Absent, Ctr
<1>1. ASSUME NEW r \in Request, NEW c \in Ctr, Receive(r, c) PROVE IInv'
  BY <1>1 DEF Receive, Goto, buffer, TypeOK, CachesHoldCommitted, CarriedCommitted,
              FlaggedIsDone, FlagIsJustified, Stage
<1>2. ASSUME NEW r \in Request, L1Lookup(r) PROVE IInv'
  <2>1. CASE l1[host[r]] # Absent
    <3>1. l1[host[r]] \in Ctr /\ l1[host[r]] \in committed
      BY <2>1 DEF TypeOK, Entry, CachesHoldCommitted
    <3>2. Decide(r, l1[host[r]]) /\ stage[r] # "done"
          /\ UNCHANGED <<buffer, host, ctr, seen, acked, floor, committed>>
      BY <1>2, <2>1 DEF L1Lookup
    <3>3. /\ stage' \in [Request -> Stage]
          /\ answer' \in [Request -> {"none", "verified", "replay_suspected", "error"}]
          /\ stage'[r] \in {"update", "done"}
          /\ \A q \in Request \ {r} : stage'[q] = stage[q]
          /\ FlaggedIsDone' /\ FlagIsJustified'
      BY <3>1, <3>2, DecideOk
    <3> QED
      BY <3>2, <3>3 DEF buffer, TypeOK, CachesHoldCommitted, CarriedCommitted
  <2>2. CASE l1[host[r]] = Absent
    BY <1>2, <2>2 DEF L1Lookup, Goto, buffer, TypeOK, CachesHoldCommitted, CarriedCommitted,
                      FlaggedIsDone, FlagIsJustified, Stage
  <2> QED
    BY <2>1, <2>2
<1>3. ASSUME NEW r \in Request, L2Hit(r) PROVE IInv'
  BY <1>3 DEF L2Hit, Goto, buffer, TypeOK, CachesHoldCommitted, CarriedCommitted, Entry,
              FlaggedIsDone, FlagIsJustified, Stage
<1>4. ASSUME NEW r \in Request, L2Miss(r) PROVE IInv'
  BY <1>4 DEF L2Miss, Goto, buffer, TypeOK, CachesHoldCommitted, CarriedCommitted,
              FlaggedIsDone, FlagIsJustified, Stage
<1>5. ASSUME NEW r \in Request, L2Fill(r) \/ L3Fill(r) \/ Backfill(r) PROVE IInv'
  <2>1. /\ UNCHANGED <<pg, host, ctr, seen, acked, floor, committed>>
        /\ seen[r] \in committed /\ seen[r] \in Ctr /\ stage[r] # "done"
        /\ l1' \in [Instance -> Entry] /\ l2' \in Entry /\ CachesHoldCommitted'
    BY <1>5 DEF L2Fill, L3Fill, Backfill, SetL2, TypeOK, CarriedCommitted,
                CachesHoldCommitted, Entry
  <2>2. CASE Decide(r, seen[r])
    <3>1. /\ stage' \in [Request -> Stage]
          /\ answer' \in [Request -> {"none", "verified", "replay_suspected", "error"}]
          /\ stage'[r] \in {"update", "done"}
          /\ \A q \in Request \ {r} : stage'[q] = stage[q]
          /\ FlaggedIsDone' /\ FlagIsJustified'
      BY <2>1, <2>2, DecideOk
    <3> QED
      BY <2>1, <3>1 DEF TypeOK, CarriedCommitted
  <2>3. CASE stage' = [stage EXCEPT ![r] = "backfill"] /\ UNCHANGED answer
    BY <2>1, <2>3 DEF TypeOK, CarriedCommitted, FlaggedIsDone, FlagIsJustified, Stage
  <2> QED
    BY <1>5, <2>2, <2>3 DEF L2Fill, L3Fill, Backfill, Goto
<1>6. ASSUME NEW r \in Request, L3Select(r) PROVE IInv'
  BY <1>6 DEF L3Select, Goto, buffer, TypeOK, CachesHoldCommitted, CarriedCommitted,
              FlaggedIsDone, FlagIsJustified, Stage
<1>7. ASSUME NEW r \in Request, Update(r) PROVE IInv'
  BY <1>7 DEF Update, Goto, Answer, TypeOK, CachesHoldCommitted, CarriedCommitted,
              FlaggedIsDone, FlagIsJustified, Stage
<1>8. ASSUME NEW r \in Request, L1Put(r) PROVE IInv'
  BY <1>8 DEF L1Put, Goto, TypeOK, CachesHoldCommitted, CarriedCommitted, Entry,
              FlaggedIsDone, FlagIsJustified, Stage
<1>9. ASSUME NEW r \in Request, L2Put(r) PROVE IInv'
  BY <1>9 DEF L2Put, SetL2, Goto, TypeOK, CachesHoldCommitted, CarriedCommitted, Entry,
              FlaggedIsDone, FlagIsJustified, Stage
<1>10. ASSUME NEW r \in Request, Reply(r) \/ Fail(r) PROVE IInv'
  <2>1. UNCHANGED <<buffer, host, ctr, seen, floor, committed>> /\ acked' \in Ctr
    BY <1>10 DEF Reply, Fail, TypeOK
  <2>2. PICK a \in {"verified", "error"} : Answer(r, a)
    BY <1>10 DEF Reply, Fail
  <2>3. /\ stage' = [stage EXCEPT ![r] = "done"] /\ answer' = [answer EXCEPT ![r] = a]
    BY <2>2 DEF Answer, Goto
  <2> QED
    BY <2>1, <2>3 DEF buffer, TypeOK, CachesHoldCommitted, CarriedCommitted,
                      FlaggedIsDone, FlagIsJustified, Stage
<1>11. ASSUME NEW i \in Instance, ExpireL1(i) PROVE IInv'
  BY <1>11 DEF ExpireL1, TypeOK, CachesHoldCommitted, CarriedCommitted, Entry,
               FlaggedIsDone, FlagIsJustified
<1>12. ASSUME NEW i \in Instance, Crash(i) PROVE IInv'
  BY <1>12 DEF Crash, InFlight, TypeOK, CachesHoldCommitted, CarriedCommitted, Entry, Stage,
               FlaggedIsDone, FlagIsJustified
<1>13. CASE ExpireL2
  BY <1>13 DEF ExpireL2, TypeOK, CachesHoldCommitted, CarriedCommitted, Entry,
               FlaggedIsDone, FlagIsJustified
<1>14. CASE UNCHANGED vars
  BY <1>14 DEF vars, buffer, TypeOK, CachesHoldCommitted, CarriedCommitted,
               FlaggedIsDone, FlagIsJustified
<1> QED
  BY <1>1, <1>2, <1>3, <1>4, <1>5, <1>6, <1>7, <1>8, <1>9, <1>10, <1>11, <1>12, <1>13,
     <1>14 DEF Next

THEOREM Invariance == Spec => []IInv
  BY InitIInv, NextIInv, PTL DEF Spec

(***************************************************************************)
(* Every variable keeps its type.                                          *)
(***************************************************************************)
THEOREM TypeCorrect == Spec => []TypeOK
<1>1. IInv => TypeOK
  BY DEF IInv
<1> QED
  BY <1>1, Invariance, PTL

(***************************************************************************)
(* The caches hold only counters the row had.                              *)
(***************************************************************************)
THEOREM CachesCorrect == Spec => []CachesHoldCommitted
<1>1. IInv => CachesHoldCommitted
  BY DEF IInv
<1> QED
  BY <1>1, Invariance, PTL

(***************************************************************************)
(* A flagged tap is not a new one.                                         *)
(***************************************************************************)
THEOREM NoFalseAlarm == Spec => []FlagIsJustified
<1>1. IInv => FlagIsJustified
  BY DEF IInv
<1> QED
  BY <1>1, Invariance, PTL

-----------------------------------------------------------------------------
(***************************************************************************)
(* Part 2.  One instance, a Redis whose calls succeed, one verification at *)
(* a time.                                                                 *)
(***************************************************************************)
Calm == /\ Serial /\ ~RedisFails
        /\ \A i, j \in Instance : i = j

\* At most one verification is open.
OneOpen == \A q, r \in InFlight : q = r

\* What an open verification has established on its way.
Progress ==
    \A r \in InFlight :
        /\ floor[r] = acked
        /\ stage[r] \in {"l2fill", "l3fill", "backfill"} => seen[r] >= acked
        /\ stage[r] \in {"update", "l1put", "l2put", "reply"} => acked = 0 \/ ctr[r] > acked
        /\ stage[r] \in {"l1put", "l2put", "reply"} => pg = ctr[r]
        /\ stage[r] \in {"l2put", "reply"} => l1[host[r]] \in {Absent, ctr[r]}
        /\ stage[r] = "reply" /\ Redis => l2 \in {Absent, ctr[r]}
        /\ stage[r] \in {"l2", "l2fill", "backfill", "l2put"} => Redis

\* Only an answered verification has an answer.
VerifiedIsDone == \A r \in Request : answer[r] = "verified" => stage[r] = "done"

SInv == OneOpen /\ Progress /\ VerifiedIsDone /\ BufferKeepsUp /\ RepeatIsFlagged

LEMMA InitSInv == Init => SInv
  BY CtrAssumption DEF Init, SInv, OneOpen, Progress, VerifiedIsDone, BufferKeepsUp,
     RepeatIsFlagged, InFlight, Ctr, Absent

\* The replay check on a cached value that keeps up.
LEMMA DecideKeepsUp ==
    ASSUME IInv, SInv, NEW r \in InFlight, NEW c \in Ctr, c >= acked, Decide(r, c),
           UNCHANGED <<pg, host, ctr, acked, floor>>
    PROVE  OneOpen' /\ Progress' /\ VerifiedIsDone' /\ RepeatIsFlagged'
<1> USE DEF IInv, SInv
<1>1. r \in Request /\ ctr[r] \in Ctr /\ acked \in Ctr /\ c \in Int /\ ctr[r] \in Int /\ acked \in Int
  BY DEF InFlight, TypeOK, Ctr
<1>2. CASE ctr[r] <= c /\ c > 0
  <2>1. stage' = [stage EXCEPT ![r] = "done"]
        /\ answer' = [answer EXCEPT ![r] = "replay_suspected"]
    BY <1>2 DEF Decide, Answer, Goto
  <2> QED
    BY <1>1, <2>1 DEF OneOpen, Progress, VerifiedIsDone, RepeatIsFlagged, InFlight, TypeOK
<1>3. CASE ~(ctr[r] <= c /\ c > 0)
  <2>1. stage' = [stage EXCEPT ![r] = "update"] /\ answer' = answer
    BY <1>3 DEF Decide, Goto
  <2>2. acked = 0 \/ ctr[r] > acked
    BY <1>1, <1>3 DEF Ctr
  <2>3. floor[r] = acked
    BY DEF Progress
  <2>4. InFlight' = InFlight /\ \A q \in InFlight : q = r
    BY <1>1, <2>1 DEF InFlight, TypeOK, OneOpen
  <2>5. Progress'
    BY <1>1, <2>1, <2>2, <2>3, <2>4 DEF Progress, TypeOK
  <2> QED
    BY <1>1, <2>1, <2>4, <2>5 DEF OneOpen, VerifiedIsDone, RepeatIsFlagged, InFlight, TypeOK
<1> QED
  BY <1>2, <1>3

LEMMA NextSInv == ASSUME Calm PROVE IInv /\ SInv /\ [Next]_vars => SInv'
<1> SUFFICES ASSUME IInv, SInv, [Next]_vars PROVE SInv'
  OBVIOUS
<1> USE DEF IInv, SInv
<1>a. Absent \notin Ctr /\ Absent \in Int /\ Ctr \subseteq Nat /\ acked \in Nat
  BY CtrAssumption DEF Absent, Ctr, TypeOK
<1>b. \A r \in InFlight : \A q \in Request : q \in InFlight => q = r
  BY DEF OneOpen
<1>1. ASSUME NEW r \in Request, NEW c \in Ctr, Receive(r, c) PROVE SInv'
  <2>1. InFlight = {} /\ stage' = [stage EXCEPT ![r] = "l1"]
        /\ floor' = [floor EXCEPT ![r] = acked] /\ ctr' = [ctr EXCEPT ![r] = c]
        /\ UNCHANGED <<buffer, host, seen, answer, acked, committed>> /\ stage[r] = "idle"
    BY <1>1 DEF Receive, Goto, Calm
  <2>2. InFlight' = {r}
    BY <2>1 DEF InFlight, TypeOK
  <2> QED
    BY <2>1, <2>2 DEF OneOpen, Progress, VerifiedIsDone, BufferKeepsUp, RepeatIsFlagged,
                      TypeOK, buffer
<1>2. ASSUME NEW r \in Request, L1Lookup(r) PROVE SInv'
  <2>1. r \in InFlight /\ UNCHANGED <<buffer, host, ctr, seen, acked, floor, committed>>
    BY <1>2 DEF L1Lookup, InFlight
  <2>2. BufferKeepsUp'
    BY <2>1 DEF BufferKeepsUp, buffer
  <2>3. CASE l1[host[r]] # Absent
    <3>1. l1[host[r]] \in Ctr /\ l1[host[r]] >= acked /\ Decide(r, l1[host[r]])
      BY <1>2, <2>3 DEF L1Lookup, TypeOK, Entry, BufferKeepsUp
    <3> QED
      BY <2>1, <2>2, <3>1, DecideKeepsUp DEF buffer
  <2>4. CASE l1[host[r]] = Absent
    BY <1>2, <1>b, <2>1, <2>2, <2>4 DEF L1Lookup, Goto, TypeOK, OneOpen, Progress,
       VerifiedIsDone, RepeatIsFlagged, InFlight, buffer
  <2> QED
    BY <2>3, <2>4
<1>3. ASSUME NEW r \in Request, L2Hit(r) \/ L2Miss(r) \/ L3Select(r) PROVE SInv'
  <2>1. /\ UNCHANGED <<buffer, host, ctr, answer, acked, floor, committed>>
        /\ stage[r] \in {"l2", "l3"}
        /\ \A q \in Request \ {r} : stage'[q] = stage[q] /\ seen'[q] = seen[q]
        /\ \/ stage'[r] = "l2fill" /\ Redis /\ seen'[r] >= acked
           \/ stage'[r] = "l3"
           \/ stage'[r] = "l3fill" /\ seen'[r] >= acked
    <3>1. CASE L2Hit(r)
      <4>1. Redis
        BY <3>1 DEF L2Hit, Progress, InFlight
      <4> QED
        BY <3>1, <4>1 DEF L2Hit, Goto, TypeOK, BufferKeepsUp
    <3>2. CASE L2Miss(r)
      BY <3>2 DEF L2Miss, Goto, TypeOK
    <3>3. CASE L3Select(r)
      BY <3>3 DEF L3Select, Goto, TypeOK, BufferKeepsUp
    <3> QED
      BY <1>3, <3>1, <3>2, <3>3
  <2>2. InFlight' = InFlight /\ r \in InFlight
    BY <2>1 DEF InFlight
  <2>3. BufferKeepsUp' /\ OneOpen' /\ VerifiedIsDone' /\ RepeatIsFlagged'
    BY <2>1, <2>2 DEF BufferKeepsUp, OneOpen, VerifiedIsDone, RepeatIsFlagged, buffer
  <2>4. Progress'
    BY <1>b, <2>1, <2>2 DEF Progress, buffer
  <2> QED
    BY <2>3, <2>4
<1>4. ASSUME NEW r \in Request, L2Fill(r) \/ L3Fill(r) \/ Backfill(r) PROVE SInv'
  <2>1. /\ r \in InFlight /\ seen[r] >= acked /\ seen[r] \in Ctr
        /\ UNCHANGED <<pg, host, ctr, seen, acked, floor, committed>>
    BY <1>4 DEF L2Fill, L3Fill, Backfill, Progress, InFlight, TypeOK
  <2>2. BufferKeepsUp'
    BY <1>4, <2>1 DEF L2Fill, L3Fill, Backfill, SetL2, BufferKeepsUp, TypeOK
  <2>3. CASE Decide(r, seen[r])
    BY <2>1, <2>2, <2>3, DecideKeepsUp
  <2>4. CASE Redis /\ stage' = [stage EXCEPT ![r] = "backfill"] /\ UNCHANGED answer
    <3>1. InFlight' = InFlight /\ \A q \in InFlight : q = r
      BY <1>b, <2>1, <2>4 DEF InFlight, TypeOK
    <3>2. OneOpen' /\ VerifiedIsDone' /\ RepeatIsFlagged'
      BY <2>1, <2>4, <3>1 DEF OneOpen, VerifiedIsDone, RepeatIsFlagged, InFlight, TypeOK
    <3>3. Progress'
      BY <2>1, <2>4, <3>1 DEF Progress, InFlight, TypeOK
    <3> QED
      BY <2>2, <3>2, <3>3
  <2>5. CASE L2Fill(r) \/ Backfill(r) \/ (L3Fill(r) /\ ~Redis)
    BY <2>3, <2>5 DEF L2Fill, L3Fill, Backfill
  <2>6. CASE L3Fill(r) /\ Redis
    BY <2>4, <2>6 DEF L3Fill, Goto
  <2> QED
    BY <1>4, <2>5, <2>6
<1>5. ASSUME NEW r \in Request, Update(r) \/ L1Put(r) \/ L2Put(r) PROVE SInv'
  <2>1. /\ r \in InFlight /\ UNCHANGED <<host, ctr, seen, acked, floor>>
        /\ acked = 0 \/ ctr[r] > acked
        /\ ctr[r] \in Nat /\ ctr[r] >= acked
    <3>1. r \in InFlight /\ stage[r] \in {"update", "l1put", "l2put"}
          /\ UNCHANGED <<host, ctr, seen, acked, floor>>
      BY <1>5 DEF Update, L1Put, L2Put, InFlight
    <3>2. acked = 0 \/ ctr[r] > acked
      BY <3>1 DEF Progress
    <3>3. ctr[r] \in Nat
      BY <1>a DEF TypeOK
    <3> QED
      BY <1>a, <3>1, <3>2, <3>3
  <2>2. \A q \in InFlight : q = r
    BY <1>b, <2>1
  <2>3. BufferKeepsUp'
    BY <1>5, <2>1 DEF Update, L1Put, L2Put, SetL2, BufferKeepsUp, TypeOK
  <2>4. /\ stage'[r] \in {"l1put", "l2put", "reply", "done"}
        /\ \A q \in Request \ {r} : stage'[q] = stage[q]
        /\ \A q \in Request : answer'[q] = "verified" => answer[q] = "verified"
    BY <1>5 DEF Update, L1Put, L2Put, Goto, Answer, TypeOK
  <2>5. InFlight' \subseteq {r}
    BY <2>2, <2>4 DEF InFlight
  <2>6. OneOpen' /\ VerifiedIsDone' /\ RepeatIsFlagged'
    BY <2>1, <2>4, <2>5 DEF OneOpen, VerifiedIsDone, RepeatIsFlagged, InFlight
  <2>7. /\ stage'[r] \in {"l1put", "l2put", "reply"} => pg' = ctr[r]
        /\ stage'[r] \in {"l2put", "reply"} => l1'[host[r]] \in {Absent, ctr[r]}
        /\ stage'[r] = "reply" /\ Redis => l2' \in {Absent, ctr[r]}
        /\ stage'[r] = "l2put" => Redis
    BY <1>5, <2>1 DEF Update, L1Put, L2Put, SetL2, Goto, Answer, Calm, Progress, TypeOK
  <2>8. Progress'
    BY <2>1, <2>4, <2>5, <2>7 DEF Progress
  <2> QED
    BY <2>3, <2>6, <2>8
<1>6. ASSUME NEW r \in Request, Reply(r) \/ Fail(r) PROVE SInv'
  <2>1. /\ r \in InFlight /\ \A q \in InFlight : q = r
        /\ UNCHANGED <<buffer, host, ctr, seen, floor, committed>>
    <3>1. r \in InFlight
      BY <1>6 DEF Reply, Fail, InFlight
    <3> QED
      BY <1>6, <1>b, <3>1 DEF Reply, Fail, InFlight
  <2>2. InFlight' = {} /\ stage'[r] = "done" /\ \A q \in Request \ {r} : stage'[q] = stage[q]
    BY <1>6, <2>1 DEF Reply, Fail, Answer, Goto, InFlight, TypeOK
  <2>3. OneOpen' /\ Progress'
    BY <2>2 DEF OneOpen, Progress
  <2>4. VerifiedIsDone'
    BY <1>6, <2>1, <2>2 DEF Reply, Fail, Answer, VerifiedIsDone, InFlight, TypeOK
  <2>5. CASE acked' = acked /\ answer' = [answer EXCEPT ![r] = "error"]
    BY <2>1, <2>3, <2>4, <2>5 DEF BufferKeepsUp, RepeatIsFlagged, TypeOK, buffer
  <2>6. CASE /\ Reply(r) /\ answer' = [answer EXCEPT ![r] = "verified"]
             /\ acked' = IF ctr[r] > acked THEN ctr[r] ELSE acked
    <3>1. /\ pg = ctr[r] /\ l1[host[r]] \in {Absent, ctr[r]}
          /\ Redis => l2 \in {Absent, ctr[r]}
          /\ acked = 0 \/ ctr[r] > acked
          /\ floor[r] = acked /\ ctr[r] \in Nat /\ host[r] \in Instance
      BY <1>a, <2>1, <2>6 DEF Reply, Progress, TypeOK
    <3>2. acked' <= ctr[r]
      BY <1>a, <2>6, <3>1
    <3>3. \A i \in Instance : i = host[r]
      BY <3>1 DEF Calm
    <3>4. acked' \in Nat
      BY <1>a, <2>6, <3>1
    <3>5. BufferKeepsUp'
      BY <2>1, <3>1, <3>2, <3>3, <3>4 DEF BufferKeepsUp, buffer
    <3>6. RepeatIsFlagged'
      BY <2>1, <2>6, <3>1 DEF RepeatIsFlagged, TypeOK
    <3> QED
      BY <2>3, <2>4, <3>5, <3>6
  <2> QED
    BY <1>6, <2>5, <2>6 DEF Reply, Fail, Answer
<1>7. CASE (\E i \in Instance : ExpireL1(i)) \/ ExpireL2
  <2>1. /\ UNCHANGED <<pg, stage, host, ctr, seen, answer, acked, floor>>
        /\ l2' \in {l2, Absent}
        /\ \A i \in Instance : l1'[i] \in {l1[i], Absent}
    BY <1>7 DEF ExpireL1, ExpireL2, TypeOK
  <2>2. InFlight' = InFlight
    BY <2>1 DEF InFlight
  <2>3. BufferKeepsUp' /\ OneOpen' /\ VerifiedIsDone' /\ RepeatIsFlagged'
    BY <2>1, <2>2 DEF BufferKeepsUp, OneOpen, VerifiedIsDone, RepeatIsFlagged
  <2>4. Progress'
    BY <2>1, <2>2 DEF Progress, InFlight, TypeOK
  <2> QED
    BY <2>3, <2>4
<1>8. ASSUME NEW i \in Instance, Crash(i) PROVE SInv'
  <2>1. /\ UNCHANGED <<pg, l2, host, ctr, seen, acked, floor>>
        /\ l1' = [l1 EXCEPT ![i] = Absent]
        /\ \A r \in Request : r \notin InFlight => stage'[r] = stage[r] /\ answer'[r] = answer[r]
        /\ \A r \in InFlight : stage'[r] = "done" /\ answer'[r] = "error"
    BY <1>8 DEF Crash, TypeOK, InFlight, Calm
  <2>2. InFlight' = {}
    BY <2>1 DEF InFlight
  <2>3. VerifiedIsDone' /\ RepeatIsFlagged'
    BY <2>1 DEF VerifiedIsDone, RepeatIsFlagged, InFlight
  <2>4. BufferKeepsUp'
    BY <2>1 DEF BufferKeepsUp, TypeOK
  <2> QED
    BY <2>2, <2>3, <2>4 DEF OneOpen, Progress
<1>9. CASE UNCHANGED vars
  BY <1>9 DEF vars, buffer, OneOpen, Progress, VerifiedIsDone, BufferKeepsUp,
              RepeatIsFlagged, InFlight
<1> QED
  BY <1>1, <1>2, <1>3, <1>4, <1>5, <1>6, <1>7, <1>8, <1>9 DEF Next

THEOREM CalmInvariance == ASSUME Calm PROVE Spec => [](IInv /\ SInv)
  BY InitSInv, NextSInv, Invariance, PTL DEF Spec

(***************************************************************************)
(* With one instance, a Redis that answers and verifications one at a      *)
(* time, a counter that is not larger than one already answered verified   *)
(* is flagged, through expiries, crashes and lost commits.                 *)
(***************************************************************************)
THEOREM RepeatsAreFlagged == ASSUME Calm PROVE Spec => []RepeatIsFlagged
<1>1. SInv => RepeatIsFlagged
  BY DEF SInv
<1> QED
  BY <1>1, CalmInvariance, PTL

(***************************************************************************)
(* Under the same conditions no level of the buffer falls behind.          *)
(***************************************************************************)
THEOREM BufferIsCurrent == ASSUME Calm PROVE Spec => []BufferKeepsUp
<1>1. SInv => BufferKeepsUp
  BY DEF SInv
<1> QED
  BY <1>1, CalmInvariance, PTL

-----------------------------------------------------------------------------
(***************************************************************************)
(* Part 3.  The calibration tool next to the traffic of part 1.            *)
(***************************************************************************)

\* The tool knows committed values only, and sends no other to Redis unless the
\* operator has set it.
ToolCommitted ==
    /\ op.pg \in committed \cup {Absent} /\ op.l2 \in committed \cup {Absent}
    /\ \A n \in 1..Len(op.todo) : op.todo[n].to = "l2" =>
          op.todo[n].value \in committed \/ op.mode = "SetValue"

\* What a run has read at each stage.
ToolReads ==
    /\ op.stage = "pg" => op.pg = Absent
    /\ op.stage = "redis" /\ op.mode = "auto" => op.pg # Absent
    /\ op.stage = "redis" /\ undisturbed => pg = OrZero(op.pg)

\* A run that keeps the maximum has one write left, which makes the levels
\* agree, or none.
ToolKeepsMax ==
    op.stage = "write" /\ undisturbed /\ op.mode \in {"auto", "UseMax"} =>
        \/ op.todo = << >> /\ CalibrationKeepsMax
        \/ op.todo = To("l2", pg) /\ pg >= op.pg /\ pg >= op.l2
        \/ op.todo = To("pg", l2) /\ l2 \in Ctr /\ l2 >= op.pg /\ l2 >= op.l2

CalInv == IInv /\ CalTypeOK /\ ToolCommitted /\ ToolReads /\ ToolKeepsMax

\* UseMax writes the smaller level only.
LEMMA MaxShape ==
    ASSUME NEW p \in Entry, NEW r \in Entry
    PROVE  \/ MaxWrites(p, r) = << >> /\ (r = OrZero(p) \/ r = Absent)
           \/ MaxWrites(p, r) = To("l2", p) /\ p \in Ctr /\ p >= r
           \/ MaxWrites(p, r) = To("pg", r) /\ r \in Ctr /\ r >= p
<1> DEFINE a == OrZero(p)
           b == OrZero(r)
<1>1. Ctr \subseteq Int /\ p \in Int /\ r \in Int /\ a \in Int /\ b \in Int /\ a >= 0 /\ b >= 0
      /\ a >= p /\ b >= r /\ (a # 0 => a = p) /\ (b # 0 => b = r)
  BY CtrAssumption DEF Entry, Ctr, Absent, OrZero
<1>2. CASE a = b
  <2>1. MaxWrites(p, r) = << >> \o << >>
    BY <1>1, <1>2 DEF MaxWrites, Larger
  <2>2. r = OrZero(p) \/ r = Absent
    BY <1>2 DEF OrZero
  <2> QED
    BY <2>1, <2>2
<1>3. CASE b < a
  <2>0. Larger(a, b) = a /\ a = p /\ ~(a < a)
    BY <1>1, <1>3 DEF Larger
  <2>1. MaxWrites(p, r) = To("l2", p) \o << >>
    BY <1>1, <1>3, <2>0, Zenon DEF MaxWrites
  <2>2. p \in Ctr /\ p >= r
    BY <1>1, <1>3, CtrAssumption DEF Entry, Ctr, Absent
  <2>3. To("l2", p) \o << >> = To("l2", p)
    BY DEF To
  <2> QED
    BY <2>1, <2>2, <2>3
<1>4. CASE a < b
  <2>0. Larger(a, b) = b /\ b = r /\ ~(b < b)
    BY <1>1, <1>4 DEF Larger
  <2>1. MaxWrites(p, r) = << >> \o To("pg", r)
    BY <1>1, <1>4, <2>0, Zenon DEF MaxWrites
  <2>2. r \in Ctr /\ r >= p
    BY <1>1, <1>4, CtrAssumption DEF Entry, Ctr, Absent
  <2>3. << >> \o To("pg", r) = To("pg", r)
    BY DEF To
  <2> QED
    BY <2>1, <2>2, <2>3
<1> QED
  BY <1>1, <1>2, <1>3, <1>4

\* What a run may have to write.
LEMMA PlanShape ==
    ASSUME NEW mode \in Modes, NEW p \in Entry, NEW r \in Entry, NEW v \in Entry,
           mode = "auto" => p # Absent
    PROVE  \/ Plan(mode, p, r, v) = << >>
           \/ Plan(mode, p, r, v) = To("l2", p) /\ p \in Ctr
           \/ Plan(mode, p, r, v) = To("pg", r) /\ r \in Ctr
           \/ /\ mode = "SetValue" /\ v \in Ctr
              /\ Plan(mode, p, r, v) = To("l2", v) \o To("pg", v)
<1>1. CASE mode = "check"
  BY <1>1 DEF Plan, CheckWrites
<1>2. CASE mode = "auto"
  BY <1>2 DEF Plan, AutoWrites, OrZero, Entry
<1>3. CASE mode = "UseRedis"
  BY <1>3 DEF Plan, Entry
<1>4. CASE mode = "UsePg"
  BY <1>4 DEF Plan, Entry
<1>5. CASE mode = "UseMax"
  <2>1. Plan(mode, p, r, v) = MaxWrites(p, r)
    BY <1>5 DEF Plan
  <2> QED
    BY <2>1, MaxShape
<1>6. CASE mode = "SetValue"
  BY <1>6 DEF Plan, Entry
<1> QED
  BY <1>1, <1>2, <1>3, <1>4, <1>5, <1>6 DEF Modes

\* What a run that keeps the maximum plans.
LEMMA KeepShape ==
    ASSUME NEW mode \in {"auto", "UseMax"}, NEW p \in Entry, NEW r \in Entry, NEW v \in Entry,
           mode = "auto" => p # Absent
    PROVE  \/ /\ Plan(mode, p, r, v) = << >>
              /\ \/ r = OrZero(p) \/ r = Absent
                 \/ mode = "auto" /\ (r - p > Threshold \/ p - r > Threshold)
           \/ Plan(mode, p, r, v) = To("l2", p) /\ p \in Ctr /\ p >= r
           \/ Plan(mode, p, r, v) = To("pg", r) /\ r \in Ctr /\ r >= p
<1>1. CASE mode = "auto"
  <2>1. OrZero(p) = p /\ p \in Ctr /\ p \in Int /\ r \in Int
    BY <1>1, CtrAssumption DEF OrZero, Entry, Ctr, Absent
  <2>2. Plan(mode, p, r, v) = AutoWrites(p, r)
    BY <1>1, <2>1 DEF Plan
  <2>3. r = Absent \/ r \in Ctr
    BY DEF Entry
  <2> QED
    BY <1>1, <2>1, <2>2, <2>3, CalAssumption DEF AutoWrites
<1>2. CASE mode = "UseMax"
  <2>1. Plan(mode, p, r, v) = MaxWrites(p, r)
    BY <1>2 DEF Plan
  <2> QED
    BY <2>1, MaxShape
<1> QED
  BY <1>1, <1>2

LEMMA NoRunType ==
    ASSUME NEW n \in Nat
    PROVE  NoRun(n) \in [stage : {"idle", "pg", "redis", "write"}, mode : Modes, value : Entry,
                         pg : Entry, l2 : Entry, todo : Seq(Writes), runs : Nat]
<1>1. << >> \in Seq(Writes) /\ Absent \in Entry /\ "check" \in Modes
  BY DEF Entry, Modes
<1> QED
  BY <1>1 DEF NoRun

LEMMA InitCalInv == CalInit => CalInv
<1> SUFFICES ASSUME CalInit PROVE CalInv
  OBVIOUS
<1>1. IInv
  BY InitIInv DEF CalInit
<1>2. CalTypeOK
  BY <1>1, NoRunType DEF IInv, CalInit, CalTypeOK
<1>3. ToolCommitted /\ ToolReads /\ ToolKeepsMax
  BY DEF CalInit, NoRun, ToolCommitted, ToolReads, ToolKeepsMax
<1> QED
  BY <1>1, <1>2, <1>3 DEF CalInv

\* Nothing that was committed is forgotten.
LEMMA CommittedGrows == [Next]_vars => committed \subseteq committed'
  BY DEF Next, vars, Receive, L1Lookup, L2Hit, L2Miss, L2Fill, L3Select, L3Fill, Backfill,
     Update, L1Put, L2Put, Reply, Fail, ExpireL1, ExpireL2, Crash

LEMMA CalNextInv == CalInv /\ [CalNext]_calVars => CalInv'
<1> SUFFICES ASSUME CalInv, [CalNext]_calVars PROVE CalInv'
  OBVIOUS
<1>a. /\ op.stage \in {"idle", "pg", "redis", "write"} /\ op.mode \in Modes
      /\ op.value \in Entry /\ op.pg \in Entry /\ op.l2 \in Entry /\ op.todo \in Seq(Writes)
      /\ op.runs \in Nat
      /\ pg \in Ctr /\ l2 \in Entry /\ pg \in Int /\ l2 \in Int /\ op.pg \in Int /\ op.l2 \in Int
  BY CtrAssumption DEF CalInv, CalTypeOK, TypeOK, Entry, Ctr, Absent
<1>b. ASSUME UNCHANGED vars PROVE IInv' /\ TypeOK' /\ UNCHANGED <<pg, l2, committed>>
  BY <1>b, NextIInv DEF CalInv, IInv, vars, buffer
<1>1. CASE Traffic
  <2>1. IInv' /\ committed \subseteq committed' /\ op' = op
        /\ undisturbed' = (undisturbed /\ pg' = pg /\ l2' = l2)
    BY <1>1, NextIInv, CommittedGrows DEF CalInv, Traffic
  <2>2. CalTypeOK'
    BY <2>1 DEF CalInv, IInv, CalTypeOK
  <2>3. ToolCommitted'
    BY <2>1 DEF CalInv, ToolCommitted
  <2>4. ToolReads' /\ ToolKeepsMax'
    BY <2>1 DEF CalInv, ToolReads, ToolKeepsMax, CalibrationKeepsMax
  <2> QED
    BY <2>1, <2>2, <2>3, <2>4 DEF CalInv
<1>2. ASSUME NEW mode \in Modes, NEW v \in Entry, StartRun(mode, v) PROVE CalInv'
  <2>1. /\ op' = [stage |-> "pg", mode |-> mode, value |-> v, pg |-> Absent, l2 |-> Absent,
                  todo |-> << >>, runs |-> op.runs + 1]
        /\ undisturbed' = TRUE /\ UNCHANGED vars
    BY <1>2 DEF StartRun, NoRun
  <2>2. CalTypeOK'
    BY <1>a, <1>b, <2>1 DEF CalTypeOK, Entry
  <2> QED
    BY <1>b, <2>1, <2>2 DEF CalInv, ToolCommitted, ToolReads, ToolKeepsMax
<1>3. CASE ReadPg
  <2>1. /\ UNCHANGED <<vars, undisturbed>> /\ op.stage = "pg" /\ op.pg = Absent
        /\ \/ op' = [op EXCEPT !.stage = "redis", !.pg = pg]
           \/ /\ pg = 0 /\ op.mode # "auto"
              /\ op' = [op EXCEPT !.stage = "redis"]
    BY <1>3 DEF ReadPg, CalInv, ToolReads
  <2>2. CalTypeOK'
    BY <1>a, <1>b, <2>1 DEF CalInv, CalTypeOK, Entry
  <2>3. ToolCommitted'
    BY <1>a, <1>b, <2>1 DEF CalInv, CalTypeOK, IInv, ToolCommitted
  <2>4. op'.stage = "redis" /\ op'.mode = op.mode /\ pg' = pg
        /\ (op'.pg = pg \/ (pg = 0 /\ op.mode # "auto" /\ op'.pg = Absent))
    BY <1>b, <2>1 DEF CalInv, CalTypeOK
  <2>5. pg # Absent
    BY <1>a, CtrAssumption DEF Ctr, Absent
  <2>6. ToolReads' /\ ToolKeepsMax'
    BY <2>4, <2>5 DEF ToolReads, ToolKeepsMax, OrZero
  <2> QED
    BY <1>b, <2>1, <2>2, <2>3, <2>6 DEF CalInv
<1>4. CASE FailPg \/ EndRun
  <2>1. /\ UNCHANGED vars /\ undisturbed' = FALSE
        /\ \/ op' = NoRun(op.runs)
           \/ /\ op.mode # "auto"
              /\ op' = [op EXCEPT !.stage = "redis"]
    BY <1>4 DEF FailPg, EndRun
  <2>2. CASE op' = NoRun(op.runs)
    <3>1. CalTypeOK'
      BY <1>a, <1>b, <2>1, <2>2, NoRunType DEF CalTypeOK
    <3> QED
      BY <1>b, <2>1, <2>2, <3>1 DEF CalInv, NoRun, ToolCommitted, ToolReads, ToolKeepsMax
  <2>3. CASE op.mode # "auto" /\ op' = [op EXCEPT !.stage = "redis"]
    <3>1. CalTypeOK'
      BY <1>a, <1>b, <2>1, <2>3 DEF CalInv, CalTypeOK
    <3> QED
      BY <1>a, <1>b, <2>1, <2>3, <3>1 DEF CalInv, CalTypeOK, ToolCommitted, ToolReads, ToolKeepsMax
  <2> QED
    BY <2>1, <2>2, <2>3
<1>5. CASE ReadRedis
  <2>1. PICK r \in {l2} \cup (IF RedisFails THEN {Absent} ELSE {}) :
          /\ op' = [op EXCEPT !.stage = "write", !.l2 = r,
                              !.todo = Plan(op.mode, op.pg, r, op.value)]
          /\ undisturbed' = (undisturbed /\ r = l2)
    BY <1>5 DEF ReadRedis
  <2>2. /\ op.stage = "redis" /\ UNCHANGED vars
        /\ r \in Entry /\ r \in committed \cup {Absent}
        /\ op.mode = "auto" => op.pg # Absent
    BY <1>5, <1>a DEF ReadRedis, CalInv, IInv, CachesHoldCommitted, ToolReads, Entry
  <2> DEFINE todo == Plan(op.mode, op.pg, r, op.value)
  <2>3. \/ todo = << >>
        \/ todo = To("l2", op.pg) /\ op.pg \in Ctr
        \/ todo = To("pg", r) /\ r \in Ctr
        \/ /\ op.mode = "SetValue" /\ op.value \in Ctr
           /\ todo = To("l2", op.value) \o To("pg", op.value)
    <3>1. /\ op.mode \in Modes /\ op.pg \in Entry /\ r \in Entry /\ op.value \in Entry
          /\ op.mode = "auto" => op.pg # Absent
      BY <1>a, <2>2
    <3> QED
      BY <3>1, PlanShape
  <2>4. op'.todo = todo /\ op'.mode = op.mode /\ op'.stage = "write" /\ op'.pg = op.pg
        /\ op'.l2 = r /\ op'.value = op.value /\ op'.runs = op.runs
    BY <2>1 DEF CalInv, CalTypeOK
  <2>5. todo \in Seq(Writes) /\ \A n \in 1..Len(todo) : todo[n].to = "l2" =>
          todo[n].value \in committed \/ op.mode = "SetValue"
    <3>1. CASE todo = << >>
      BY <3>1
    <3>2. CASE todo = To("l2", op.pg) /\ op.pg \in Ctr
      <4>1. op.pg \in committed
        BY <3>2, CtrAssumption DEF CalInv, ToolCommitted, Ctr, Absent
      <4> HIDE DEF todo
      <4> QED
        BY <3>2, <4>1 DEF To, Writes
    <3>3. CASE todo = To("pg", r) /\ r \in Ctr
      <4> HIDE DEF todo
      <4> QED
        BY <3>3 DEF To, Writes
    <3>4. CASE /\ op.mode = "SetValue" /\ op.value \in Ctr
               /\ todo = To("l2", op.value) \o To("pg", op.value)
      <4> HIDE DEF todo
      <4>1. To("l2", op.value) \in Seq(Writes) /\ To("pg", op.value) \in Seq(Writes)
        BY <3>4 DEF To, Writes
      <4> QED
        BY <3>4, <4>1
    <3> QED
      BY <2>3, <3>1, <3>2, <3>3, <3>4
  <2> HIDE DEF todo
  <2>6. CalTypeOK'
    BY <1>a, <1>b, <2>1, <2>2, <2>5 DEF CalInv, CalTypeOK, todo
  <2>7. ToolCommitted'
    BY <1>b, <2>2, <2>4, <2>5 DEF CalInv, ToolCommitted
  <2>8. ToolReads'
    BY <2>4 DEF ToolReads
  <2>9. ToolKeepsMax'
    <3> SUFFICES ASSUME undisturbed, r = l2, op.mode \in {"auto", "UseMax"}
                 PROVE \/ todo = << >> /\ CalibrationKeepsMax'
                       \/ todo = To("l2", pg) /\ pg >= op.pg /\ pg >= r
                       \/ todo = To("pg", l2) /\ l2 \in Ctr /\ l2 >= op.pg /\ l2 >= r
      BY <1>b, <2>1, <2>2, <2>4 DEF ToolKeepsMax
    <3>1. pg = OrZero(op.pg) /\ pg >= op.pg /\ (op.pg \in Ctr => pg = op.pg)
      BY <1>a, <2>2, CtrAssumption DEF CalInv, ToolReads, OrZero, Entry, Ctr, Absent
    <3>2. \/ /\ todo = << >>
             /\ \/ r = OrZero(op.pg) \/ r = Absent
                \/ op.mode = "auto" /\ (r - op.pg > Threshold \/ op.pg - r > Threshold)
          \/ todo = To("l2", op.pg) /\ op.pg \in Ctr /\ op.pg >= r
          \/ todo = To("pg", r) /\ r \in Ctr /\ r >= op.pg
      <4>1. /\ op.pg \in Entry /\ r \in Entry /\ op.value \in Entry
            /\ op.mode = "auto" => op.pg # Absent
        BY <1>a, <2>2
      <4> QED
        BY <4>1, KeepShape DEF todo
    <3>3. CASE /\ todo = << >>
               /\ \/ r = OrZero(op.pg) \/ r = Absent
                  \/ op.mode = "auto" /\ (r - op.pg > Threshold \/ op.pg - r > Threshold)
      <4>1. op.mode = "auto" => op.pg = pg
        BY <1>a, <2>2, <3>1 DEF Entry
      <4> QED
        BY <1>a, <1>b, <2>2, <2>4, <3>1, <3>3, <4>1 DEF CalibrationKeepsMax
    <3> QED
      BY <1>a, <3>1, <3>2, <3>3
  <2> QED
    BY <1>b, <2>2, <2>6, <2>7, <2>8, <2>9 DEF CalInv
<1>6. CASE Write
  <2> DEFINE w == Head(op.todo)
  <2>1. /\ op.stage = "write" /\ op.todo # << >> /\ op' = [op EXCEPT !.todo = Tail(@)]
        /\ UNCHANGED <<l1, stage, host, ctr, seen, answer, acked, floor>>
        /\ \/ /\ w.to = "pg" /\ pg' = w.value /\ committed' = committed \cup {w.value}
              /\ UNCHANGED <<l2, undisturbed>>
           \/ /\ w.to = "l2" /\ l2' = w.value
              /\ committed' = IF op.mode = "SetValue" THEN committed \cup {w.value} ELSE committed
              /\ UNCHANGED <<pg, undisturbed>>
           \/ undisturbed' = FALSE /\ UNCHANGED <<pg, l2, committed>>
    BY <1>6 DEF Write
  <2>2. /\ w = op.todo[1] /\ w \in Writes /\ Tail(op.todo) \in Seq(Writes) /\ 1 \in 1..Len(op.todo)
        /\ Len(Tail(op.todo)) = Len(op.todo) - 1
        /\ \A n \in 1..Len(Tail(op.todo)) : /\ Tail(op.todo)[n] = op.todo[n + 1]
                                            /\ n + 1 \in 1..Len(op.todo)
    BY <1>a, <2>1
  <2>3. w.value \in Ctr /\ (w.to = "l2" => w.value \in committed \/ op.mode = "SetValue")
    BY <2>2 DEF Writes, CalInv, ToolCommitted
  <2>4. op' = [op EXCEPT !.todo = Tail(op.todo)]
    BY <2>1
  <2> HIDE DEF w
  <2>5. /\ committed \subseteq committed' /\ committed' \subseteq Ctr
        /\ pg' \in Ctr /\ pg' \in committed'
        /\ l2' \in Entry /\ l2' \in committed' \cup {Absent} /\ undisturbed' \in BOOLEAN
    BY <2>1, <2>3 DEF CalInv, CalTypeOK, IInv, TypeOK, CachesHoldCommitted, Entry
  <2>6. IInv'
    BY <2>1, <2>5 DEF CalInv, IInv, TypeOK, CachesHoldCommitted, CarriedCommitted,
       FlaggedIsDone, FlagIsJustified
  <2>7. CalTypeOK'
    BY <2>2, <2>4, <2>5, <2>6 DEF CalInv, CalTypeOK, IInv
  <2>8. op'.todo = Tail(op.todo) /\ op'.mode = op.mode /\ op'.stage = op.stage
        /\ op'.pg = op.pg /\ op'.l2 = op.l2
    BY <2>4 DEF CalInv, CalTypeOK
  <2>9. ToolCommitted'
    BY <2>2, <2>5, <2>8 DEF CalInv, ToolCommitted
  <2>10. ToolReads'
    BY <2>1, <2>8 DEF ToolReads
  <2>11. ToolKeepsMax'
    <3> SUFFICES ASSUME undisturbed', op.mode \in {"auto", "UseMax"}
                 PROVE  op'.todo = << >> /\ CalibrationKeepsMax'
      BY <2>8 DEF ToolKeepsMax
    <3>1. undisturbed /\ \/ w.to = "pg" /\ pg' = w.value /\ l2' = l2
                         \/ w.to = "l2" /\ l2' = w.value /\ pg' = pg
      BY <2>1
    <3>2. \/ op.todo = To("l2", pg) /\ pg >= op.pg /\ pg >= op.l2
          \/ op.todo = To("pg", l2) /\ l2 \in Ctr /\ l2 >= op.pg /\ l2 >= op.l2
      BY <2>1, <3>1 DEF CalInv, ToolKeepsMax
    <3>3. Tail(op.todo) = << >>
      <4>1. Len(op.todo) = 1
        BY <3>2 DEF To
      <4>2. Len(Tail(op.todo)) = 0
        BY <2>2, <4>1
      <4>3. \A q \in Seq(Writes) : Len(q) = 0 => q = << >>
        OBVIOUS
      <4> QED
        BY <2>2, <4>2, <4>3
    <3>4. \/ w.to = "l2" /\ w.value = pg /\ pg >= op.pg /\ pg >= op.l2
          \/ w.to = "pg" /\ w.value = l2 /\ l2 >= op.pg /\ l2 >= op.l2
      BY <2>2, <3>2 DEF To
    <3>5. pg' = l2' /\ pg' >= op.pg /\ l2' >= op.l2
      BY <3>1, <3>4
    <3> QED
      BY <2>8, <3>3, <3>5 DEF CalibrationKeepsMax
  <2> QED
    BY <2>6, <2>7, <2>9, <2>10, <2>11 DEF CalInv
<1>7. CASE UNCHANGED calVars
  <2>1. UNCHANGED vars /\ UNCHANGED <<op, undisturbed>>
    BY <1>7 DEF calVars
  <2> QED
    BY <1>b, <2>1 DEF CalInv, CalTypeOK, ToolCommitted, ToolReads, ToolKeepsMax,
       CalibrationKeepsMax
<1> QED
  BY <1>1, <1>2, <1>3, <1>4, <1>5, <1>6, <1>7 DEF CalNext

THEOREM CalInvariance == CalSpec => []CalInv
  BY InitCalInv, CalNextInv, PTL DEF CalSpec

(***************************************************************************)
(* With the calibration tool every variable keeps its type.                *)
(***************************************************************************)
THEOREM CalTypeCorrect == CalSpec => []CalTypeOK
<1>1. CalInv => CalTypeOK
  BY DEF CalInv
<1> QED
  BY <1>1, CalInvariance, PTL

(***************************************************************************)
(* The tool, stopped anywhere and overtaken by verifications, puts nothing *)
(* into a cache that the row never had or the operator did not set.        *)
(***************************************************************************)
THEOREM CalCachesCorrect == CalSpec => []CachesHoldCommitted
<1>1. CalInv => CachesHoldCommitted
  BY DEF CalInv, IInv
<1> QED
  BY <1>1, CalInvariance, PTL

(***************************************************************************)
(* Nor does it cause a false alarm.                                        *)
(***************************************************************************)
THEOREM CalNoFalseAlarm == CalSpec => []FlagIsJustified
<1>1. CalInv => FlagIsJustified
  BY DEF CalInv, IInv
<1> QED
  BY <1>1, CalInvariance, PTL

(***************************************************************************)
(* A run of UseMax or of the batch that nobody disturbs lowers no level,   *)
(* whatever the counters and the threshold.                                *)
(***************************************************************************)
THEOREM CalKeepsMax == CalSpec => []CalibrationKeepsMax
<1>1. CalInv => CalibrationKeepsMax
  <2> SUFFICES ASSUME CalInv, op.stage = "write", op.todo = << >>, undisturbed,
                      op.mode \in {"auto", "UseMax"}
               PROVE  CalibrationKeepsMax
    BY DEF CalibrationKeepsMax
  <2>1. op.todo # To("l2", pg) /\ op.todo # To("pg", l2)
    BY DEF To
  <2> QED
    BY <2>1 DEF CalInv, ToolKeepsMax
<1> QED
  BY <1>1, CalInvariance, PTL
=============================================================================
