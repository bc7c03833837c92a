---------------------------- MODULE CtrCalibrate ----------------------------
(***************************************************************************)
(* The calibration tool an operator runs on the counter of a tag           *)
(* (rust/rc-api/src/cli/ctr_calibrate.rs) next to the verifications of     *)
(* CtrCache: it reads PostgreSQL, then Redis, decides, and writes what it  *)
(* decided, each in a statement of its own and without a look at what has  *)
(* changed meanwhile.  The maps of the instances are out of its reach.     *)
(***************************************************************************)
EXTENDS CtrCache, Sequences

CONSTANTS Threshold,   \* AUTO_SKIP_THRESHOLD, 1000 in the code
          MaxRuns      \* bound on the runs of the tool

ASSUME CalAssumption == Threshold \in Nat /\ MaxRuns \in Nat

VARIABLES op,          \* the run of the tool
          undisturbed  \* ghost: nobody else wrote pg or l2 since it read, and nothing failed

calVars == <<vars, op, undisturbed>>

Modes == {"check", "auto", "UseRedis", "UsePg", "UseMax", "SetValue"}
Writes == [to : {"pg", "l2"}, value : Ctr]

CalTypeOK ==
    /\ TypeOK
    /\ op \in [stage : {"idle", "pg", "redis", "write"}, mode : Modes, value : Entry,
               pg : Entry, l2 : Entry, todo : Seq(Writes), runs : Nat]
    /\ undisturbed \in BOOLEAN

NoRun(n) == [stage |-> "idle", mode |-> "check", value |-> Absent, pg |-> Absent,
             l2 |-> Absent, todo |-> << >>, runs |-> n]

CalInit ==
    /\ Init
    /\ op = NoRun(0)
    /\ undisturbed = FALSE

-----------------------------------------------------------------------------
Larger(m, n) == IF m < n THEN n ELSE m
OrZero(e) == IF e = Absent THEN 0 ELSE e
To(level, c) == <<[to |-> level, value |-> c]>>

\* run_check only reports.
CheckWrites(p, r) == << >>

\* run_auto for one tag.
AutoWrites(p, r) ==
    IF r = Absent \/ r = p \/ r - p > Threshold \/ p - r > Threshold THEN << >>
    ELSE IF r > p THEN To("pg", r) ELSE To("l2", p)

\* Mutant of MaxWrites: Redis is taken to be ahead.
MaxWritesRedis(p, r) == IF p # r /\ r # Absent THEN To("pg", r) ELSE << >>

\* UseMax of run_uid: Redis first, then PostgreSQL.
MaxWrites(p, r) ==
    LET m == Larger(OrZero(p), OrZero(r)) IN
    (IF OrZero(r) < m THEN To("l2", m) ELSE << >>) \o
    (IF OrZero(p) < m THEN To("pg", m) ELSE << >>)

\* What a run that has read p and r goes on to write.
Plan(mode, p, r, v) ==
    CASE mode = "check"    -> CheckWrites(p, r)
      [] mode = "auto"     -> AutoWrites(OrZero(p), r)
      [] mode = "UseRedis" -> IF r = Absent THEN << >> ELSE To("pg", r)
      [] mode = "UsePg"    -> IF p = Absent THEN << >> ELSE To("l2", p)
      [] mode = "UseMax"   -> MaxWrites(p, r)
      [] mode = "SetValue" -> IF v = Absent THEN << >> ELSE To("l2", v) \o To("pg", v)

-----------------------------------------------------------------------------
\* The operator starts the tool; only SetValue takes a value, and may lack it.
StartRun(mode, v) ==
    /\ op.stage = "idle" /\ op.runs < MaxRuns
    /\ mode # "SetValue" => v = Absent
    /\ op' = [NoRun(op.runs + 1) EXCEPT !.stage = "pg", !.mode = mode, !.value = v]
    /\ undisturbed' = TRUE
    /\ UNCHANGED vars

\* The SELECT: NULL is COALESCEd to 0 in a batch, and no value for a single tag.
ReadPg ==
    /\ op.stage = "pg"
    /\ \/ op' = [op EXCEPT !.stage = "redis", !.pg = pg] /\ UNCHANGED undisturbed
       \/ /\ pg = 0 /\ op.mode \notin {"check", "auto"}
          /\ op' = [op EXCEPT !.stage = "redis"] /\ UNCHANGED undisturbed
    /\ UNCHANGED vars

\* The SELECT fails: a batch is then empty, a single tag has no value.
FailPg ==
    /\ op.stage = "pg"
    /\ op' = IF op.mode \in {"check", "auto"} THEN NoRun(op.runs)
             ELSE [op EXCEPT !.stage = "redis"]
    /\ undisturbed' = FALSE
    /\ UNCHANGED vars

\* GET ctr:{uid}; an error counts as no value.
ReadRedis ==
    /\ op.stage = "redis"
    /\ \E r \in {l2} \cup (IF RedisFails THEN {Absent} ELSE {}) :
          /\ op' = [op EXCEPT !.stage = "write", !.l2 = r,
                              !.todo = Plan(op.mode, op.pg, r, op.value)]
          /\ undisturbed' = (undisturbed /\ r = l2)
    /\ UNCHANGED vars

\* The next write; the tool goes on when it fails.  A value the operator sets counts as
\* committed from the moment Redis has it.
Write ==
    /\ op.stage = "write" /\ op.todo # << >>
    /\ LET w == Head(op.todo) IN
       \/ /\ w.to = "pg" /\ pg' = w.value
          /\ committed' = committed \cup {w.value}
          /\ UNCHANGED <<l2, undisturbed>>
       \/ /\ w.to = "l2" /\ l2' = w.value
          /\ committed' = IF op.mode = "SetValue" THEN committed \cup {w.value} ELSE committed
          /\ UNCHANGED <<pg, undisturbed>>
       \/ undisturbed' = FALSE /\ UNCHANGED <<pg, l2, committed>>
    /\ op' = [op EXCEPT !.todo = Tail(@)]
    /\ UNCHANGED <<l1, stage, host, ctr, seen, answer, acked, floor>>

\* The tool ends, or is stopped before it is through.
EndRun ==
    /\ op.stage # "idle"
    /\ op' = NoRun(op.runs)
    /\ undisturbed' = FALSE
    /\ UNCHANGED vars

\* A step of a verification or of the buffer.
Traffic ==
    /\ Next
    /\ undisturbed' = (undisturbed /\ pg' = pg /\ l2' = l2)
    /\ UNCHANGED op

CalNext ==
    \/ Traffic
    \/ \E mode \in Modes, v \in Entry : StartRun(mode, v)
    \/ ReadPg \/ FailPg \/ ReadRedis \/ Write \/ EndRun

CalSpec == CalInit /\ [][CalNext]_calVars

-----------------------------------------------------------------------------
(***************************************************************************)
(* UseMax protects the counter (ctr_calibrate.rs, "CTR" only grows): when  *)
(* a run of UseMax or of the batch that nobody disturbed has written all   *)
(* it wanted to, neither level is below what it had, and the two levels    *)
(* agree unless Redis has no value or the batch left the tag to review.    *)
(***************************************************************************)
CalibrationKeepsMax ==
    op.stage = "write" /\ op.todo = << >> /\ undisturbed /\ op.mode \in {"auto", "UseMax"} =>
        /\ pg >= op.pg /\ l2 >= op.l2
        /\ \/ l2 = pg
           \/ l2 = Absent
           \/ op.mode = "auto" /\ (pg - l2 > Threshold \/ l2 - pg > Threshold)
=============================================================================
