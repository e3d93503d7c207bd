-------------------------- MODULE SyncSweepProofs --------------------------
(***************************************************************************)
(* The report of a sweep, for any users, any sequence of groups, any       *)
(* number of overlapping runs and any cap; and, in the second part, how a  *)
(* group comes to be one of those that a sweep goes through (Connection),  *)
(* for any number of handlers, of changes of the bot's standing and of     *)
(* commands.                                                               *)
(***************************************************************************)
EXTENDS SyncSweep, Connection, SequenceTheorems, TLAPS

Runs == [running : BOOLEAN, todo : SUBSET Pairs, truncated : BOOLEAN, failed : BOOLEAN]

Distinct(s) == \A i, j \in DOMAIN s : s[i] = s[j] => i = j

Typed ==
    /\ banned \in Seq(Users) /\ Distinct(banned)
    /\ standing \in [Pairs -> {"member", "left", "banned"}]
    /\ sweep \in [Triggers -> Runs]
    /\ sched \in {"down", "starting", "up"}
    /\ \A t \in Triggers : sweep[t].running => sched = "up"
    /\ undisturbed \in SUBSET {t \in Triggers : sweep[t].running}
    /\ allClear \in BOOLEAN

(* As long as no ban was issued or lifted, a run that was not cut and has  *)
(* met no failure still has every pair before it that needs its ban.       *)
Ahead(t) ==
    sweep[t].truncated \/ sweep[t].failed \/ \A p \in Enforceable : Miss(p) => p \in sweep[t].todo

IInv == Typed /\ ReportIsTrue /\ \A t \in undisturbed : Ahead(t)

-----------------------------------------------------------------------------
(* The pairs of a product, counted row by row. *)

LEMMA RowAndColumn ==
  ASSUME NEW n \in Nat \ {0}, NEW a \in Nat, NEW b \in 0..(n - 1)
  PROVE  (a * n + b) \div n = a /\ (a * n + b) % n = b
  BY Z3T(30)

LEMMA WithinRows ==
  ASSUME NEW n \in Nat \ {0}, NEW m \in Nat, NEW a \in 0..(m - 1), NEW b \in 0..(n - 1)
  PROVE  a * n + b \in 0..(m * n - 1)
<1>1. a * n \in Nat /\ m * n \in Nat
  BY SMTT(30)
<1>2. (m - a) * n >= n
  BY SMTT(30)
<1>3. (m - a) * n = m * n - a * n
  BY SMTT(30)
<1> QED
  BY <1>1, <1>2, <1>3

LEMMA InProduct ==
  ASSUME NEW n \in Nat, NEW m \in Nat, NEW k \in 0..(m * n - 1)
  PROVE  /\ n \in Nat \ {0}
         /\ k \div n \in 0..(m - 1) /\ k % n \in 0..(n - 1)
<1>1. n # 0
  BY SMTT(30)
<1>2. k \div n \in Nat /\ k % n \in 0..(n - 1) /\ k = n * (k \div n) + (k % n)
  BY <1>1, Z3T(30)
<1>3. ASSUME k \div n >= m PROVE FALSE
  <2>1. n * (k \div n) >= n * m
    BY <1>1, <1>2, <1>3, SMTT(30)
  <2> QED
    BY <1>2, <2>1, SMTT(30)
<1> QED
  BY <1>1, <1>2, <1>3

LEMMA Sizes ==
    /\ Len(Groups) \in Nat /\ DOMAIN Groups = 1..Len(Groups)
    /\ MaxChecks \in Nat \ {0}
    /\ Triggers = Commands \cup {"job"} /\ "job" \notin Commands
  BY GroupsAssumption, CapAssumption, CommandsAssumption DEF Triggers

LEMMA TakesPairs ==
  ASSUME NEW us \in Seq(Users)
  PROVE  TakePairs(us) \in SUBSET Pairs
<1> DEFINE n == Len(Groups)
           m == Len(us)
<1>1. n \in Nat /\ m \in Nat /\ m * n \in Nat /\ DOMAIN us = 1..m
  BY Sizes, SMTT(30)
<1> SUFFICES ASSUME NEW i \in 1..Smaller(MaxChecks, m * n)
             PROVE  Product(us)[i] \in Pairs
  BY DEF TakePairs
<1>2. i \in 1..(m * n) /\ i - 1 \in 0..(m * n - 1)
  BY <1>1, Sizes DEF Smaller
<1>3. (i - 1) \div n \in 0..(m - 1) /\ (i - 1) % n \in 0..(n - 1)
  BY <1>1, <1>2, InProduct
<1> HIDE DEF n, m
<1>4. ((i - 1) \div n) + 1 \in 1..m /\ ((i - 1) % n) + 1 \in 1..n
  BY <1>1, <1>3
<1>5. us[((i - 1) \div n) + 1] \in Users /\ Groups[((i - 1) % n) + 1] \in GroupSet
  BY <1>4, Sizes DEF GroupSet, n, m
<1>6. Product(us)[i] = <<us[((i - 1) \div n) + 1], Groups[((i - 1) % n) + 1]>>
  BY <1>2 DEF Product, n, m
<1> QED
  BY <1>5, <1>6 DEF Pairs

(* Under the cap a run takes every pair of a banned user and a group.      *)
LEMMA TakesAll ==
  ASSUME NEW us \in Seq(Users), ~(Len(us) * Len(Groups) > MaxChecks),
         NEW x \in DOMAIN us, NEW y \in DOMAIN Groups
  PROVE  <<us[x], Groups[y]>> \in TakePairs(us)
<1> DEFINE n == Len(Groups)
           m == Len(us)
           k == (x - 1) * n + (y - 1)
<1>1. n \in Nat /\ m \in Nat /\ m * n \in Nat /\ x \in 1..m /\ y \in 1..n /\ ~(m * n > MaxChecks)
  BY Sizes, SMTT(30)
<1>2. n \in Nat \ {0} /\ x - 1 \in 0..(m - 1) /\ x - 1 \in Nat /\ y - 1 \in 0..(n - 1)
  BY <1>1
<1> HIDE DEF n, m
<1>3. k \in 0..(m * n - 1) /\ k \div n = x - 1 /\ k % n = y - 1
  BY <1>1, <1>2, RowAndColumn, WithinRows
<1> HIDE DEF k
<1>4. k + 1 \in 1..(m * n) /\ (k + 1) - 1 = k
  BY <1>1, <1>3
<1>5. Smaller(MaxChecks, m * n) = m * n
  BY <1>1, Sizes DEF Smaller
<1>6. Product(us)[k + 1] = <<us[(((k + 1) - 1) \div n) + 1], Groups[(((k + 1) - 1) % n) + 1]>>
  BY <1>4 DEF Product, n, m
<1>7. Product(us)[k + 1] = <<us[x], Groups[y]>>
  BY <1>1, <1>3, <1>4, <1>6
<1> QED
  BY <1>4, <1>5, <1>7 DEF TakePairs, n, m

-----------------------------------------------------------------------------
LEMMA Added ==
  ASSUME NEW s \in Seq(Users), Distinct(s), NEW u \in Users, \A i \in DOMAIN s : s[i] # u
  PROVE  <<u>> \o s \in Seq(Users) /\ Distinct(<<u>> \o s)
<1> DEFINE r == <<u>> \o s
<1>1. /\ r \in Seq(Users) /\ DOMAIN r = 1..(Len(s) + 1)
      /\ \A i \in DOMAIN r : r[i] = IF i = 1 THEN u ELSE s[i - 1]
  OBVIOUS
<1>2. ASSUME NEW i \in DOMAIN r, NEW j \in DOMAIN r, r[i] = r[j] PROVE i = j
  <2>1. i \in 1..(Len(s) + 1) /\ j \in 1..(Len(s) + 1) /\ Len(s) \in Nat /\ DOMAIN s = 1..Len(s)
    BY <1>1, <1>2
  <2>2. \A k \in 1..(Len(s) + 1) : k # 1 => k - 1 \in DOMAIN s
    BY <2>1
  <2>3. CASE i # 1 /\ j # 1
    <3>1. s[i - 1] = s[j - 1] /\ i - 1 \in DOMAIN s /\ j - 1 \in DOMAIN s
      BY <1>1, <1>2, <2>2, <2>3, <2>1
    <3>2. i - 1 = j - 1
      BY <3>1 DEF Distinct
    <3> QED
      BY <2>1, <3>2
  <2>4. CASE i = 1 \/ j = 1
    <3>1. \A k \in 1..(Len(s) + 1) : k # 1 => r[k] # u
      BY <1>1, <2>2
    <3>2. r[1] = u
      BY <1>1, <2>1
    <3> QED
      BY <1>2, <2>1, <2>4, <3>1, <3>2
  <2> QED
    BY <2>3, <2>4
<1> QED
  BY <1>1, <1>2 DEF Distinct

LEMMA Removed ==
  ASSUME NEW s \in Seq(Users), Distinct(s), NEW i \in DOMAIN s
  PROVE  LET r == SubSeq(s, 1, i - 1) \o SubSeq(s, i + 1, Len(s))
         IN  r \in Seq(Users) /\ Distinct(r)
<1> DEFINE a == SubSeq(s, 1, i - 1)
           b == SubSeq(s, i + 1, Len(s))
           r == a \o b
           n == Len(s)
<1>1. n \in Nat /\ i \in 1..n /\ DOMAIN s = 1..n
  OBVIOUS
<1>2. a \in Seq(Users) /\ Len(a) = i - 1 /\ \A k \in 1..(i - 1) : a[k] = s[k]
  BY <1>1
<1>3. b \in Seq(Users) /\ Len(b) = n - i /\ \A k \in 1..(n - i) : b[k] = s[k + i]
  BY <1>1
<1> HIDE DEF a, b
<1>4. /\ r \in Seq(Users) /\ Len(r) = Len(a) + Len(b)
      /\ \A k \in 1..(Len(a) + Len(b)) : r[k] = IF k <= Len(a) THEN a[k] ELSE b[k - Len(a)]
  BY <1>2, <1>3, ConcatProperties, Zenon
<1> HIDE DEF r
<1>5. Len(r) = n - 1 /\ DOMAIN r = 1..(n - 1) /\ Len(a) + Len(b) = n - 1
  BY <1>1, <1>2, <1>3, <1>4
<1>7. \A k \in 1..(n - 1) : r[k] = IF k < i THEN s[k] ELSE s[k + 1]
  <2> TAKE k \in 1..(n - 1)
  <2>1. r[k] = IF k <= Len(a) THEN a[k] ELSE b[k - Len(a)]
    BY <1>4, <1>5
  <2>2. CASE k < i
    <3>1. k \in 1..(i - 1) /\ k <= Len(a)
      BY <1>1, <1>2, <2>2
    <3> QED
      BY <1>2, <2>1, <2>2, <3>1
  <2>3. CASE ~(k < i)
    <3>1. /\ ~(k <= Len(a)) /\ Len(a) = i - 1
          /\ k - (i - 1) \in 1..(n - i) /\ (k - (i - 1)) + i = k + 1
      BY <1>1, <1>2, <2>3
    <3>2. b[k - (i - 1)] = s[k + 1]
      BY <1>3, <3>1
    <3> QED
      BY <2>1, <2>3, <3>1, <3>2
  <2> QED
    BY <2>2, <2>3
<1>6. \A k, l \in 1..(n - 1) : r[k] = r[l] => k = l
  BY <1>1, <1>7 DEF Distinct
<1> QED
  BY <1>4, <1>5, <1>6 DEF Distinct, r, a, b

(* A ban is issued or lifted: no run is undisturbed, and no report stands. *)
LEMMA Disturbed ==
  ASSUME IInv, banned' \in Seq(Users), Distinct(banned'),
         standing' \in [Pairs -> {"member", "left", "banned"}],
         undisturbed' = {}, allClear' = FALSE, UNCHANGED <<sweep, sched>>
  PROVE  IInv'
<1>1. Distinct(banned)'
  BY DEF Distinct
<1> QED
  BY <1>1 DEF IInv, Typed, ReportIsTrue

LEMMA IssuedStep ==
  ASSUME IInv, NEW u \in Users, BanIssued(u)
  PROVE  IInv'
<1>1. banned' \in Seq(Users) /\ Distinct(banned')
  <2>1. \A i \in DOMAIN banned : banned[i] # u
    BY DEF BanIssued, BannedUsers
  <2> QED
    BY <2>1, Added DEF BanIssued, IInv, Typed
<1>2. standing' \in [Pairs -> {"member", "left", "banned"}]
  BY DEF BanIssued, IInv, Typed
<1> QED
  BY <1>1, <1>2, Disturbed DEF BanIssued

LEMMA LiftedStep ==
  ASSUME IInv, NEW u \in Users, BanLifted(u)
  PROVE  IInv'
<1>1. banned' \in Seq(Users) /\ Distinct(banned')
  BY Removed DEF BanLifted, IInv, Typed
<1>2. standing' \in [Pairs -> {"member", "left", "banned"}]
  BY DEF BanLifted, IInv, Typed
<1> QED
  BY <1>1, <1>2, Disturbed DEF BanLifted

LEMMA SweepsStep ==
  ASSUME IInv, NEW t \in Triggers, Sweeps(t)
  PROVE  IInv'
<1> DEFINE run == [running |-> TRUE, todo |-> TakePairs(banned), failed |-> FALSE,
                   truncated |-> Len(banned) * Len(Groups) > MaxChecks]
<1>1. /\ sched = "up" /\ sweep' = [sweep EXCEPT ![t] = run] /\ undisturbed' = undisturbed \cup {t}
      /\ UNCHANGED <<banned, standing, sched, allClear>>
  BY DEF Sweeps
<1>2. run \in Runs /\ run.running /\ run.todo = TakePairs(banned)
      /\ run.truncated = (Len(banned) * Len(Groups) > MaxChecks)
  BY TakesPairs DEF IInv, Typed, Runs
<1> HIDE DEF run
<1>3. \A v \in Triggers : sweep'[v] = IF v = t THEN run ELSE sweep[v]
  BY <1>1 DEF IInv, Typed
<1>4. Typed'
  BY <1>1, <1>2, <1>3 DEF IInv, Typed
<1>5. (\A p : Miss(p)' <=> Miss(p)) /\ ReportIsTrue'
  BY <1>1 DEF IInv, ReportIsTrue, Miss, BannedUsers
<1>6. ASSUME NEW v \in undisturbed' PROVE Ahead(v)'
  <2>1. CASE v = t
    <3>1. ASSUME ~run.truncated, NEW p \in Enforceable, Miss(p) PROVE p \in run.todo
      <4>1. p = <<p[1], p[2]>> /\ p[2] \in GroupSet
        BY DEF Enforceable, Pairs
      <4>2. PICK x \in DOMAIN banned : banned[x] = p[1]
        BY <3>1 DEF Miss, BannedUsers
      <4>3. PICK y \in DOMAIN Groups : Groups[y] = p[2]
        BY <4>1 DEF GroupSet
      <4>4. ~(Len(banned) * Len(Groups) > MaxChecks)
        BY <1>2, <3>1
      <4>5. <<banned[x], Groups[y]>> \in TakePairs(banned)
        BY <4>4, TakesAll DEF IInv, Typed
      <4> QED
        BY <1>2, <4>1, <4>2, <4>3, <4>5
    <3> QED
      BY <1>1, <1>3, <2>1, <3>1 DEF Ahead, Miss, BannedUsers
  <2>2. CASE v # t
    <3>1. v \in undisturbed /\ sweep'[v] = sweep[v]
      BY <1>1, <1>3, <2>2 DEF IInv, Typed
    <3> QED
      BY <1>1, <3>1 DEF IInv, Ahead, Miss, BannedUsers
  <2> QED
    BY <2>1, <2>2
<1> QED
  BY <1>4, <1>5, <1>6 DEF IInv

(* A pair is done with: it is not to be enforced, or now is, or failed.    *)
LEMMA CheckedStep ==
  ASSUME IInv, NEW t \in Triggers, NEW p \in Pairs, NEW failure \in BOOLEAN,
         Checked(t, p, failure), p \in sweep[t].todo,
         standing' \in {standing, [standing EXCEPT ![p] = "banned"]},
         failure \/ standing'[p] # "member" \/ p \notin Enforceable,
         UNCHANGED <<banned, sched, history>>
  PROVE  IInv'
<1> DEFINE run == [sweep[t] EXCEPT !.todo = sweep[t].todo \ {p},
                                   !.failed = sweep[t].failed \/ failure]
<1>1. sweep' = [sweep EXCEPT ![t] = run]
  BY DEF Checked, IInv, Typed
<1>2. sweep[t] \in Runs
  BY DEF IInv, Typed
<1>3. /\ run \in Runs /\ run.running = sweep[t].running /\ run.truncated = sweep[t].truncated
      /\ run.todo = sweep[t].todo \ {p} /\ run.failed = (sweep[t].failed \/ failure)
  BY <1>2 DEF Runs
<1> HIDE DEF run
<1>4. \A v \in Triggers : sweep'[v] = IF v = t THEN run ELSE sweep[v]
  BY <1>1 DEF IInv, Typed
<1>5. /\ UNCHANGED <<undisturbed, allClear>>
      /\ \A q \in Pairs : standing'[q] = standing[q] \/ (q = p /\ standing'[q] = "banned")
  BY DEF history, IInv, Typed
<1>6. Typed'
  <2>1. sweep' \in [Triggers -> Runs]
    BY <1>1, <1>3 DEF IInv, Typed
  <2>2. standing' \in [Pairs -> {"member", "left", "banned"}]
    BY DEF IInv, Typed
  <2>3. Distinct(banned)'
    BY DEF IInv, Typed, Distinct
  <2>4. \A v \in Triggers : sweep'[v].running = sweep[v].running
    BY <1>3, <1>4
  <2> QED
    BY <1>5, <2>1, <2>2, <2>3, <2>4 DEF IInv, Typed
<1>7. \A q \in Enforceable : Miss(q)' => Miss(q)
  BY <1>5 DEF Enforceable, Miss, BannedUsers
<1>8. ReportIsTrue'
  BY <1>5, <1>7 DEF IInv, ReportIsTrue
<1>9. ASSUME NEW v \in undisturbed' PROVE Ahead(v)'
  <2>1. v \in Triggers /\ Ahead(v)
    BY <1>5 DEF IInv, Typed
  <2>2. CASE v = t
    <3>1. failure \/ ~(p \in Enforceable /\ Miss(p)')
      BY DEF Miss
    <3>2. ~(run.truncated \/ run.failed) => ~(sweep[t].truncated \/ sweep[t].failed) /\ ~failure
      BY <1>3
    <3> QED
      BY <1>3, <1>4, <1>7, <2>1, <2>2, <3>1, <3>2 DEF Ahead
  <2>3. CASE v # t
    BY <1>4, <1>7, <2>1, <2>3 DEF Ahead
  <2> QED
    BY <2>2, <2>3
<1> QED
  BY <1>6, <1>8, <1>9 DEF IInv

LEMMA PairsStep ==
  ASSUME IInv, NEW t \in Triggers, NEW p \in Pairs, PairStep(t, p)
  PROVE  IInv'
<1>1. CASE Skips(t, p)
  BY <1>1, CheckedStep DEF Skips
<1>2. CASE Enforces(t, p)
  <2>1. standing'[p] # "member"
    BY <1>2 DEF Enforces, IInv, Typed
  <2> QED
    BY <1>2, <2>1, CheckedStep DEF Enforces
<1>3. CASE IsRefused(t, p)
  BY <1>3, CheckedStep DEF IsRefused, Enforceable
<1>4. CASE Fails(t, p)
  BY <1>4, CheckedStep DEF Fails
<1> QED
  BY <1>1, <1>2, <1>3, <1>4 DEF PairStep

LEMMA EndsStep ==
  ASSUME IInv, NEW t \in Triggers, Ends(t)
  PROVE  IInv'
<1>1. /\ sweep[t].todo = {} /\ sweep' = [sweep EXCEPT ![t] = NoRun]
      /\ undisturbed' = undisturbed \ {t}
      /\ allClear' = (allClear \/
           (t \in undisturbed /\ ~sweep[t].truncated /\ ~sweep[t].failed))
      /\ UNCHANGED <<banned, standing, sched>>
  BY DEF Ends
<1>2. NoRun \in Runs
  BY DEF NoRun, Runs
<1>3. \A v \in Triggers : sweep'[v] = IF v = t THEN NoRun ELSE sweep[v]
  BY <1>1 DEF IInv, Typed
<1>4. allClear' \in BOOLEAN
  BY <1>1
<1>5. ~NoRun.running
  BY DEF NoRun
<1>6. Typed'
  BY <1>1, <1>2, <1>3, <1>4, <1>5 DEF IInv, Typed
<1>7. \A p : Miss(p)' <=> Miss(p)
  BY <1>1 DEF Miss, BannedUsers
<1>8. ReportIsTrue'
  <2> SUFFICES ASSUME allClear', NEW p \in Enforceable PROVE ~Miss(p)
    BY <1>7 DEF ReportIsTrue
  <2>1. CASE allClear
    BY <2>1 DEF IInv, ReportIsTrue
  <2>2. CASE t \in undisturbed /\ ~sweep[t].truncated /\ ~sweep[t].failed
    BY <1>1, <2>2 DEF IInv, Ahead
  <2> QED
    BY <1>1, <2>1, <2>2
<1>9. ASSUME NEW v \in undisturbed' PROVE Ahead(v)'
  <2>1. v \in undisturbed /\ sweep'[v] = sweep[v] /\ Ahead(v)
    BY <1>1, <1>3 DEF IInv, Typed
  <2> QED
    BY <1>7, <2>1 DEF Ahead
<1> QED
  BY <1>6, <1>8, <1>9 DEF IInv

(* The scheduler comes up, or fails to; at a stop no run is left.          *)
LEMMA SchedulerStep ==
  ASSUME IInv, Boots \/ IsReady \/ StartFails \/ Stops
  PROVE  IInv'
<1>1. UNCHANGED <<banned, standing, allClear>>
  BY DEF Boots, IsReady, StartFails, Stops, history
<1>2. \A p : Miss(p)' <=> Miss(p)
  BY <1>1 DEF Miss, BannedUsers
<1>3. ReportIsTrue'
  BY <1>1, <1>2 DEF IInv, ReportIsTrue
<1>4. CASE Boots \/ IsReady \/ StartFails
  <2>1. /\ UNCHANGED <<sweep, undisturbed>> /\ sched' \in {"down", "starting", "up"}
        /\ sched # "up"
    BY <1>4 DEF Boots, IsReady, StartFails, history
  <2>2. Typed'
    BY <1>1, <2>1 DEF IInv, Typed
  <2>3. \A v \in undisturbed' : Ahead(v)'
    BY <1>2, <2>1 DEF IInv, Ahead
  <2> QED
    BY <1>3, <2>2, <2>3 DEF IInv
<1>5. CASE Stops
  <2>1. sweep' = [t \in Triggers |-> NoRun] /\ undisturbed' = {} /\ sched' = "down"
    BY <1>5 DEF Stops
  <2>2. NoRun \in Runs /\ ~NoRun.running
    BY DEF NoRun, Runs
  <2>3. Typed'
    BY <1>1, <2>1, <2>2 DEF IInv, Typed
  <2> QED
    BY <1>3, <2>1, <2>3 DEF IInv
<1> QED
  BY <1>4, <1>5

LEMMA Initially == Init => IInv
<1> SUFFICES ASSUME Init PROVE IInv
  OBVIOUS
<1>1. NoRun \in Runs /\ ~NoRun.running
  BY DEF NoRun, Runs
<1>2. <<>> \in Seq(Users) /\ Distinct(<<>>)
  BY DEF Distinct
<1> QED
  BY <1>1, <1>2 DEF Init, IInv, Typed, ReportIsTrue

LEMMA Inductive == IInv /\ [Next]_vars => IInv'
<1> SUFFICES ASSUME IInv, [Next]_vars PROVE IInv'
  OBVIOUS
<1>1. ASSUME NEW u \in Users, BanIssued(u) \/ BanLifted(u) PROVE IInv'
  BY <1>1, IssuedStep, LiftedStep
<1>2. ASSUME NEW t \in Triggers, Commanded(t) \/ Ends(t) \/ \E p \in Pairs : PairStep(t, p)
      PROVE  IInv'
  BY <1>2, SweepsStep, EndsStep, PairsStep DEF Commanded
<1>3. CASE Fires
  BY <1>3, Sizes, SweepsStep DEF Fires
<1>4. CASE Boots \/ IsReady \/ StartFails \/ Stops
  BY <1>4, SchedulerStep
<1>5. CASE UNCHANGED vars
  BY <1>5 DEF vars, history, IInv, Typed, ReportIsTrue, Ahead, Miss, BannedUsers
<1> QED
  BY <1>1, <1>2, <1>3, <1>4, <1>5 DEF Next

LEMMA Holds == Spec => []IInv
  BY Initially, Inductive, PTL DEF Spec

(* The bans, the members and the runs keep their types, nobody is in the   *)
(* list of bans twice, and no run outlives the scheduler.                  *)
THEOREM TypeCorrect == Spec => []TypeOK
<1>1. IInv => TypeOK
  BY DEF IInv, Typed, TypeOK, Distinct, Runs
<1> QED
  BY <1>1, Holds, PTL

(* A run that reports neither a failure nor a cut has left no banned user  *)
(* where the bot may ban, whatever else ran beside it.                     *)
THEOREM ReportsAreTrue == Spec => []ReportIsTrue
<1>1. IInv => ReportIsTrue
  BY DEF IInv
<1> QED
  BY <1>1, Holds, PTL
-----------------------------------------------------------------------------
(* The connection of one group (Connection.tla), which makes it one of the *)
(* groups that a sweep goes through: the two modules share no variable,    *)
(* each is proved by itself.                                               *)

Updates == [id : Ids, was : Standings, is : Standings \cup {"migrated"}, nr : 1..Moves]
TaskRecords ==
    {r \in [pc : {"idle", "left", "ask", "persist", "add", "clear", "cancel", "go",
                  "disconnect", "leaveall", "prune", "migrate"},
            id : Ids, todo : SUBSET {"row", "pending", "leave", "moved", "movedRow"},
            put : {"none", "yes", "no"}, since : 0..Moves] :
       /\ r.put # "none" => r.pc \in {"idle", "left", "leaveall", "clear", "go"}
       /\ "row" \in r.todo => r.put = "none" /\ r.pc \in {"left", "leaveall", "migrate"}
       /\ "leave" \in r.todo => r.pc = "leaveall"
       /\ "moved" \in r.todo => r.pc = "migrate"
       /\ "movedRow" \in r.todo => "moved" \in r.todo}

GroupTypes ==
    /\ Moves \in Nat /\ MaxHandlers \in Nat
    /\ live \in Ids /\ bot \in Standings /\ moves \in 0..Moves /\ updates \subseteq Updates
RowTypes ==
    /\ row \in [Ids -> {"none", "inactive", "active"}]
    /\ pending \subseteq Ids /\ prompt \subseteq Ids
    /\ conn \in [Ids -> {"miss", "yes", "no"}]
HistoryTypes ==
    /\ told \subseteq Ids /\ failed \subseteq Ids /\ late \subseteq Ids /\ crossed \subseteq Ids
    /\ poisoned \in BOOLEAN /\ refused \subseteq Ids
TaskTypes == task \in [Tasks -> TaskRecords] /\ handlers \in 0..MaxHandlers
ConnectionTypes == GroupTypes /\ RowTypes /\ HistoryTypes /\ TaskTypes

Fresh(t) == task[t].since = moves

(* An update that is the last one tells how things are.                    *)
Clock ==
    /\ \A u \in updates :
         /\ u.nr <= moves
         /\ u.is = "migrated" => live = "super"
         /\ u.nr = moves =>
              /\ u.is = "out" => StandingIn(u.id) = "out"
              /\ u.is \in {"admin", "member"} => bot = u.is /\ u.id = live
              /\ u.is = "migrated" => bot # "out"
    /\ \A u, v \in updates : u.nr = v.nr => u = v

(* So does a handler that the bot has not moved under.                     *)
InTime(r) ==
    /\ r.since <= moves
    /\ r.pc = "migrate" => live = "super"
    /\ r.since = moves =>
         /\ r.pc \in {"left", "prune"} => StandingIn(r.id) = "out"
         /\ r.pc = "add" => StandingIn(r.id) # "out"
         /\ r.pc = "migrate" => bot # "out"
TaskClock == \A t \in Tasks : InTime(task[t])

(* Nothing speaks of the new id before there is one.                       *)
Unmigrated == live = "basic" =>
    /\ row["super"] = "none" /\ ~poisoned
    /\ \A t \in Tasks : task[t].id = "basic"
    /\ \A u \in updates : u.id = "basic"

WellFormed == ConnectionTypes /\ Clock /\ TaskClock /\ Unmigrated

(* A yes that is about to be put is right; a yes in the cache is, or is    *)
(* about to be overwritten.                                                *)
YesComing(t, id) == (task[t].id = id /\ task[t].put = "yes") \/ (id = "super" /\ "movedRow" \in task[t].todo)
NoComing(t, id) == (task[t].id = id /\ task[t].put = "no") \/ (id = "basic" /\ "movedRow" \in task[t].todo)
Answers(id) ==
    \/ id \in failed \cup crossed \/ poisoned
    \/ /\ row[id] # "active" => \A t \in Tasks : ~YesComing(t, id)
       /\ conn[id] = "yes" /\ row[id] # "active" => \E t \in Tasks : NoComing(t, id)
AnswerInv == \A id \in Ids : Answers(id)

(* The bot is in a group that was connected and not let go.                *)
Told(id) == id \in told => (row[id] = "active" /\ StandingIn(id) # "out") \/ id \in failed \cup late

(* A ghost has a handler, or an update, that will see to it.               *)
Coming(id) ==
    \/ \E u \in updates : (u.id = id /\ u.is = "out") \/ (id = "basic" /\ u.is = "migrated")
    \/ \E t \in Tasks : /\ "row" \in task[t].todo
                        /\ \/ task[t].pc = "left" /\ task[t].id = id
                           \/ task[t].pc = "migrate" /\ id = "basic"
Ghost(id) ==
    row[id] = "active" /\ StandingIn(id) = "out" => id \in failed \cup late \/ Coming(id)

MemberInv == \A id \in Ids : Told(id) /\ Ghost(id)

\* The basic group, its bot an administrator, and nothing to excuse it.
Clean == live = "basic" /\ bot = "admin" /\ "basic" \notin failed \cup late \cup crossed
Asking(t) == task[t].pc \in {"ask", "persist"} /\ Fresh(t)

(* A handler that asks is the only one, and there is no request yet.       *)
AskInv == Clean => \A t \in Tasks : Asking(t) =>
    /\ "basic" \notin pending
    /\ \A u \in updates : u.nr # moves
    /\ \A s \in Tasks : Asking(s) => s = t

\* A handler, or an update, that will connect the group, leave it or drop the request.
Serves(t) == task[t].pc \in {"add", "cancel", "go"} \/ "leave" \in task[t].todo
Served ==
    \/ \E t \in Tasks : Serves(t)
    \/ /\ "basic" \in pending
       /\ (\E t \in Tasks : task[t].pc = "clear") \/ (\E u \in updates : u.is = "admin")

(* A request whose prompt is gone, and was not removed by a tap that        *)
(* decided nothing, or one with a yes in the cache, is served.              *)
PromptInv ==
    /\ Clean /\ row["basic"] # "active" /\ "basic" \notin prompt \cup refused
    /\ "basic" \in pending \/ \E t \in Tasks : task[t].pc = "persist" /\ Fresh(t)
    => Served
YesInv ==
    /\ Clean /\ row["basic"] # "active" /\ conn["basic"] = "yes"
    /\ "basic" \in pending \/ \E t \in Tasks : Asking(t)
    => Served

EndInv == AskInv /\ PromptInv /\ YesInv
ConnectionIInv == WellFormed /\ AnswerInv /\ MemberInv /\ EndInv

-----------------------------------------------------------------------------
(* Types, and one handler's move. *)

LEMMA TypesSuffice == ConnectionTypes => ConnectionTypeOK
  BY DEF ConnectionTypes, GroupTypes, RowTypes, HistoryTypes, TaskTypes, TaskRecords, Updates,
         ConnectionTypeOK

TaskMoved(t) ==
    /\ task' \in [Tasks -> TaskRecords] /\ handlers' \in 0..MaxHandlers
    /\ \A s \in Tasks : s # t => task'[s] = task[s]

LEMMA IdleType ==
  /\ Moves \in Nat => Idle \in TaskRecords
  /\ Idle.pc = "idle" /\ Idle.id = "basic" /\ Idle.todo = {}
  /\ Idle.put = "none" /\ Idle.since = 0
  BY DEF Idle, TaskRecords, Ids

LEMMA BecomesMoves ==
  ASSUME ConnectionTypes, NEW t \in Tasks, NEW r \in TaskRecords, Becomes(t, r)
  PROVE  TaskMoved(t) /\ task'[t] = r
  BY DEF ConnectionTypes, TaskTypes, Becomes, TaskMoved

\* A handler begins.
Began(t, r, since) ==
    /\ TaskMoved(t) /\ task[t] = Idle
    /\ task'[t].pc = r.pc /\ task'[t].id = r.id /\ task'[t].todo = r.todo
    /\ task'[t].put = r.put /\ task'[t].since = since

LEMMA BeginMoves ==
  ASSUME ConnectionTypes, NEW t \in Tasks, NEW r \in TaskRecords, NEW since \in 0..Moves, Free(t),
         handlers' = handlers + 1,
         task' = [task EXCEPT ![t] = [r EXCEPT !.since = since]]
  PROVE  Began(t, r, since)
<1> DEFINE q == [r EXCEPT !.since = since]
<1>1. /\ q \in TaskRecords /\ q.pc = r.pc /\ q.id = r.id /\ q.todo = r.todo /\ q.put = r.put
      /\ q.since = since
  BY DEF TaskRecords
<1> HIDE DEF q
<1>2. task' = [task EXCEPT ![t] = q] /\ task \in [Tasks -> TaskRecords]
  BY DEF q, ConnectionTypes, TaskTypes
<1>3. task' \in [Tasks -> TaskRecords] /\ task'[t] = q /\ \A s \in Tasks : s # t => task'[s] = task[s]
  BY <1>1, <1>2
<1>4. handlers' \in 0..MaxHandlers /\ task[t] = Idle
  BY DEF ConnectionTypes, GroupTypes, TaskTypes, Free
<1> QED
  BY <1>1, <1>3, <1>4 DEF Began, TaskMoved

LEMMA StartsBegins ==
  ASSUME ConnectionTypes, NEW t \in Tasks, NEW r \in TaskRecords, Starts(t, r)
  PROVE  /\ r # Idle => Began(t, r, moves)
         /\ r = Idle => Began(t, r, 0)
<1>0. Moves \in Nat /\ moves \in 0..Moves /\ 0 \in 0..Moves
  BY DEF ConnectionTypes, GroupTypes
<1>1. CASE r # Idle
  <2>1. task' = [task EXCEPT ![t] = [r EXCEPT !.since = moves]] /\ Free(t) /\ handlers' = handlers + 1
    BY <1>1 DEF Starts
  <2> QED
    BY <1>0, <1>1, <2>1, BeginMoves
<1>2. CASE r = Idle
  <2>1. task' = [task EXCEPT ![t] = Idle] /\ Free(t) /\ handlers' = handlers + 1
    BY <1>2 DEF Starts
  <2>2. TaskMoved(t) /\ task'[t] = Idle /\ task[t] = Idle
    BY <1>0, <2>1, IdleType DEF Free, ConnectionTypes, GroupTypes, TaskTypes, TaskMoved
  <2> QED
    BY <1>2, <2>2, IdleType DEF Began
<1> QED
  BY <1>1, <1>2

LEMMA TakesBegins ==
  ASSUME ConnectionTypes, NEW t \in Tasks, NEW u, NEW r \in TaskRecords, Takes(t, u, r)
  PROVE  /\ u \in updates /\ u \in Updates /\ updates' = updates \ {u} /\ UNCHANGED <<live, bot, moves>>
         /\ r # Idle => Began(t, [r EXCEPT !.id = u.id], u.nr)
         /\ r = Idle => Began(t, r, 0)
<1>0. /\ Moves \in Nat /\ u \in updates /\ u \in Updates /\ updates' = updates \ {u}
      /\ Free(t) /\ handlers' = handlers + 1 /\ UNCHANGED <<live, bot, moves>>
  BY DEF ConnectionTypes, GroupTypes, Takes
<1>1. CASE r # Idle
  <2> DEFINE q == [r EXCEPT !.id = u.id]
  <2>1. q \in TaskRecords /\ u.nr \in 0..Moves
    BY <1>0 DEF TaskRecords, Updates
  <2>2. task' = [task EXCEPT ![t] = [r EXCEPT !.since = u.nr, !.id = u.id]]
    BY <1>1 DEF Takes
  <2>3. [r EXCEPT !.since = u.nr, !.id = u.id] = [q EXCEPT !.since = u.nr]
    BY DEF TaskRecords
  <2> HIDE DEF q
  <2>4. Began(t, q, u.nr)
    BY <1>0, <2>1, <2>2, <2>3, BeginMoves
  <2> QED
    BY <1>0, <1>1, <2>4 DEF q
<1>2. CASE r = Idle
  <2>1. task' = [task EXCEPT ![t] = Idle]
    BY <1>2 DEF Takes
  <2>2. TaskMoved(t) /\ task'[t] = Idle /\ task[t] = Idle
    BY <1>0, <2>1, IdleType DEF Free, ConnectionTypes, GroupTypes, TaskTypes, TaskMoved
  <2> QED
    BY <1>0, <1>2, <2>2, IdleType DEF Began
<1> QED
  BY <1>1, <1>2

-----------------------------------------------------------------------------
(* What a step leaves alone. *)

\* Excuses are never taken back.
HistoryGrows ==
    /\ failed \subseteq failed' /\ late \subseteq late' /\ crossed \subseteq crossed'
    /\ failed' \cup late' \cup crossed' \subseteq Ids
    /\ poisoned' \in BOOLEAN /\ (poisoned => poisoned')
    /\ refused' \subseteq Ids

LEMMA ClockStays ==
  ASSUME Clock, UNCHANGED <<live, bot, moves>>, updates' \subseteq updates
  PROVE  Clock'
  BY DEF Clock, StandingIn

LEMMA TaskClockStays ==
  ASSUME TaskClock, UNCHANGED <<live, bot, moves>>, NEW t \in Tasks, TaskMoved(t), InTime(task'[t])
  PROVE  TaskClock'
  BY DEF TaskClock, TaskMoved, InTime, StandingIn

LEMMA UnmigratedStays ==
  ASSUME Unmigrated, UNCHANGED <<live, poisoned>>, updates' \subseteq updates, row'["super"] = row["super"],
         NEW t \in Tasks, TaskMoved(t), task'[t].id \in {task[t].id, live}
  PROVE  Unmigrated'
  BY DEF Unmigrated, TaskMoved

LEMMA AnswersStay ==
  ASSUME NEW id \in Ids, Answers(id), row'[id] = row[id], conn'[id] = conn[id], HistoryGrows,
         NEW t \in Tasks, TaskMoved(t),
         YesComing(t, id)' => YesComing(t, id), NoComing(t, id) => NoComing(t, id)'
  PROVE  Answers(id)'
<1>1. ASSUME NEW s \in Tasks
      PROVE  (YesComing(s, id)' => YesComing(s, id)) /\ (NoComing(s, id) => NoComing(s, id)')
  BY DEF TaskMoved, YesComing, NoComing
<1> QED
  BY <1>1 DEF Answers, HistoryGrows

LEMMA MemberStays ==
  ASSUME NEW id \in Ids, Told(id), Ghost(id), UNCHANGED <<live, bot>>, row'[id] = row[id], HistoryGrows,
         id \in told' => id \in told, Coming(id) => Coming(id)'
  PROVE  Told(id)' /\ Ghost(id)'
  BY DEF Told, Ghost, StandingIn, HistoryGrows

LEMMA ComingStays ==
  ASSUME NEW id \in Ids, updates \subseteq updates', NEW t \in Tasks, TaskMoved(t),
         "row" \in task[t].todo => /\ "row" \in task'[t].todo
                                   /\ task'[t].pc = task[t].pc /\ task'[t].id = task[t].id,
         Coming(id)
  PROVE  Coming(id)'
<1>1. CASE \E u \in updates : (u.id = id /\ u.is = "out") \/ (id = "basic" /\ u.is = "migrated")
  BY <1>1 DEF Coming
<1>2. CASE \E s \in Tasks : /\ "row" \in task[s].todo
                            /\ \/ task[s].pc = "left" /\ task[s].id = id
                               \/ task[s].pc = "migrate" /\ id = "basic"
  BY <1>2 DEF Coming, TaskMoved
<1> QED
  BY <1>1, <1>2 DEF Coming

LEMMA EndExcused == ~Clean' => EndInv'
  BY DEF EndInv, AskInv, PromptInv, YesInv

\* A handler that can only keep the basic group from its end.
LEMMA EndStays ==
  ASSUME EndInv, UNCHANGED <<live, bot, moves, row, pending>>, HistoryGrows,
         updates' \subseteq updates, \A u \in updates : u.is = "admin" => u \in updates',
         prompt \cup refused \subseteq prompt' \cup refused',
         conn'["basic"] = "yes" => conn["basic"] = "yes" \/ row["basic"] = "active",
         NEW t \in Tasks, TaskMoved(t),
         Asking(t)' => Asking(t) /\ (task'[t].pc = "persist" => task[t].pc = "persist"),
         Serves(t) => Serves(t)', task[t].pc = "clear" => task'[t].pc = "clear"
  PROVE  EndInv'
<1>1. Clean' => Clean
  BY DEF Clean, HistoryGrows
<1>2. \A s \in Tasks : Asking(s)' => Asking(s) /\ (task'[s].pc = "persist" => task[s].pc = "persist")
  BY DEF TaskMoved, Asking, Fresh
<1>3. Served => Served'
  BY DEF Served, Serves, TaskMoved
<1>4. AskInv'
  BY <1>1, <1>2 DEF EndInv, AskInv
<1>5. PromptInv'
  BY <1>1, <1>2, <1>3 DEF EndInv, PromptInv, Asking, Fresh
<1>6. YesInv'
  BY <1>1, <1>2, <1>3 DEF EndInv, YesInv
<1> QED
  BY <1>4, <1>5, <1>6 DEF EndInv

\* A handler that serves the basic group.
LEMMA EndServed ==
  ASSUME EndInv, UNCHANGED <<live, bot, moves>>, HistoryGrows,
         updates' \subseteq updates, pending' \subseteq pending,
         NEW t \in Tasks, TaskMoved(t), Serves(t)', ~Asking(t)'
  PROVE  EndInv'
<1>1. Clean' => Clean
  BY DEF Clean, HistoryGrows
<1>2. \A s \in Tasks : Asking(s)' => Asking(s)
  BY DEF TaskMoved, Asking, Fresh
<1>3. Served'
  BY DEF Served
<1> QED
  BY <1>1, <1>2, <1>3 DEF EndInv, AskInv, PromptInv, YesInv

-----------------------------------------------------------------------------
(* Handlers that begin. *)

LEMMA BeginKeeps ==
  ASSUME ConnectionIInv, NEW t \in Tasks, NEW r \in TaskRecords, NEW since \in 0..moves, Began(t, r, since),
         UNCHANGED <<live, bot, moves, rows, conn, told, late, crossed, poisoned>>,
         failed \subseteq failed', failed' \subseteq Ids, prompt' \subseteq Ids,
         refused' \subseteq Ids,
         updates' \subseteq updates,
         r.put = "none", "movedRow" \notin r.todo,
         InTime([r EXCEPT !.since = since]), live = "basic" => r.id = "basic",
         \A id \in Ids : Coming(id) => Coming(id)',
         EndInv'
  PROVE  ConnectionIInv'
<1>0. ConnectionTypes /\ Clock /\ TaskClock /\ Unmigrated
  BY DEF ConnectionIInv, WellFormed
<1>1. TaskMoved(t) /\ task[t] = Idle /\ UNCHANGED <<row, pending>> /\ HistoryGrows
  BY <1>0 DEF Began, rows, HistoryGrows, ConnectionTypes, HistoryTypes
<1>2. ConnectionTypes'
  BY <1>0, <1>1 DEF ConnectionTypes, GroupTypes, RowTypes, HistoryTypes, TaskTypes, TaskMoved
<1>3. InTime(task'[t])
  <2>1. /\ task'[t].pc = [r EXCEPT !.since = since].pc /\ task'[t].id = [r EXCEPT !.since = since].id
        /\ task'[t].since = [r EXCEPT !.since = since].since
    BY DEF Began, TaskRecords
  <2> QED
    BY <2>1 DEF InTime
<1>4. Clock' /\ TaskClock'
  BY <1>0, <1>1, <1>3, ClockStays, TaskClockStays
<1>5. Unmigrated'
  BY <1>0, <1>1 DEF Unmigrated, TaskMoved, Began
<1>6. ASSUME NEW id \in Ids
      PROVE  Answers(id)' /\ Told(id)' /\ Ghost(id)'
  <2>1. (YesComing(t, id)' => YesComing(t, id)) /\ (NoComing(t, id) => NoComing(t, id)')
    BY <1>1, IdleType DEF YesComing, NoComing, Began
  <2>2. Answers(id) /\ Told(id) /\ Ghost(id)
    BY DEF ConnectionIInv, AnswerInv, MemberInv
  <2> QED
    BY <1>1, <2>1, <2>2, AnswersStay, MemberStays
<1> QED
  BY <1>2, <1>4, <1>5, <1>6 DEF ConnectionIInv, WellFormed, AnswerInv, MemberInv

LEMMA EndBegins ==
  ASSUME ConnectionIInv, NEW t \in Tasks, NEW r \in TaskRecords, NEW since \in 0..moves, Began(t, r, since),
         UNCHANGED <<live, bot, moves, rows, conn>>, HistoryGrows,
         updates' \subseteq updates, \A u \in updates : u.is = "admin" => u \in updates',
         prompt \cup refused \subseteq prompt' \cup refused', r.pc \notin {"ask", "persist"}
  PROVE  EndInv'
<1>1. TaskMoved(t) /\ ~Serves(t) /\ task[t].pc # "clear" /\ ~Asking(t)'
  BY IdleType DEF Began, Serves, Asking
<1>2. UNCHANGED <<row, pending>>
  BY DEF rows
<1> QED
  BY <1>1, <1>2, EndStays DEF ConnectionIInv

LEMMA EndBeginsServing ==
  ASSUME ConnectionIInv, NEW t \in Tasks, NEW r \in TaskRecords, NEW since \in 0..moves, Began(t, r, since),
         UNCHANGED <<live, bot, moves, rows, conn>>, HistoryGrows,
         updates' \subseteq updates, r.pc \in {"add", "cancel"} \/ "leave" \in r.todo,
         r.pc \notin {"ask", "persist"}
  PROVE  EndInv'
<1>1. TaskMoved(t) /\ ~Asking(t)' /\ Serves(t)'
  BY DEF Began, Serves, Asking
<1>2. UNCHANGED <<row, pending>>
  BY DEF rows
<1> QED
  BY <1>1, <1>2, EndServed DEF ConnectionIInv

LEMMA BeginComing ==
  ASSUME NEW t \in Tasks, NEW r, NEW since, Began(t, r, since), NEW id \in Ids, Coming(id),
         \A u \in updates \ updates' :
            /\ u.is = "out" => r.pc = "left" /\ "row" \in r.todo /\ r.id = u.id
            /\ u.is = "migrated" => r.pc = "migrate" /\ "row" \in r.todo
  PROVE  Coming(id)'
<1>1. CASE \E u \in updates : (u.id = id /\ u.is = "out") \/ (id = "basic" /\ u.is = "migrated")
  <2>1. PICK u \in updates : (u.id = id /\ u.is = "out") \/ (id = "basic" /\ u.is = "migrated")
    BY <1>1
  <2>2. CASE u \in updates'
    BY <2>1, <2>2 DEF Coming
  <2>3. CASE u \notin updates'
    BY <2>1, <2>3 DEF Coming, Began
  <2> QED
    BY <2>2, <2>3
<1>2. CASE \E s \in Tasks : /\ "row" \in task[s].todo
                            /\ \/ task[s].pc = "left" /\ task[s].id = id
                               \/ task[s].pc = "migrate" /\ id = "basic"
  <2>1. PICK s \in Tasks : /\ "row" \in task[s].todo
                           /\ \/ task[s].pc = "left" /\ task[s].id = id
                              \/ task[s].pc = "migrate" /\ id = "basic"
    BY <1>2
  <2>2. s # t
    BY <2>1, IdleType DEF Began
  <2> QED
    BY <2>1, <2>2 DEF Coming, Began, TaskMoved
<1> QED
  BY <1>1, <1>2 DEF Coming

\* What is known of an update that is taken up.
LEMMA TakenType ==
  ASSUME ConnectionIInv, NEW u \in updates
  PROVE  /\ u \in Updates /\ u.nr \in 0..moves /\ u.id \in Ids
         /\ live = "basic" => u.id = "basic"
         /\ u.is = "migrated" => live = "super"
         /\ u.nr = moves => /\ u.is = "out" => StandingIn(u.id) = "out"
                            /\ u.is \in {"admin", "member"} => bot = u.is /\ u.id = live
                            /\ u.is = "migrated" => bot # "out"
                            /\ \A v \in updates : v.nr = moves => v = u
<1>1. ConnectionTypes /\ Clock /\ Unmigrated /\ moves \in Nat /\ u \in Updates
  BY DEF ConnectionIInv, WellFormed, ConnectionTypes, GroupTypes
<1> QED
  BY <1>1 DEF Updates, Clock, Unmigrated

LEMMA BotLeftKeeps ==
  ASSUME ConnectionIInv, NEW t \in Tasks, NEW u \in updates, BotLeft(t, u)
  PROVE  ConnectionIInv'
<1> DEFINE r == [Idle EXCEPT !.pc = "left", !.todo = {"row", "pending"}]
           q == [r EXCEPT !.id = u.id]
<1>0. ConnectionTypes /\ Moves \in Nat
  BY DEF ConnectionIInv, WellFormed, ConnectionTypes, GroupTypes
<1>a. r \in TaskRecords /\ r.pc = "left" /\ r.todo = {"row", "pending"} /\ r.put = "none"
  BY <1>0, IdleType DEF TaskRecords
<1>1. /\ r \in TaskRecords /\ q \in TaskRecords /\ r # Idle
      /\ q.pc = "left" /\ q.id = u.id /\ q.todo = {"row", "pending"} /\ q.put = "none"
  <2> HIDE DEF r
  <2> QED
    BY <1>a, TakenType, IdleType DEF TaskRecords
<1>2. Takes(t, u, r) /\ UNCHANGED <<rows, prompt, conn, historyVars>> /\ u.is = "out"
  BY DEF BotLeft
<1>3. Began(t, q, u.nr) /\ updates' = updates \ {u} /\ UNCHANGED <<live, bot, moves>>
  BY <1>0, <1>1, <1>2, TakesBegins
<1>4. InTime([q EXCEPT !.since = u.nr])
  BY <1>0, <1>1, <1>2, TakenType DEF InTime, TaskRecords, ConnectionTypes, GroupTypes
<1> HIDE DEF r, q
<1>5. /\ HistoryGrows /\ failed' \subseteq Ids /\ prompt' \subseteq Ids /\ refused' \subseteq Ids
      /\ prompt \cup refused \subseteq prompt' \cup refused'
  BY <1>0, <1>2 DEF HistoryGrows, historyVars, ConnectionTypes, HistoryTypes, RowTypes
<1>6. EndInv'
  BY <1>1, <1>2, <1>3, <1>5, TakenType, EndBegins
<1>7. \A id \in Ids : Coming(id) => Coming(id)'
  BY <1>1, <1>2, <1>3, BeginComing
<1> QED
  BY <1>1, <1>2, <1>3, <1>4, <1>5, <1>6, <1>7, TakenType, BeginKeeps DEF historyVars

\* A handler that ends as soon as it has begun.
LEMMA IdleInTime ==
  ASSUME ConnectionIInv
  PROVE  Idle \in TaskRecords /\ 0 \in 0..moves /\ InTime([Idle EXCEPT !.since = 0])
<1>1. Moves \in Nat /\ moves \in Nat
  BY DEF ConnectionIInv, WellFormed, ConnectionTypes, GroupTypes
<1>2. [Idle EXCEPT !.since = 0].pc = "idle" /\ [Idle EXCEPT !.since = 0].since = 0
  BY <1>1, IdleType DEF TaskRecords
<1> QED
  BY <1>1, <1>2, IdleType DEF InTime

LEMMA BotDemotedKeeps ==
  ASSUME ConnectionIInv, NEW t \in Tasks, NEW u \in updates, BotDemoted(t, u)
  PROVE  ConnectionIInv'
<1>0. ConnectionTypes
  BY DEF ConnectionIInv, WellFormed
<1>1. Takes(t, u, Idle) /\ UNCHANGED <<rows, prompt, conn, historyVars>> /\ u.is = "member"
  BY DEF BotDemoted
<1>2. Began(t, Idle, 0) /\ updates' = updates \ {u} /\ UNCHANGED <<live, bot, moves>>
  BY <1>0, <1>1, IdleInTime, TakesBegins
<1>3. /\ HistoryGrows /\ failed' \subseteq Ids /\ prompt' \subseteq Ids /\ refused' \subseteq Ids
      /\ prompt \cup refused \subseteq prompt' \cup refused'
  BY <1>0, <1>1 DEF HistoryGrows, historyVars, ConnectionTypes, HistoryTypes, RowTypes
<1>4. EndInv'
  BY <1>1, <1>2, <1>3, IdleInTime, IdleType, EndBegins
<1>5. \A id \in Ids : Coming(id) => Coming(id)'
  BY <1>1, <1>2, BeginComing
<1> QED
  BY <1>1, <1>2, <1>3, <1>4, <1>5, IdleInTime, IdleType, BeginKeeps DEF historyVars

LEMMA MigrationStartsKeeps ==
  ASSUME ConnectionIInv, NEW t \in Tasks, NEW u \in updates, MigrationStarts(t, u)
  PROVE  ConnectionIInv'
<1> DEFINE r == [Idle EXCEPT !.pc = "migrate", !.todo = {"row", "pending"}]
           q == [r EXCEPT !.id = u.id]
<1>0. ConnectionTypes /\ Moves \in Nat
  BY DEF ConnectionIInv, WellFormed, ConnectionTypes, GroupTypes
<1>1. r \in TaskRecords /\ r.pc = "migrate" /\ r.todo = {"row", "pending"} /\ r.put = "none"
  BY <1>0, IdleType DEF TaskRecords
<1>2. Takes(t, u, r) /\ UNCHANGED <<rows, prompt, conn, historyVars>> /\ u.is = "migrated"
  BY DEF MigrationStarts
<1> HIDE DEF r
<1>3. /\ q \in TaskRecords /\ r # Idle
      /\ q.pc = "migrate" /\ q.id = u.id /\ q.todo = {"row", "pending"} /\ q.put = "none"
  BY <1>1, TakenType, IdleType DEF TaskRecords
<1>4. Began(t, q, u.nr) /\ updates' = updates \ {u} /\ UNCHANGED <<live, bot, moves>>
  BY <1>0, <1>1, <1>2, <1>3, TakesBegins
<1>5. InTime([q EXCEPT !.since = u.nr])
  BY <1>0, <1>2, <1>3, TakenType DEF InTime, TaskRecords, ConnectionTypes, GroupTypes
<1> HIDE DEF q
<1>6. /\ HistoryGrows /\ failed' \subseteq Ids /\ prompt' \subseteq Ids /\ refused' \subseteq Ids
      /\ prompt \cup refused \subseteq prompt' \cup refused'
  BY <1>0, <1>2 DEF HistoryGrows, historyVars, ConnectionTypes, HistoryTypes, RowTypes
<1>7. EndInv'
  BY <1>2, <1>3, <1>4, <1>6, TakenType, EndBegins
<1>8. \A id \in Ids : Coming(id) => Coming(id)'
  BY <1>2, <1>3, <1>4, BeginComing
<1> QED
  BY <1>2, <1>3, <1>4, <1>5, <1>6, <1>7, <1>8, TakenType, BeginKeeps DEF historyVars

\* A handler that begins without an update.
LEMMA StartKeeps ==
  ASSUME ConnectionIInv, NEW t \in Tasks, NEW r \in TaskRecords, Starts(t, r), r # Idle,
         UNCHANGED <<group, rows, conn, told, late, crossed, poisoned, refused>>,
         failed \subseteq failed', failed' \subseteq Ids, prompt' \subseteq Ids,
         r.put = "none", "movedRow" \notin r.todo, live = "basic" => r.id = "basic",
         r.pc # "migrate", r.pc \in {"left", "prune"} => StandingIn(r.id) = "out",
         r.pc = "add" => StandingIn(r.id) # "out",
         \/ ~Clean'
         \/ r.pc \notin {"ask", "persist"} /\ prompt' = prompt
         \/ r.pc \in {"add", "cancel"}
  PROVE  ConnectionIInv'
<1>0. ConnectionTypes /\ moves \in Nat /\ UNCHANGED <<live, bot, moves, updates>>
  BY DEF ConnectionIInv, WellFormed, ConnectionTypes, GroupTypes, group
<1>1. Began(t, r, moves)
  BY <1>0, StartsBegins
<1>2. HistoryGrows /\ refused' \subseteq Ids
  BY <1>0 DEF HistoryGrows, ConnectionTypes, HistoryTypes
<1>3. InTime([r EXCEPT !.since = moves])
  <2> DEFINE q == [r EXCEPT !.since = moves]
  <2>1. q.pc = r.pc /\ q.id = r.id /\ q.since = moves
    BY DEF TaskRecords
  <2> HIDE DEF q
  <2>2. InTime(q)
    BY <1>0, <2>1 DEF InTime
  <2> QED
    BY <2>2 DEF q
<1>4. EndInv'
  BY <1>0, <1>1, <1>2, EndExcused, EndBegins, EndBeginsServing
<1>5. \A id \in Ids : Coming(id) => Coming(id)'
  BY <1>0, <1>1, BeginComing
<1> QED
  BY <1>0, <1>1, <1>2, <1>3, <1>4, <1>5, BeginKeeps

LEMMA CommandsKeep ==
  ASSUME ConnectionIInv, NEW t \in Tasks,
         \/ TapCancel(t) \/ ConnectStarts(t) \/ DisconnectStarts(t)
         \/ \E id \in Ids : RmtcStarts(t, id) \/ LeaveallStarts(t, id) \/ CleanupStarts(t, id)
  PROVE  ConnectionIInv'
<1>0. /\ ConnectionTypes /\ Moves \in Nat /\ live \in Ids /\ StandingIn(live) = bot
      /\ failed \subseteq Ids /\ prompt \subseteq Ids
      /\ \A id \in Ids : live = "basic" /\ (id = live \/ row[id] # "none") => id = "basic"
  BY DEF ConnectionIInv, WellFormed, ConnectionTypes, GroupTypes, RowTypes, HistoryTypes,
         StandingIn, Unmigrated, Ids
<1>1. ASSUME NEW pc \in {"cancel", "add", "disconnect", "prune"}, NEW id \in Ids,
             Starts(t, [Idle EXCEPT !.pc = pc, !.id = id]),
             UNCHANGED <<group, rows, prompt, conn, historyVars>>, live = "basic" => id = "basic",
             pc = "prune" => StandingIn(id) = "out", pc = "add" => StandingIn(id) # "out"
      PROVE  ConnectionIInv'
  <2> DEFINE r == [Idle EXCEPT !.pc = pc, !.id = id]
  <2>1. r \in TaskRecords /\ r.pc = pc /\ r.id = id /\ r.todo = {} /\ r.put = "none"
    BY <1>0, IdleType DEF TaskRecords
  <2>2. Starts(t, r)
    BY <1>1
  <2> HIDE DEF r
  <2>3. r # Idle
    BY <2>1, IdleType
  <2> QED
    BY <1>0, <1>1, <2>1, <2>2, <2>3, StartKeeps DEF historyVars
<1>2. CASE TapCancel(t)
  BY <1>0, <1>1, <1>2 DEF TapCancel
<1>3. CASE ConnectStarts(t)
  BY <1>0, <1>1, <1>3 DEF ConnectStarts
<1>4. CASE DisconnectStarts(t)
  BY <1>0, <1>1, <1>4 DEF DisconnectStarts
<1>5. ASSUME NEW id \in Ids, RmtcStarts(t, id) \/ CleanupStarts(t, id)
      PROVE  ConnectionIInv'
  BY <1>0, <1>1, <1>5 DEF RmtcStarts, CleanupStarts
<1>6. ASSUME NEW id \in Ids, LeaveallStarts(t, id)
      PROVE  ConnectionIInv'
  <2> DEFINE r == [Idle EXCEPT !.pc = "leaveall", !.id = id, !.todo = {"row", "leave"}]
  <2>1. /\ r \in TaskRecords /\ r.pc = "leaveall" /\ r.id = id /\ r.todo = {"row", "leave"}
        /\ r.put = "none"
    BY <1>0, IdleType DEF TaskRecords
  <2>2. Starts(t, r) /\ row[id] # "none" /\ UNCHANGED <<group, rows, prompt, conn, historyVars>>
    BY <1>6 DEF LeaveallStarts
  <2> HIDE DEF r
  <2>3. r # Idle
    BY <2>1, IdleType
  <2> QED
    BY <1>0, <2>1, <2>2, <2>3, StartKeeps DEF historyVars
<1> QED
  BY <1>2, <1>3, <1>4, <1>5, <1>6

LEMMA TapRefusedKeeps ==
  ASSUME ConnectionIInv, NEW t \in Tasks, TapRefused(t)
  PROVE  ConnectionIInv'
<1>0. ConnectionTypes /\ moves \in Nat /\ UNCHANGED <<live, bot, moves, updates>>
  BY DEF ConnectionIInv, WellFormed, ConnectionTypes, GroupTypes, TapRefused, group
<1>1. /\ Starts(t, Idle) /\ prompt' = prompt \ {live} /\ refused' = refused \cup {live}
      /\ UNCHANGED <<rows, conn, told, failed, late, crossed, poisoned>>
  BY DEF TapRefused
<1>2. Began(t, Idle, 0) /\ 0 \in 0..moves /\ Idle \in TaskRecords /\ Idle.pc = "idle"
  BY <1>0, <1>1, IdleInTime, IdleType, StartsBegins
<1>3. refused' \subseteq Ids /\ prompt' \subseteq Ids /\ failed' \subseteq Ids /\ HistoryGrows
  BY <1>0, <1>1 DEF HistoryGrows, ConnectionTypes, HistoryTypes, GroupTypes, RowTypes
<1>4. prompt \cup refused \subseteq prompt' \cup refused'
  BY <1>1
<1>5. EndInv'
  BY <1>0, <1>1, <1>2, <1>3, <1>4, EndBegins
<1>6. \A id \in Ids : Coming(id) => Coming(id)'
  BY <1>0, <1>2, BeginComing
<1> QED
  BY <1>0, <1>1, <1>2, <1>3, <1>5, <1>6, IdleInTime, IdleType, BeginKeeps

\* The tap finds the group connected, or the bot gone.
LEMMA TapFindsEnd ==
  ASSUME ConnectionIInv, NEW t \in Tasks, TapConnect(t), Starts(t, Idle),
         bot = "out" \/ (bot = "admin" /\ Connected(live))
  PROVE  EndInv'
<1>0. /\ UNCHANGED <<live, bot, moves, updates, row, pending, conn, failed, late, crossed, refused>>
      /\ ConnectionTypes /\ EndInv
  BY DEF ConnectionIInv, WellFormed, TapConnect, group, rows, historyVars
<1>1. TaskMoved(t) /\ ~Serves(t) /\ ~Asking(t)' /\ task[t].pc # "clear"
  BY <1>0, IdleInTime, IdleType, StartsBegins DEF Began, Serves, Asking
<1>2. Clean' => Clean
  BY <1>0 DEF Clean
<1>3. \A s \in Tasks : Asking(s)' => Asking(s) /\ task'[s].pc = task[s].pc
  BY <1>0, <1>1 DEF TaskMoved, Asking, Fresh
<1>4. Served => Served'
  BY <1>0, <1>1 DEF Served, Serves, TaskMoved
<1>5. AskInv'
  BY <1>0, <1>2, <1>3 DEF EndInv, AskInv
<1>6. Clean /\ row["basic"] # "active" => conn["basic"] = "yes"
  BY <1>0 DEF Clean, Connected, ConnectionTypes, RowTypes, Ids
<1>7. YesInv'
  BY <1>0, <1>2, <1>3, <1>4 DEF EndInv, YesInv
<1>8. PromptInv'
  <2> SUFFICES ASSUME Clean', row'["basic"] # "active",
                      "basic" \in pending' \/ \E s \in Tasks : task'[s].pc = "persist" /\ Fresh(s)'
               PROVE  Served'
    BY DEF PromptInv
  <2>1. "basic" \in pending \/ \E s \in Tasks : Asking(s)
    BY <1>0, <1>3 DEF Asking
  <2> QED
    BY <1>0, <1>2, <1>4, <1>6, <2>1 DEF EndInv, YesInv
<1> QED
  BY <1>5, <1>7, <1>8 DEF EndInv

LEMMA TapConnectKeeps ==
  ASSUME ConnectionIInv, NEW t \in Tasks, TapConnect(t)
  PROVE  ConnectionIInv'
<1>0. /\ ConnectionTypes /\ moves \in Nat /\ UNCHANGED <<live, bot, moves, updates>>
      /\ UNCHANGED <<group, rows, conn, historyVars>>
      /\ live \in Ids /\ StandingIn(live) = bot /\ prompt' \subseteq Ids /\ failed \subseteq Ids
      /\ refused' \subseteq Ids
  BY DEF ConnectionIInv, WellFormed, ConnectionTypes, GroupTypes, TapConnect, group,
         StandingIn, RowTypes, HistoryTypes, historyVars
<1> DEFINE r(pc) == [Idle EXCEPT !.pc = pc, !.id = live]
<1>1. ASSUME NEW pc \in {"persist", "add"}, Starts(t, r(pc)), pc = "persist" => ~Clean',
             pc = "add" => bot # "out"
      PROVE  ConnectionIInv'
  <2> DEFINE q == r(pc)
  <2>1. q \in TaskRecords /\ q.pc = pc /\ q.id = live /\ q.todo = {} /\ q.put = "none"
    BY <1>0, IdleType, IdleInTime DEF TaskRecords
  <2>2. Starts(t, q)
    BY <1>1
  <2> HIDE DEF q
  <2>3. q # Idle
    BY <2>1, IdleType
  <2> QED
    BY <1>0, <1>1, <2>1, <2>2, <2>3, StartKeeps DEF historyVars
<1>2. CASE bot = "member"
  <2>1. Starts(t, r("persist")) /\ ~Clean'
    BY <1>0, <1>2 DEF TapConnect, Clean
  <2> HIDE DEF r
  <2> QED
    BY <1>1, <2>1
<1>3. CASE bot = "admin" /\ ~Connected(live)
  <2>1. Starts(t, r("add"))
    BY <1>3 DEF TapConnect
  <2> HIDE DEF r
  <2> QED
    BY <1>1, <1>3, <2>1
<1>4. CASE bot # "member" /\ ~(bot = "admin" /\ ~Connected(live))
  <2>1. Starts(t, Idle)
    BY <1>4 DEF TapConnect
  <2>2. EndInv'
    BY <1>0, <1>4, <2>1, TapFindsEnd DEF ConnectionTypes, GroupTypes, Standings
  <2>3. Began(t, Idle, 0)
    BY <1>0, <2>1, IdleInTime, StartsBegins
  <2>4. \A id \in Ids : Coming(id) => Coming(id)'
    BY <1>0, <2>3, BeginComing
  <2> QED
    BY <1>0, <2>2, <2>3, <2>4, IdleInTime, IdleType, BeginKeeps DEF historyVars
<1> QED
  BY <1>2, <1>3, <1>4

\* An update finds the group connected, or a request that it cannot accept.
LEMMA AddedFindsEnd ==
  ASSUME ConnectionIInv, NEW t \in Tasks, NEW u \in updates, NEW r \in TaskRecords, NEW since \in 0..moves,
         Began(t, r, since), UNCHANGED <<live, bot, moves, rows, prompt, conn, historyVars>>,
         updates' = updates \ {u}, u.is # "admin" \/ u.id \notin pending, r.pc = "idle"
  PROVE  EndInv'
<1>0. UNCHANGED <<row, pending, failed, late, crossed, refused>> /\ ConnectionTypes /\ EndInv
  BY DEF ConnectionIInv, WellFormed, rows, historyVars
<1>1. TaskMoved(t) /\ ~Serves(t) /\ ~Asking(t)' /\ task[t].pc # "clear"
  BY IdleType DEF Began, Serves, Asking
<1>2. Clean' => Clean
  BY <1>0 DEF Clean
<1>3. \A s \in Tasks : Asking(s)' => Asking(s) /\ task'[s].pc = task[s].pc
  BY <1>1 DEF TaskMoved, Asking, Fresh
<1>4. Clean /\ Served => Served'
  <2> SUFFICES ASSUME Clean, Served PROVE Served'
    OBVIOUS
  <2>1. CASE \E s \in Tasks : Serves(s)
    BY <1>1, <2>1 DEF Served, Serves, TaskMoved
  <2>2. CASE "basic" \in pending /\ \E s \in Tasks : task[s].pc = "clear"
    BY <1>0, <1>1, <2>2 DEF Served, TaskMoved
  <2>3. CASE "basic" \in pending /\ \E v \in updates : v.is = "admin"
    BY <1>0, <2>3, TakenType DEF Served, Clean
  <2> QED
    BY <2>1, <2>2, <2>3 DEF Served
<1>5. AskInv'
  BY <1>0, <1>2, <1>3 DEF EndInv, AskInv
<1>6. PromptInv'
  BY <1>0, <1>2, <1>3, <1>4 DEF EndInv, PromptInv, Asking, Fresh
<1>7. YesInv'
  BY <1>0, <1>2, <1>3, <1>4 DEF EndInv, YesInv
<1> QED
  BY <1>5, <1>6, <1>7 DEF EndInv

\* An update finds no group and no request: there is a prompt to send.
LEMMA AddedAsks ==
  ASSUME ConnectionIInv, NEW t \in Tasks, NEW u \in updates, NEW r \in TaskRecords,
         Began(t, r, u.nr), UNCHANGED <<live, bot, moves, rows, prompt, conn, historyVars>>,
         updates' = updates \ {u}, ~Connected(u.id), u.id \notin pending, r.pc = "ask"
  PROVE  EndInv'
<1>0. UNCHANGED <<row, pending, failed, late, crossed, refused>> /\ ConnectionTypes /\ EndInv
  BY DEF ConnectionIInv, WellFormed, rows, historyVars
<1>1. TaskMoved(t) /\ ~Serves(t) /\ task[t].pc # "clear" /\ task[t].pc = "idle"
  BY IdleType DEF Began, Serves
<1>2. Clean' => Clean /\ "basic" \notin pending
  BY <1>0, TakenType DEF Clean
<1>3. \A s \in Tasks : Asking(s)' =>
        (s = t /\ task'[s].pc # "persist") \/ (Asking(s) /\ task'[s].pc = task[s].pc)
  BY <1>1 DEF TaskMoved, Asking, Fresh, Began
<1>4. Clean /\ Served => Served'
  BY <1>0, <1>1, <1>2 DEF Served, Serves, TaskMoved, Clean
<1>5. AskInv'
  <2> SUFFICES ASSUME Clean', NEW s \in Tasks, Asking(s)'
               PROVE  /\ "basic" \notin pending'
                      /\ \A v \in updates' : v.nr # moves'
                      /\ \A q \in Tasks : Asking(q)' => q = s
    BY DEF AskInv
  <2>1. CASE u.nr = moves
    <3>1. \A v \in updates' : v.nr # moves'
      BY <2>1, TakenType
    <3>2. \A q \in Tasks : ~Asking(q)
      BY <1>0, <1>2, <2>1 DEF EndInv, AskInv
    <3> QED
      BY <1>0, <1>2, <1>3, <3>1, <3>2
  <2>2. CASE u.nr # moves
    <3>1. \A q \in Tasks : Asking(q)' => Asking(q)
      BY <1>3, <2>2 DEF Began, Asking, Fresh
    <3> QED
      BY <1>0, <1>2, <3>1 DEF EndInv, AskInv
  <2> QED
    BY <2>1, <2>2
<1>6. PromptInv'
  BY <1>0, <1>2, <1>3, <1>4 DEF EndInv, PromptInv, Asking, Fresh
<1>7. YesInv'
  BY <1>0, <1>2, TakenType DEF YesInv, Clean, Connected
<1> QED
  BY <1>5, <1>6, <1>7 DEF EndInv

LEMMA BotAddedKeeps ==
  ASSUME ConnectionIInv, NEW t \in Tasks, NEW u \in updates, BotAdded(t, u)
  PROVE  ConnectionIInv'
<1>0. /\ ConnectionTypes /\ Moves \in Nat
      /\ failed \subseteq Ids /\ prompt \subseteq Ids /\ u.id \in Ids /\ refused \subseteq Ids
      /\ UNCHANGED <<rows, conn, historyVars>> /\ u.is \in {"admin", "member"}
      /\ UNCHANGED <<failed, told, late, crossed, poisoned, refused>>
  BY TakenType DEF ConnectionIInv, WellFormed, ConnectionTypes, GroupTypes, RowTypes,
                   HistoryTypes, BotAdded, historyVars
<1>1. HistoryGrows
  BY <1>0 DEF HistoryGrows, ConnectionTypes, HistoryTypes
<1>2. ASSUME NEW pc \in {"add", "ask"}, Takes(t, u, [Idle EXCEPT !.pc = pc]),
             prompt' \in {prompt, prompt \ {u.id}}, pc = "add" => u.is = "admin",
             pc = "ask" => ~Connected(u.id) /\ u.id \notin pending /\ prompt' = prompt
      PROVE  ConnectionIInv'
  <2> DEFINE r == [Idle EXCEPT !.pc = pc]
             q == [r EXCEPT !.id = u.id]
  <2>1. r \in TaskRecords /\ r.pc = pc /\ r.todo = {} /\ r.put = "none"
    BY <1>0, IdleType DEF TaskRecords
  <2>2. Takes(t, u, r)
    BY <1>2
  <2> HIDE DEF r
  <2>3. q \in TaskRecords /\ r # Idle /\ q.pc = pc /\ q.id = u.id /\ q.todo = {} /\ q.put = "none"
    BY <1>0, <2>1, IdleType DEF TaskRecords
  <2>4. Began(t, q, u.nr) /\ updates' = updates \ {u} /\ UNCHANGED <<live, bot, moves>>
    BY <1>0, <2>1, <2>2, <2>3, TakesBegins
  <2>5. InTime([q EXCEPT !.since = u.nr])
    <3> DEFINE p == [q EXCEPT !.since = u.nr]
    <3>1. p.pc = pc /\ p.id = u.id /\ p.since = u.nr
      BY <2>3 DEF TaskRecords
    <3> HIDE DEF p
    <3>2. u.nr = moves => StandingIn(u.id) # "out"
      BY <1>0, TakenType DEF StandingIn
    <3>3. u.nr <= moves
      BY <1>0, TakenType DEF ConnectionTypes, GroupTypes
    <3>4. InTime(p)
      BY <1>2, <3>1, <3>2, <3>3 DEF InTime
    <3> QED
      BY <3>4 DEF p
  <2> HIDE DEF q
  <2>6. EndInv'
    <3>1. CASE pc = "add"
      BY <1>0, <1>1, <2>3, <2>4, <3>1, TakenType, EndBeginsServing
    <3>2. CASE pc = "ask"
      BY <1>0, <1>2, <2>3, <2>4, <3>2, AddedAsks
    <3> QED
      BY <3>1, <3>2
  <2>7. \A id \in Ids : Coming(id) => Coming(id)'
    BY <1>0, <2>4, BeginComing
  <2>8. prompt' \subseteq Ids
    BY <1>0, <1>2
  <2> QED
    BY <1>0, <2>3, <2>4, <2>5, <2>6, <2>7, <2>8, TakenType, BeginKeeps
<1>3. ASSUME Takes(t, u, Idle), UNCHANGED prompt, ~(u.id \in pending /\ u.is = "admin")
      PROVE  ConnectionIInv'
  <2>1. Began(t, Idle, 0) /\ updates' = updates \ {u} /\ UNCHANGED <<live, bot, moves>>
    BY <1>0, <1>3, IdleInTime, TakesBegins
  <2>2. EndInv'
    BY <1>0, <1>3, <2>1, IdleInTime, IdleType, AddedFindsEnd
  <2>3. \A id \in Ids : Coming(id) => Coming(id)'
    BY <1>0, <2>1, BeginComing
  <2> QED
    BY <1>0, <1>3, <2>1, <2>2, <2>3, IdleInTime, IdleType, BeginKeeps
<1> QED
  BY <1>0, <1>2, <1>3 DEF BotAdded

-----------------------------------------------------------------------------
(* Handlers under way. *)

\* What is known of a handler.
LEMMA TaskType ==
  ASSUME ConnectionIInv, NEW t \in Tasks
  PROVE  /\ ConnectionTypes /\ Clock /\ TaskClock /\ Unmigrated /\ EndInv
         /\ Moves \in Nat /\ moves \in Nat /\ live \in Ids /\ bot \in Standings
         /\ task[t] \in TaskRecords /\ task[t].id \in Ids /\ InTime(task[t])
         /\ live = "basic" => task[t].id = "basic"
<1>1. ConnectionTypes /\ Clock /\ TaskClock /\ Unmigrated /\ EndInv
  BY DEF ConnectionIInv, WellFormed
<1>2. /\ task[t] \in TaskRecords /\ moves \in 0..Moves /\ Moves \in Nat
      /\ live \in Ids /\ bot \in Standings
  BY <1>1 DEF ConnectionTypes, GroupTypes, TaskTypes
<1> QED
  BY <1>1, <1>2 DEF TaskRecords, TaskClock, Unmigrated

\* A handler that goes on as before, or has nothing to do but put an answer.
GoesOn(t, r) ==
    /\ r \in TaskRecords
    /\ r.pc = "idle" \/ (r.pc = task[t].pc /\ r.id = task[t].id /\ r.since = task[t].since)
    /\ r.id \in {task[t].id, "basic"} /\ r.since \in {task[t].since, 0}

LEMMA GoesOnInTime ==
  ASSUME ConnectionIInv, NEW t \in Tasks, NEW r, GoesOn(t, r)
  PROVE  InTime(r) /\ (live = "basic" => r.id = "basic")
<1>1. r.since <= moves
  BY TaskType DEF GoesOn, InTime
<1> QED
  BY <1>1, TaskType DEF GoesOn, InTime

LEMMA IdleGoesOn ==
  ASSUME ConnectionIInv, NEW t \in Tasks
  PROVE  GoesOn(t, Idle)
  BY TaskType, IdleInTime, IdleType DEF GoesOn

LEMMA LeftGoesOn ==
  ASSUME ConnectionIInv, NEW t \in Tasks, NEW put \in {"none", "no"}
  PROVE  /\ GoesOn(t, Left(t, put)) /\ Left(t, put).put = put /\ Left(t, put).todo = {}
         /\ Left(t, put).pc = "idle" /\ (put # "none" => Left(t, put).id = task[t].id)
<1>1. CASE put = "none"
  BY <1>1, IdleGoesOn, IdleType DEF Left
<1>2. CASE put = "no"
  <2> DEFINE r == [Idle EXCEPT !.id = task[t].id, !.put = put]
  <2>1. /\ r \in TaskRecords /\ r.pc = "idle" /\ r.todo = {} /\ r.since = 0
        /\ r.id = task[t].id /\ r.put = put
    BY <1>2, TaskType, IdleType DEF TaskRecords
  <2>2. Left(t, put) = r
    BY <1>2 DEF Left
  <2> HIDE DEF r
  <2> QED
    BY <2>1, <2>2 DEF GoesOn
<1> QED
  BY <1>1, <1>2

LEMMA AfterGoesOn ==
  ASSUME ConnectionIInv, NEW t \in Tasks, NEW put \in {"none", "no"},
         NEW thing \in {"row", "pending", "leave"},
         task[t].pc \in {"left", "leaveall"}, put = "no" => thing = "row"
  PROVE  LET r == After(t, thing, put) IN
         /\ GoesOn(t, r) /\ r.put = put /\ r.todo = task[t].todo \ {thing}
         /\ r.todo # {} => r.pc = task[t].pc /\ r.id = task[t].id
         /\ put # "none" => r.id = task[t].id
<1> DEFINE r == [task[t] EXCEPT !.todo = @ \ {thing}, !.put = put]
<1>1. /\ r \in TaskRecords /\ r.pc = task[t].pc /\ r.id = task[t].id /\ r.since = task[t].since
      /\ r.todo = task[t].todo \ {thing} /\ r.put = put
  BY TaskType DEF TaskRecords
<1>2. After(t, thing, put) = IF r.todo # {} THEN r ELSE Left(t, put)
  BY DEF After
<1> HIDE DEF r
<1>3. CASE r.todo # {}
  <2>1. After(t, thing, put) = r
    BY <1>2, <1>3
  <2> QED
    BY <1>1, <1>3, <2>1 DEF GoesOn
<1>4. CASE r.todo = {}
  <2>1. After(t, thing, put) = Left(t, put)
    BY <1>2, <1>4
  <2> QED
    BY <1>1, <1>4, <2>1, LeftGoesOn
<1> QED
  BY <1>3, <1>4

Deactivated(t, done) ==
    LET id == task[t].id IN
    /\ row'[id] = "inactive" /\ task'[t] = done
    /\ Putting(id) \ {t} = {} \/ id \in crossed'
NoMatch(t, else) == row[task[t].id] = "none" /\ UNCHANGED row /\ task'[t] = else
Failed(t, else) == task'[t] = else /\ task[t].id \in failed'

LEMMA DeactivateMoves ==
  ASSUME ConnectionIInv, NEW t \in Tasks, NEW done \in TaskRecords, NEW else \in TaskRecords,
         DeactivateStep(t, done, else)
  PROVE  /\ TaskMoved(t) /\ UNCHANGED <<pending, prompt, conn, poisoned, refused>>
         /\ row' \in [Ids -> {"none", "inactive", "active"}]
         /\ \A id \in Ids : id # task[t].id => row'[id] = row[id]
         /\ failed \subseteq failed' /\ failed' \subseteq Ids
         /\ crossed \subseteq crossed' /\ crossed' \subseteq Ids
         /\ Deactivated(t, done) \/ NoMatch(t, else) \/ Failed(t, else)
<1> DEFINE id == task[t].id
<1>0. /\ id \in Ids /\ row \in [Ids -> {"none", "inactive", "active"}] /\ ConnectionTypes
      /\ failed \subseteq Ids /\ crossed \subseteq Ids
  BY TaskType DEF ConnectionTypes, RowTypes, HistoryTypes
<1>1. UNCHANGED <<pending, prompt, conn, poisoned, refused>>
  BY DEF DeactivateStep
<1>2. CASE /\ row[id] # "none" /\ Deactivate(id) /\ Becomes(t, done) /\ Crosses(id, t)
           /\ UNCHANGED failed
  <2>1. TaskMoved(t) /\ task'[t] = done
    BY <1>0, <1>2, BecomesMoves
  <2> QED
    BY <1>0, <1>1, <1>2, <2>1 DEF Deactivate, Crosses, Deactivated
<1>3. CASE row[id] = "none" /\ Becomes(t, else) /\ UNCHANGED <<row, failed, crossed>>
  <2>1. TaskMoved(t) /\ task'[t] = else
    BY <1>0, <1>3, BecomesMoves
  <2> QED
    BY <1>0, <1>1, <1>3, <2>1 DEF NoMatch
<1>4. CASE /\ Deactivate(id) \/ UNCHANGED row
           /\ Becomes(t, else) /\ WriteFails(id) /\ UNCHANGED crossed
  <2>1. TaskMoved(t) /\ task'[t] = else
    BY <1>0, <1>4, BecomesMoves
  <2> QED
    BY <1>0, <1>1, <1>4, <2>1 DEF Deactivate, WriteFails, Failed
<1> QED
  BY <1>2, <1>3, <1>4 DEF DeactivateStep

LEMMA DeactivateKeeps ==
  ASSUME ConnectionIInv, NEW t \in Tasks, NEW done \in TaskRecords, NEW else \in TaskRecords,
         DeactivateStep(t, done, else), UNCHANGED group, task[t].put = "none", task[t].pc # "migrate",
         InTime(done), done.id = task[t].id, done.put = "no", "movedRow" \notin done.todo,
         InTime(else), else.id \in {task[t].id, "basic"}, else.put = "none", "movedRow" \notin else.todo,
         late \subseteq late', late' \subseteq Ids, told' \subseteq told,
         task[t].id \notin told' \/ task[t].id \in late' \cup failed',
         EndInv'
  PROVE  ConnectionIInv'
<1> SUFFICES ASSUME NEW id \in Ids, id = task[t].id PROVE ConnectionIInv'
  BY TaskType
<1>0. /\ ConnectionTypes /\ Clock /\ TaskClock /\ Unmigrated /\ id \in Ids /\ live \in Ids
      /\ UNCHANGED <<live, bot, moves, updates>> /\ (live = "basic" => id = "basic")
      /\ task[t] \in TaskRecords
  BY TaskType DEF group
<1>1. /\ TaskMoved(t) /\ UNCHANGED <<pending, prompt, conn, poisoned, refused>>
      /\ row' \in [Ids -> {"none", "inactive", "active"}]
      /\ \A j \in Ids : j # id => row'[j] = row[j]
      /\ failed \subseteq failed' /\ failed' \subseteq Ids
      /\ crossed \subseteq crossed' /\ crossed' \subseteq Ids
      /\ Deactivated(t, done) \/ NoMatch(t, else) \/ Failed(t, else)
  BY DeactivateMoves
<1>2. HistoryGrows
  BY <1>0, <1>1 DEF HistoryGrows, ConnectionTypes, HistoryTypes
<1>3. ConnectionTypes'
  BY <1>0, <1>1 DEF ConnectionTypes, GroupTypes, RowTypes, HistoryTypes, TaskTypes, TaskMoved
<1>4. InTime(task'[t]) /\ (live = "basic" => task'[t].id = "basic")
  BY <1>0, <1>1 DEF Deactivated, NoMatch, Failed
<1>5. Clock' /\ TaskClock'
  BY <1>0, <1>1, <1>4, ClockStays, TaskClockStays
<1>6. Unmigrated'
  BY <1>0, <1>1, <1>4 DEF Unmigrated, TaskMoved, Ids
<1>7. ASSUME NEW j \in Ids
      PROVE  /\ YesComing(t, j)' => YesComing(t, j)
             /\ NoComing(t, j) => NoComing(t, j)'
             /\ j # id => (Coming(j) => Coming(j)')
  <2>1. "movedRow" \notin task[t].todo
    BY <1>0 DEF TaskRecords
  <2>2. (YesComing(t, j)' => YesComing(t, j)) /\ (NoComing(t, j) => NoComing(t, j)')
    BY <1>1, <2>1 DEF YesComing, NoComing, Deactivated, NoMatch, Failed
  <2>3. j # id => (Coming(j) => Coming(j)')
    BY <1>0, <1>1 DEF Coming, TaskMoved
  <2> QED
    BY <2>2, <2>3
<1>8. Answers(id) /\ Told(id) /\ Ghost(id)
  BY <1>0 DEF ConnectionIInv, AnswerInv, MemberInv
<1>9. Answers(id)'
  <2>1. CASE Deactivated(t, done)
    <3>1. CASE id \in crossed'
      BY <3>1 DEF Answers
    <3>2. CASE Putting(id) \ {t} = {}
      <4>1. \A s \in Tasks : ~YesComing(s, id)'
        BY <1>0, <1>1, <2>1, <3>2 DEF YesComing, Deactivated, TaskMoved, Putting, TaskRecords
      <4>2. NoComing(t, id)'
        BY <2>1 DEF NoComing, Deactivated
      <4> QED
        BY <4>1, <4>2 DEF Answers
    <3> QED
      BY <2>1, <3>1, <3>2 DEF Deactivated
  <2>2. CASE NoMatch(t, else)
    BY <1>0, <1>1, <1>2, <1>7, <1>8, <2>2, AnswersStay DEF NoMatch
  <2>3. CASE Failed(t, else)
    BY <2>3 DEF Failed, Answers
  <2> QED
    BY <1>1, <2>1, <2>2, <2>3
<1>10. Told(id)' /\ Ghost(id)'
  <2>1. Told(id)'
    BY <1>8 DEF Told, HistoryGrows
  <2>2. Ghost(id)'
    <3>1. CASE Deactivated(t, done)
      BY <3>1 DEF Ghost, Deactivated
    <3>2. CASE NoMatch(t, else)
      BY <3>2 DEF Ghost, NoMatch
    <3>3. CASE Failed(t, else)
      BY <3>3 DEF Ghost, Failed
    <3> QED
      BY <1>1, <3>1, <3>2, <3>3
  <2> QED
    BY <2>1, <2>2
<1>11. ASSUME NEW j \in Ids, j # id
       PROVE  Answers(j)' /\ Told(j)' /\ Ghost(j)'
  <2>1. Answers(j) /\ Told(j) /\ Ghost(j) /\ row'[j] = row[j] /\ conn'[j] = conn[j]
    BY <1>1, <1>11 DEF ConnectionIInv, AnswerInv, MemberInv
  <2> QED
    BY <1>0, <1>1, <1>2, <1>7, <1>11, <2>1, AnswersStay, MemberStays
<1> QED
  BY <1>3, <1>5, <1>6, <1>9, <1>10, <1>11 DEF ConnectionIInv, WellFormed, AnswerInv, MemberInv

\* A handler of the basic group that acts out of date, or because the bot is
\* out, has nothing to do with the promises to its administrator.
LEMMA OutIsUnclean ==
  ASSUME ConnectionIInv, NEW t \in Tasks, UNCHANGED group,
         StandingIn(task[t].id) = "out" \/ task[t].id \in failed' \cup late' \cup crossed'
  PROVE  ~Clean'
  BY TaskType DEF Clean, group, StandingIn

\* Nobody counts as connected whose bot is out of the group.
LEMMA OutIsUntold ==
  ASSUME ConnectionIInv, NEW id \in Ids, StandingIn(id) = "out"
  PROVE  id \in told => id \in failed \cup late
  BY DEF ConnectionIInv, MemberInv, Told

LEMMA LeftDeactivatesKeeps ==
  ASSUME ConnectionIInv, NEW t \in Tasks, LeftDeactivates(t)
  PROVE  ConnectionIInv'
<1> DEFINE done == After(t, "row", "no")
           else == After(t, "row", "none")
<1>0. /\ task[t].pc = "left" /\ task[t].put = "none" /\ DeactivateStep(t, done, else)
      /\ late' = (IF OutOfDate(t) THEN late \cup {task[t].id} ELSE late)
      /\ UNCHANGED group /\ UNCHANGED told
  BY DEF LeftDeactivates, At
<1>1. /\ GoesOn(t, done) /\ done.put = "no" /\ done.id = task[t].id
      /\ GoesOn(t, else) /\ else.put = "none"
  BY <1>0, AfterGoesOn
<1> HIDE DEF done, else
<1>2. /\ InTime(done) /\ InTime(else) /\ done \in TaskRecords /\ else \in TaskRecords
      /\ else.id \in {task[t].id, "basic"}
  BY <1>1, GoesOnInTime DEF GoesOn
<1>3. "movedRow" \notin done.todo /\ "movedRow" \notin else.todo
  BY <1>0, <1>1 DEF GoesOn, TaskRecords
<1>4. StandingIn(task[t].id) = "out" \/ task[t].id \in late'
  BY <1>0, TaskType DEF InTime, OutOfDate, TaskRecords
<1>5. late \subseteq late' /\ late' \subseteq Ids
  BY <1>0, TaskType DEF ConnectionTypes, HistoryTypes
<1>6. EndInv'
  BY <1>0, <1>4, OutIsUnclean, EndExcused
<1>7. task[t].id \notin told' \/ task[t].id \in late' \cup failed'
  BY <1>0, <1>2, <1>4, <1>5, TaskType, OutIsUntold, DeactivateMoves
<1> QED
  BY <1>0, <1>1, <1>2, <1>3, <1>5, <1>6, <1>7, DeactivateKeeps

LEMMA PrunesKeeps ==
  ASSUME ConnectionIInv, NEW t \in Tasks, Prunes(t)
  PROVE  ConnectionIInv'
<1> DEFINE done == Left(t, "no")
<1>0. /\ task[t].pc = "prune" /\ task[t].put = "none" /\ DeactivateStep(t, done, Idle)
      /\ late' = (IF OutOfDate(t) THEN late \cup {task[t].id} ELSE late)
      /\ UNCHANGED group /\ UNCHANGED told
  BY DEF Prunes, At
<1>1. GoesOn(t, done) /\ done.put = "no" /\ done.id = task[t].id /\ done.todo = {}
  BY <1>0, LeftGoesOn
<1> HIDE DEF done
<1>2. InTime(done) /\ done \in TaskRecords /\ InTime(Idle) /\ Idle \in TaskRecords
  BY <1>1, GoesOnInTime, IdleGoesOn DEF GoesOn
<1>3. StandingIn(task[t].id) = "out" \/ task[t].id \in late'
  BY <1>0, TaskType DEF InTime, OutOfDate, TaskRecords
<1>4. late \subseteq late' /\ late' \subseteq Ids
  BY <1>0, TaskType DEF ConnectionTypes, HistoryTypes
<1>5. EndInv'
  BY <1>0, <1>3, OutIsUnclean, EndExcused
<1>6. task[t].id \notin told' \/ task[t].id \in late' \cup failed'
  BY <1>0, <1>2, <1>3, <1>4, TaskType, OutIsUntold, DeactivateMoves
<1> QED
  BY <1>0, <1>1, <1>2, <1>4, <1>5, <1>6, IdleType, DeactivateKeeps

LEMMA DisconnectsKeeps ==
  ASSUME ConnectionIInv, NEW t \in Tasks, Disconnects(t)
  PROVE  ConnectionIInv'
<1> DEFINE done == [task[t] EXCEPT !.pc = "go", !.put = "no"]
<1>0. /\ task[t].pc = "disconnect" /\ task[t].put = "none" /\ DeactivateStep(t, done, Idle)
      /\ told' = told \ {task[t].id} /\ UNCHANGED group /\ UNCHANGED late
  BY DEF Disconnects, At
<1>1. done \in TaskRecords /\ done.pc = "go" /\ done.put = "no" /\ done.id = task[t].id
      /\ done.since = task[t].since /\ "movedRow" \notin done.todo
  BY <1>0, TaskType DEF TaskRecords
<1> HIDE DEF done
<1>2. InTime(done) /\ InTime(Idle) /\ Idle \in TaskRecords
  BY <1>1, TaskType, GoesOnInTime, IdleGoesOn DEF GoesOn, InTime
<1>3. UNCHANGED <<live, bot, moves, updates, late>> /\ late \subseteq Ids
  BY <1>0, TaskType DEF group, ConnectionTypes, HistoryTypes
<1>4. EndInv'
  <2>1. /\ TaskMoved(t) /\ UNCHANGED <<pending, prompt, conn, poisoned, refused>>
        /\ failed \subseteq failed' /\ failed' \subseteq Ids
        /\ crossed \subseteq crossed' /\ crossed' \subseteq Ids
        /\ Deactivated(t, done) \/ NoMatch(t, Idle) \/ Failed(t, Idle)
    BY <1>0, <1>1, <1>2, DeactivateMoves
  <2>2. HistoryGrows
    BY <1>3, <2>1, TaskType DEF HistoryGrows, ConnectionTypes, HistoryTypes
  <2>3. CASE Deactivated(t, done)
    <3>1. Serves(t)' /\ ~Asking(t)'
      BY <1>1, <2>3 DEF Deactivated, Serves, Asking
    <3> QED
      BY <1>3, <2>1, <2>2, <3>1, TaskType, EndServed
  <2>4. CASE NoMatch(t, Idle)
    <3>1. ~Asking(t)' /\ ~Serves(t) /\ task[t].pc # "clear" /\ UNCHANGED row
      BY <1>0, <2>4, IdleType, TaskType DEF NoMatch, Asking, Serves, TaskRecords
    <3> QED
      BY <1>3, <2>1, <2>2, <3>1, TaskType, EndStays
  <2>5. CASE Failed(t, Idle)
    BY <1>0, <2>5, OutIsUnclean, EndExcused DEF Failed
  <2> QED
    BY <2>1, <2>3, <2>4, <2>5
<1> QED
  BY <1>0, <1>1, <1>2, <1>3, <1>4, IdleType, DeactivateKeeps

LEMMA LeaveallDeactivatesKeeps ==
  ASSUME ConnectionIInv, NEW t \in Tasks, LeaveallDeactivates(t)
  PROVE  ConnectionIInv'
<1> DEFINE done == After(t, "row", "no")
           else == After(t, "row", "none")
<1>0. /\ task[t].pc = "leaveall" /\ task[t].put = "none" /\ DeactivateStep(t, done, else)
      /\ told' = told \ {task[t].id}
      /\ late' = (IF "leave" \notin task[t].todo /\ StandingIn(task[t].id) # "out"
                  THEN late \cup {task[t].id} ELSE late)
      /\ UNCHANGED group
  BY DEF LeaveallDeactivates, At
<1>1. /\ GoesOn(t, done) /\ done.put = "no" /\ done.id = task[t].id
      /\ done.todo = task[t].todo \ {"row"}
      /\ GoesOn(t, else) /\ else.put = "none" /\ else.todo = task[t].todo \ {"row"}
  BY <1>0, AfterGoesOn
<1> HIDE DEF done, else
<1>2. /\ InTime(done) /\ InTime(else) /\ done \in TaskRecords /\ else \in TaskRecords
      /\ else.id \in {task[t].id, "basic"}
  BY <1>1, GoesOnInTime DEF GoesOn
<1>3. /\ "movedRow" \notin done.todo /\ "movedRow" \notin else.todo
      /\ done.pc \in {"leaveall", "idle"} /\ else.pc \in {"leaveall", "idle"}
  BY <1>0, <1>1 DEF GoesOn, TaskRecords
<1>4. late \subseteq late' /\ late' \subseteq Ids
  BY <1>0, TaskType DEF ConnectionTypes, HistoryTypes
<1>5. EndInv'
  <2>1. CASE "leave" \notin task[t].todo
    BY <1>0, <2>1, OutIsUnclean, EndExcused, TaskType DEF ConnectionTypes, HistoryTypes
  <2>2. CASE "leave" \in task[t].todo
    <3>1. /\ TaskMoved(t) /\ UNCHANGED <<pending, prompt, conn, poisoned, refused>>
          /\ failed \subseteq failed' /\ failed' \subseteq Ids
          /\ crossed \subseteq crossed' /\ crossed' \subseteq Ids
          /\ task'[t] \in {done, else}
      BY <1>0, <1>2, DeactivateMoves DEF Deactivated, NoMatch, Failed
    <3>2. HistoryGrows
      BY <1>4, <3>1, TaskType DEF HistoryGrows, ConnectionTypes, HistoryTypes
    <3>3. Serves(t)' /\ ~Asking(t)'
      BY <1>1, <1>3, <2>2, <3>1 DEF Serves, Asking
    <3> QED
      BY <1>0, <3>1, <3>2, <3>3, TaskType, EndServed DEF group
  <2> QED
    BY <2>1, <2>2
<1> QED
  BY <1>0, <1>1, <1>2, <1>3, <1>4, <1>5, DeactivateKeeps

\* A handler that leaves the row and the cache alone.
LEMMA MoveKeeps ==
  ASSUME ConnectionIInv, NEW t \in Tasks, TaskMoved(t), HistoryGrows,
         UNCHANGED <<live, bot, moves, updates, row, conn, poisoned>>, told' \subseteq told,
         pending' \subseteq Ids, prompt' \subseteq Ids,
         InTime(task'[t]), live = "basic" => task'[t].id = "basic",
         task[t].put = "none", task'[t].put = "none",
         "movedRow" \in task'[t].todo <=> "movedRow" \in task[t].todo,
         "row" \in task[t].todo => /\ "row" \in task'[t].todo
                                   /\ task'[t].pc = task[t].pc /\ task'[t].id = task[t].id,
         EndInv'
  PROVE  ConnectionIInv'
<1>0. ConnectionTypes /\ Clock /\ TaskClock /\ Unmigrated
  BY TaskType
<1>1. ConnectionTypes'
  BY <1>0 DEF ConnectionTypes, GroupTypes, RowTypes, HistoryTypes, TaskTypes, TaskMoved,
              HistoryGrows
<1>2. Clock' /\ TaskClock'
  BY <1>0, ClockStays, TaskClockStays
<1>3. Unmigrated'
  BY <1>0 DEF Unmigrated, TaskMoved
<1>4. ASSUME NEW id \in Ids
      PROVE  Answers(id)' /\ Told(id)' /\ Ghost(id)'
  <2>1. (YesComing(t, id)' => YesComing(t, id)) /\ (NoComing(t, id) => NoComing(t, id)')
    BY DEF YesComing, NoComing
  <2>2. Answers(id) /\ Told(id) /\ Ghost(id)
    BY DEF ConnectionIInv, AnswerInv, MemberInv
  <2>3. Coming(id) => Coming(id)'
    BY ComingStays
  <2> QED
    BY <2>1, <2>2, <2>3, AnswersStay, MemberStays
<1> QED
  BY <1>1, <1>2, <1>3, <1>4 DEF ConnectionIInv, WellFormed, AnswerInv, MemberInv

LEMMA PersistsKeeps ==
  ASSUME ConnectionIInv, NEW t \in Tasks, Persists(t)
  PROVE  ConnectionIInv'
<1>0. /\ task[t].pc = "persist" /\ task[t].put = "none" /\ Becomes(t, Idle)
      /\ UNCHANGED <<live, bot, moves, updates, row, prompt, conn, told, crossed, poisoned, refused>>
      /\ late' = (IF OutOfDate(t) THEN late \cup {task[t].id} ELSE late)
      /\ pending' \in {pending, pending \cup {task[t].id}} /\ failed \subseteq failed'
      /\ failed' \in {failed, failed \cup {task[t].id}}
      /\ task[t].id \in failed' \/ pending' = pending \cup {task[t].id}
  BY DEF Persists, At, group, HandlerEnds, WriteFails
<1>1. TaskMoved(t) /\ task'[t] = Idle
  BY <1>0, TaskType, IdleInTime, BecomesMoves
<1>2. HistoryGrows /\ pending' \subseteq Ids /\ prompt' \subseteq Ids
  BY <1>0, TaskType DEF HistoryGrows, ConnectionTypes, HistoryTypes, RowTypes
<1>3. EndInv'
  <2> SUFFICES ASSUME Clean' PROVE EndInv'
    BY EndExcused
  <2>1. Clean /\ task[t].id = "basic" /\ Asking(t) /\ pending' = pending \cup {"basic"}
    BY <1>0, <1>2, TaskType DEF Clean, HistoryGrows, Asking, Fresh, OutOfDate, InTime,
                                TaskRecords
  <2>2. \A s \in Tasks : ~Asking(s)'
    BY <1>0, <1>1, <2>1, TaskType, IdleType DEF EndInv, AskInv, Asking, Fresh, TaskMoved
  <2>3. Served => Served'
    BY <1>0, <1>1, <2>1, TaskType DEF Served, Serves, TaskMoved, TaskRecords
  <2>4. AskInv'
    BY <2>2 DEF AskInv
  <2>5. PromptInv'
    BY <1>0, <2>1, <2>3, TaskType DEF PromptInv, EndInv, Asking
  <2>6. YesInv'
    BY <1>0, <2>1, <2>3, TaskType DEF YesInv, EndInv, Asking
  <2> QED
    BY <2>4, <2>5, <2>6 DEF EndInv
<1>4. "movedRow" \notin task[t].todo /\ "row" \notin task[t].todo
  BY <1>0, TaskType DEF TaskRecords
<1> QED
  BY <1>0, <1>1, <1>2, <1>3, <1>4, IdleType, IdleGoesOn, GoesOnInTime, MoveKeeps

LEMMA LeftForgetsKeeps ==
  ASSUME ConnectionIInv, NEW t \in Tasks, LeftForgets(t)
  PROVE  ConnectionIInv'
<1> DEFINE r == After(t, "pending", "none")
<1>0. /\ task[t].pc = "left" /\ task[t].put = "none" /\ Becomes(t, r) /\ UNCHANGED group
      /\ UNCHANGED <<live, bot, moves, updates, row, prompt, conn, told, crossed, poisoned, refused>>
      /\ late' = (IF OutOfDate(t) THEN late \cup {task[t].id} ELSE late)
      /\ pending' \subseteq pending /\ failed' \in {failed, failed \cup {task[t].id}}
  BY DEF LeftForgets, At, group, HasDone, RemovePending, WriteFails
<1>1. /\ GoesOn(t, r) /\ r.put = "none" /\ r.todo = task[t].todo \ {"pending"}
      /\ r.todo # {} => r.pc = task[t].pc /\ r.id = task[t].id
  BY <1>0, AfterGoesOn
<1> HIDE DEF r
<1>2. TaskMoved(t) /\ task'[t] = r
  BY <1>0, <1>1, TaskType, BecomesMoves DEF GoesOn
<1>3. HistoryGrows /\ pending' \subseteq Ids /\ prompt' \subseteq Ids
  BY <1>0, TaskType DEF HistoryGrows, ConnectionTypes, HistoryTypes, RowTypes
<1>4. StandingIn(task[t].id) = "out" \/ task[t].id \in late'
  BY <1>0, TaskType DEF InTime, OutOfDate, TaskRecords
<1>5. EndInv'
  BY <1>0, <1>4, OutIsUnclean, EndExcused
<1>6. "movedRow" \notin task[t].todo
  BY <1>0, TaskType DEF TaskRecords
<1> QED
  BY <1>0, <1>1, <1>2, <1>3, <1>5, <1>6, GoesOnInTime, MoveKeeps

LEMMA ClearsPendingKeeps ==
  ASSUME ConnectionIInv, NEW t \in Tasks, ClearsPending(t)
  PROVE  ConnectionIInv'
<1>0. /\ task[t].pc = "clear" /\ task[t].put = "none" /\ Becomes(t, Idle)
      /\ UNCHANGED <<live, bot, moves, updates, row, prompt, conn, told, late, crossed, poisoned, refused>>
      /\ pending' \subseteq pending /\ failed' \in {failed, failed \cup {task[t].id}}
      /\ task[t].id \in failed' \/ pending' = pending \ {task[t].id}
  BY DEF ClearsPending, At, group, HandlerEnds, RemovePending, WriteFails
<1>1. TaskMoved(t) /\ task'[t] = Idle
  BY <1>0, TaskType, IdleInTime, BecomesMoves
<1>2. HistoryGrows /\ pending' \subseteq Ids /\ prompt' \subseteq Ids
  BY <1>0, TaskType DEF HistoryGrows, ConnectionTypes, HistoryTypes, RowTypes
<1>3. EndInv'
  <2> SUFFICES ASSUME Clean' PROVE EndInv'
    BY EndExcused
  <2>1. Clean /\ task[t].id = "basic" /\ pending' = pending \ {"basic"}
    BY <1>0, <1>2, TaskType DEF Clean, HistoryGrows
  <2>2. \A s \in Tasks : Asking(s)' => Asking(s) /\ task'[s] = task[s]
    BY <1>0, <1>1, IdleType DEF Asking, Fresh, TaskMoved
  <2>3. Served /\ "basic" \notin pending => Served'
    BY <1>0, <1>1, TaskType DEF Served, Serves, TaskMoved, TaskRecords
  <2>4. AskInv'
    BY <1>0, <2>1, <2>2, TaskType DEF EndInv, AskInv
  <2>5. \A s \in Tasks : Asking(s) => "basic" \notin pending
    BY <2>1, TaskType DEF EndInv, AskInv
  <2>6. PromptInv'
    <3> SUFFICES ASSUME row'["basic"] # "active", "basic" \notin prompt' \cup refused', NEW s \in Tasks,
                        task'[s].pc = "persist" /\ Fresh(s)'
                 PROVE  Served'
      BY <2>1 DEF PromptInv
    <3>1. Asking(s) /\ task[s].pc = "persist" /\ Fresh(s)
      BY <2>2 DEF Asking, Fresh
    <3> QED
      BY <1>0, <2>1, <2>3, <2>5, <3>1, TaskType DEF EndInv, PromptInv
  <2>7. YesInv'
    BY <1>0, <2>1, <2>2, <2>3, <2>5, TaskType DEF EndInv, YesInv
  <2> QED
    BY <2>4, <2>6, <2>7 DEF EndInv
<1>4. "movedRow" \notin task[t].todo /\ "row" \notin task[t].todo
  BY <1>0, TaskType DEF TaskRecords
<1> QED
  BY <1>0, <1>1, <1>2, <1>3, <1>4, IdleType, IdleGoesOn, GoesOnInTime, MoveKeeps

LEMMA CancelsKeeps ==
  ASSUME ConnectionIInv, NEW t \in Tasks, Cancels(t)
  PROVE  ConnectionIInv'
<1> DEFINE r == [task[t] EXCEPT !.pc = "go"]
<1>0. /\ task[t].pc = "cancel" /\ task[t].put = "none" /\ Becomes(t, r)
      /\ UNCHANGED <<live, bot, moves, updates, row, conn, told, late, crossed, poisoned, refused>>
      /\ pending' \subseteq pending /\ failed' \in {failed, failed \cup {task[t].id}}
      /\ prompt' \subseteq prompt
  BY DEF Cancels, At, group, Goes, RemovePending, WriteFails
<1>1. /\ r \in TaskRecords /\ r.pc = "go" /\ r.put = "none" /\ r.id = task[t].id
      /\ r.since = task[t].since /\ r.todo = task[t].todo
      /\ "movedRow" \notin r.todo /\ "row" \notin r.todo
  BY <1>0, TaskType DEF TaskRecords
<1> HIDE DEF r
<1>2. TaskMoved(t) /\ task'[t] = r /\ InTime(r)
  BY <1>0, <1>1, TaskType, BecomesMoves DEF InTime
<1>3. HistoryGrows /\ pending' \subseteq Ids /\ prompt' \subseteq Ids
  BY <1>0, TaskType DEF HistoryGrows, ConnectionTypes, HistoryTypes, RowTypes
<1>4. Serves(t)' /\ ~Asking(t)'
  BY <1>1, <1>2 DEF Serves, Asking
<1>5. EndInv'
  BY <1>0, <1>2, <1>3, <1>4, TaskType, EndServed
<1> QED
  BY <1>0, <1>1, <1>2, <1>3, <1>5, TaskType, MoveKeeps

LEMMA AsksKeeps ==
  ASSUME ConnectionIInv, NEW t \in Tasks, Asks(t)
  PROVE  ConnectionIInv'
<1> DEFINE r == [task[t] EXCEPT !.pc = "persist"]
<1>0. /\ task[t].pc = "ask" /\ task[t].put = "none" /\ UNCHANGED group
      /\ UNCHANGED <<live, bot, moves, updates, row, pending, conn, told, late, crossed, poisoned>>
      /\ refused' \subseteq refused
      /\ \/ prompt' = prompt \cup {task[t].id} /\ Becomes(t, r) /\ failed' = failed
         \/ prompt' = prompt /\ Becomes(t, Idle) /\ failed' = failed \cup {task[t].id}
  BY DEF Asks, At, group, rows, Goes, HandlerEnds, WriteFails
<1>1. /\ r \in TaskRecords /\ r.pc = "persist" /\ r.put = "none" /\ r.id = task[t].id
      /\ r.since = task[t].since /\ r.todo = task[t].todo
      /\ "movedRow" \notin task[t].todo /\ "row" \notin task[t].todo
  BY <1>0, TaskType DEF TaskRecords
<1> HIDE DEF r
<1>2. HistoryGrows /\ pending' \subseteq Ids /\ prompt' \subseteq Ids
  BY <1>0, TaskType DEF HistoryGrows, ConnectionTypes, HistoryTypes, RowTypes
<1>3. CASE prompt' = prompt \cup {task[t].id} /\ Becomes(t, r) /\ failed' = failed
  <2>1. TaskMoved(t) /\ task'[t] = r /\ InTime(r)
    BY <1>1, <1>3, TaskType, BecomesMoves DEF InTime
  <2>2. Clean' => Clean /\ "basic" \in prompt'
    BY <1>0, <1>2, <1>3, TaskType DEF Clean, HistoryGrows
  <2>3. \A s \in Tasks : Asking(s)' => Asking(s)
    BY <1>0, <1>1, <2>1 DEF Asking, Fresh, TaskMoved
  <2>4. Served => Served'
    BY <1>0, <2>1, TaskType DEF Served, Serves, TaskMoved, TaskRecords
  <2>5. EndInv'
    BY <1>0, <2>2, <2>3, <2>4, TaskType DEF EndInv, AskInv, PromptInv, YesInv
  <2> QED
    BY <1>0, <1>1, <1>2, <2>1, <2>5, TaskType, MoveKeeps
<1>4. CASE prompt' = prompt /\ Becomes(t, Idle) /\ failed' = failed \cup {task[t].id}
  <2>1. TaskMoved(t) /\ task'[t] = Idle
    BY <1>4, TaskType, IdleInTime, BecomesMoves
  <2>2. EndInv'
    BY <1>0, <1>4, OutIsUnclean, EndExcused
  <2> QED
    BY <1>0, <1>1, <1>2, <2>1, <2>2, IdleType, IdleGoesOn, GoesOnInTime, MoveKeeps
<1> QED
  BY <1>0, <1>3, <1>4

LEMMA AddsGroupKeeps ==
  ASSUME ConnectionIInv, NEW t \in Tasks, AddsGroup(t)
  PROVE  ConnectionIInv'
<1> DEFINE r == [task[t] EXCEPT !.pc = "clear", !.put = "yes"]
<1> SUFFICES ASSUME NEW id \in Ids, id = task[t].id PROVE ConnectionIInv'
  BY TaskType
<1>0. /\ task[t].pc = "add" /\ task[t].put = "none"
      /\ UNCHANGED <<live, bot, moves, updates, pending, prompt, conn, poisoned, refused>>
      /\ late' = (IF OutOfDate(t) THEN late \cup {id} ELSE late)
      /\ row' \in {row, [row EXCEPT ![id] = "active"]}
      /\ \/ /\ row' = [row EXCEPT ![id] = "active"] /\ Becomes(t, r) /\ Crosses(id, t)
            /\ told' = told \cup {id} /\ failed' = failed
         \/ /\ Becomes(t, Idle) /\ failed' = failed \cup {id} /\ UNCHANGED <<told, crossed>>
  BY DEF AddsGroup, At, group, HandlerEnds, WriteFails
<1>1. /\ r \in TaskRecords /\ r.pc = "clear" /\ r.put = "yes" /\ r.id = id
      /\ r.since = task[t].since /\ r.todo = task[t].todo
      /\ "movedRow" \notin task[t].todo /\ "row" \notin task[t].todo /\ "leave" \notin task[t].todo
  BY <1>0, TaskType DEF TaskRecords
<1> HIDE DEF r
<1>2. /\ row' \in [Ids -> {"none", "inactive", "active"}] /\ \A j \in Ids : j # id => row'[j] = row[j]
      /\ told' \subseteq Ids /\ told' \subseteq told \cup {id}
  BY <1>0, TaskType DEF ConnectionTypes, RowTypes, HistoryTypes
<1>3. HistoryGrows
  BY <1>0, TaskType DEF HistoryGrows, ConnectionTypes, HistoryTypes, Crosses
<1>4. /\ TaskMoved(t) /\ task'[t] \in {r, Idle} /\ InTime(task'[t])
      /\ live = "basic" => task'[t].id = "basic"
      /\ \/ task'[t] = r /\ row'[id] = "active" /\ failed' = failed
         \/ task'[t] = Idle /\ id \in failed' /\ told' = told
  <2>1. CASE Becomes(t, r)
    <3>1. TaskMoved(t) /\ task'[t] = r /\ InTime(r)
      BY <1>1, <2>1, TaskType, BecomesMoves DEF InTime
    <3>2. (row'[id] = "active" /\ failed' = failed) \/ task'[t] = Idle
      BY <1>0, <3>1, TaskType, IdleInTime, BecomesMoves DEF ConnectionTypes, RowTypes
    <3> QED
      BY <1>1, <3>1, <3>2, TaskType, IdleType
  <2>2. CASE Becomes(t, Idle) /\ failed' = failed \cup {id} /\ told' = told
    <3>1. TaskMoved(t) /\ task'[t] = Idle
      BY <2>2, TaskType, IdleInTime, BecomesMoves
    <3> QED
      BY <2>2, <3>1, TaskType, IdleType, IdleGoesOn, GoesOnInTime
  <2> QED
    BY <1>0, <2>1, <2>2
<1>5. ConnectionTypes'
  BY <1>0, <1>2, <1>3, <1>4, TaskType
     DEF ConnectionTypes, GroupTypes, RowTypes, HistoryTypes, TaskTypes, TaskMoved, HistoryGrows
<1>6. Clock' /\ TaskClock'
  BY <1>0, <1>4, TaskType, ClockStays, TaskClockStays
<1>7. Unmigrated'
  BY <1>0, <1>2, <1>4, TaskType DEF Unmigrated, TaskMoved, Ids
<1>8. EndInv'
  <2>1. CASE id \in failed'
    BY <1>0, <2>1, OutIsUnclean, EndExcused DEF group
  <2>2. CASE task'[t] = r /\ row'[id] = "active"
    <3>1. \A s \in Tasks : Asking(s)' => Asking(s)
      BY <1>0, <1>1, <1>4, <2>2 DEF Asking, Fresh, TaskMoved
    <3>2. Clean' => Clean /\ row'["basic"] = "active"
      BY <1>0, <1>3, <2>2, TaskType DEF Clean, HistoryGrows
    <3> QED
      BY <1>0, <3>1, <3>2, TaskType DEF EndInv, AskInv, PromptInv, YesInv
  <2> QED
    BY <1>4, <2>1, <2>2
<1>9. ASSUME NEW j \in Ids
      PROVE  Answers(j)' /\ Told(j)' /\ Ghost(j)'
  <2>0. Answers(j) /\ Told(j) /\ Ghost(j)
    BY DEF ConnectionIInv, AnswerInv, MemberInv
  <2>1. CASE j # id
    <3>1. (YesComing(t, j)' => YesComing(t, j)) /\ (NoComing(t, j) => NoComing(t, j)')
      BY <1>0, <1>1, <1>4, <2>1, IdleType DEF YesComing, NoComing
    <3>2. (j \in told' => j \in told) /\ row'[j] = row[j] /\ conn'[j] = conn[j]
      BY <1>0, <1>2, <2>1
    <3>3. Coming(j) => Coming(j)'
      BY <1>0, <1>1, <1>4, ComingStays
    <3> QED
      BY <1>0, <1>3, <1>4, <2>0, <3>1, <3>2, <3>3, AnswersStay, MemberStays
  <2>2. CASE j = id /\ id \in failed'
    BY <2>2 DEF Answers, Told, Ghost
  <2>3. CASE j = id /\ row'[id] = "active"
    <3>1. StandingIn(id) # "out" \/ id \in late'
      BY <1>0, TaskType DEF InTime, OutOfDate, TaskRecords
    <3>2. StandingIn(id)' = StandingIn(id)
      BY <1>0 DEF StandingIn
    <3> QED
      BY <2>3, <3>1, <3>2 DEF Answers, Told, Ghost
  <2> QED
    BY <1>4, <2>1, <2>2, <2>3
<1> QED
  BY <1>5, <1>6, <1>7, <1>8, <1>9 DEF ConnectionIInv, WellFormed, AnswerInv, MemberInv

-----------------------------------------------------------------------------
(* The bot moves, or the group does. *)

LEMMA ClockMoves ==
  ASSUME ConnectionIInv, moves < Moves, moves' = moves + 1, live' \in Ids,
         live = "super" => live' = "super",
         bot' \in Standings, NEW u \in Updates, updates' = updates \cup {u}, u.nr = moves',
         u.is = "out" => StandingIn(u.id)' = "out",
         u.is \in {"admin", "member"} => bot' = u.is /\ u.id = live',
         u.is = "migrated" => live' = "super" /\ bot' # "out",
         live' = "basic" => u.id = "basic",
         task' \in [Tasks -> TaskRecords], handlers' \in 0..MaxHandlers,
         \A s \in Tasks : /\ task'[s].since \in {task[s].since, 0}
                          /\ task'[s].pc \in {task[s].pc, "idle"} /\ task'[s].id \in {task[s].id, "basic"},
         UNCHANGED <<rows, prompt, conn, failed, late, crossed, poisoned>>, told' \subseteq told,
         refused' \subseteq refused
  PROVE  WellFormed'
<1>0. ConnectionTypes /\ Clock /\ TaskClock /\ Unmigrated /\ Moves \in Nat /\ moves \in Nat
  BY DEF ConnectionIInv, WellFormed, ConnectionTypes, GroupTypes
<1>1. ConnectionTypes'
  BY <1>0 DEF ConnectionTypes, GroupTypes, RowTypes, HistoryTypes, TaskTypes, rows
<1>2. \A v \in updates : v.nr <= moves /\ v.nr \in Nat /\ (v.is = "migrated" => live = "super")
  BY <1>0 DEF Clock, ConnectionTypes, GroupTypes, Updates
<1>3. Clock'
  <2>1. ASSUME NEW v \in updates'
        PROVE  /\ v.nr <= moves'
               /\ v.is = "migrated" => live' = "super"
               /\ v.nr = moves' =>
                    /\ v.is = "out" => StandingIn(v.id)' = "out"
                    /\ v.is \in {"admin", "member"} => bot' = v.is /\ v.id = live'
                    /\ v.is = "migrated" => bot' # "out"
    <3>1. CASE v = u
      BY <1>0, <3>1
    <3>2. CASE v \in updates
      BY <1>0, <1>2, <3>2
    <3> QED
      BY <3>1, <3>2
  <2>2. \A v, w \in updates' : v.nr = w.nr => v = w
    BY <1>0, <1>2 DEF Clock
  <2> QED
    BY <2>1, <2>2 DEF Clock
<1>4. TaskClock'
  <2> SUFFICES ASSUME NEW s \in Tasks PROVE InTime(task[s])'
    BY DEF TaskClock
  <2>1. InTime(task[s]) /\ task[s].since \in Nat
    BY <1>0, TaskType DEF TaskClock, TaskRecords
  <2> QED
    BY <1>0, <2>1 DEF InTime
<1>5. Unmigrated'
  BY <1>0, TaskType DEF Unmigrated, rows, ConnectionTypes, GroupTypes, Ids
<1> QED
  BY <1>1, <1>3, <1>4, <1>5 DEF WellFormed

\* The bot leaves, at its own wish, or is moved by somebody.
LEMMA BotMovesKeeps ==
  ASSUME ConnectionIInv, NEW to \in Standings, BotMoves(to), live' = live,
         UNCHANGED <<rows, prompt, conn, failed, late, crossed, poisoned>>,
         told' \subseteq told, to = "out" => live \notin told',
         task' \in [Tasks -> TaskRecords], handlers' \in 0..MaxHandlers,
         \A s \in Tasks : /\ task'[s].since \in {task[s].since, 0} /\ task'[s].put = task[s].put
                          /\ task'[s].pc \in {task[s].pc, "idle"} /\ task'[s].id \in {task[s].id, "basic"}
                          /\ task[s].put # "none" => task'[s].id = task[s].id
                          /\ "movedRow" \in task'[s].todo <=> "movedRow" \in task[s].todo
                          /\ "row" \in task[s].todo => /\ "row" \in task'[s].todo
                                                       /\ task'[s].pc = task[s].pc
                                                       /\ task'[s].id = task[s].id
  PROVE  ConnectionIInv'
<1> DEFINE u == [id |-> live, was |-> bot, is |-> to, nr |-> moves + 1]
<1>0. /\ moves < Moves /\ bot' = to /\ moves' = moves + 1 /\ updates' = updates \cup {u}
      /\ refused' \subseteq refused
      /\ ConnectionTypes /\ Unmigrated /\ EndInv /\ Moves \in Nat /\ moves \in Nat
      /\ live \in Ids /\ bot \in Standings
  BY DEF BotMoves, ConnectionIInv, WellFormed, ConnectionTypes, GroupTypes
<1>1. u \in Updates /\ u.id = live /\ u.is = to /\ u.nr = moves + 1 /\ to # "migrated"
  BY <1>0 DEF Updates, Standings
<1> HIDE DEF u
<1>2. WellFormed'
  BY <1>0, <1>1, ClockMoves DEF StandingIn
<1>3. ASSUME NEW id \in Ids
      PROVE  Answers(id)' /\ Told(id)' /\ Ghost(id)'
  <2>0. Answers(id) /\ Told(id) /\ Ghost(id) /\ row' = row
    BY DEF ConnectionIInv, AnswerInv, MemberInv, rows
  <2>1. \A s \in Tasks : (YesComing(s, id)' <=> YesComing(s, id)) /\ (NoComing(s, id)' <=> NoComing(s, id))
    BY DEF YesComing, NoComing
  <2>2. Answers(id)'
    BY <2>0, <2>1 DEF Answers
  <2>3. Told(id)'
    BY <1>0, <2>0 DEF Told, StandingIn
  <2>4. Ghost(id)'
    <3>1. Coming(id) => Coming(id)'
      BY <1>0 DEF Coming
    <3>2. CASE id = live
      <4>1. to = "out" => Coming(id)'
        BY <1>0, <1>1, <3>2 DEF Coming
      <4> QED
        BY <1>0, <3>2, <4>1 DEF Ghost, StandingIn
    <3>3. CASE id # live
      BY <2>0, <3>1, <3>3 DEF Ghost, StandingIn
    <3> QED
      BY <3>2, <3>3
  <2> QED
    BY <2>2, <2>3, <2>4
<1>4. EndInv'
  <2> SUFFICES ASSUME Clean' PROVE EndInv'
    BY EndExcused
  <2>1. to = "admin"
    BY <1>0 DEF Clean
  <2>2. \A s \in Tasks : ~Fresh(s)'
    BY <1>0, TaskType DEF Fresh, InTime, TaskRecords
  <2>3. "basic" \in pending' => Served'
    BY <1>0, <1>1, <2>1 DEF Served
  <2> QED
    BY <2>2, <2>3 DEF EndInv, AskInv, PromptInv, YesInv, Asking
<1> QED
  BY <1>2, <1>3, <1>4 DEF ConnectionIInv, AnswerInv, MemberInv

LEMMA MovedByPeopleKeeps ==
  ASSUME ConnectionIInv, MovedByPeople
  PROVE  ConnectionIInv'
<1>0. /\ ConnectionTypes
      /\ UNCHANGED <<live, rows, prompt, conn, task, handlers, failed, late, crossed, poisoned>>
  BY DEF ConnectionIInv, WellFormed, MovedByPeople, tasks
<1>1. PICK to \in Standings : BotMoves(to)
  BY DEF MovedByPeople
<1>2. told' \subseteq told /\ (to = "out" => live \notin told')
  BY <1>1 DEF MovedByPeople, BotMoves
<1> QED
  BY <1>0, <1>1, <1>2, BotMovesKeeps DEF ConnectionTypes, TaskTypes

LEMMA GroupMigratesKeeps ==
  ASSUME ConnectionIInv, GroupMigrates
  PROVE  ConnectionIInv'
<1> DEFINE u == [id |-> "super", was |-> bot, is |-> "migrated", nr |-> moves + 1]
<1>0. /\ live = "basic" /\ live' = "super" /\ bot # "out" /\ bot' = bot /\ moves < Moves
      /\ moves' = moves + 1 /\ updates' = updates \cup {u} /\ told' = {}
      /\ UNCHANGED <<rows, prompt, conn, task, handlers, failed, late, crossed, poisoned, refused>>
      /\ ConnectionTypes /\ Moves \in Nat /\ moves \in Nat /\ bot \in Standings
  BY DEF GroupMigrates, ConnectionIInv, WellFormed, ConnectionTypes, GroupTypes, tasks
<1>1. u \in Updates /\ u.id = "super" /\ u.is = "migrated" /\ u.nr = moves + 1
  BY <1>0 DEF Updates, Ids
<1> HIDE DEF u
<1>2. WellFormed'
  <2>1. /\ task' \in [Tasks -> TaskRecords] /\ handlers' \in 0..MaxHandlers
        /\ \A s \in Tasks : task'[s] = task[s]
    BY <1>0 DEF ConnectionTypes, TaskTypes
  <2> QED
    BY <1>0, <1>1, <2>1, ClockMoves DEF Ids
<1>3. ASSUME NEW id \in Ids
      PROVE  Answers(id)' /\ Told(id)' /\ Ghost(id)'
  <2>1. Answers(id) /\ row' = row
    BY <1>0 DEF ConnectionIInv, AnswerInv, rows
  <2>2. Answers(id)'
    BY <1>0, <2>1 DEF Answers, YesComing, NoComing
  <2>3. id = "basic" => Coming(id)'
    BY <1>0, <1>1 DEF Coming
  <2> QED
    BY <1>0, <2>2, <2>3 DEF Told, Ghost, StandingIn, Ids
<1>4. EndInv'
  BY <1>0, EndExcused DEF Clean
<1> QED
  BY <1>2, <1>3, <1>4 DEF ConnectionIInv, AnswerInv, MemberInv

LEMMA LeavesKeeps ==
  ASSUME ConnectionIInv, NEW t \in Tasks, Leaves(t)
  PROVE  ConnectionIInv'
<1>0. /\ task[t].pc = "go" /\ task[t].put = "none" /\ Becomes(t, Idle) /\ LeaveChat(task[t].id)
      /\ told' = (IF bot' = "out" THEN told \ {task[t].id} ELSE told)
      /\ UNCHANGED <<rows, row, pending, prompt, conn, late, crossed, poisoned>>
  BY DEF Leaves, At, HandlerEnds, rows
<1>1. TaskMoved(t) /\ task'[t] = Idle
  BY <1>0, TaskType, IdleInTime, BecomesMoves
<1>2. "movedRow" \notin task[t].todo /\ "row" \notin task[t].todo
  BY <1>0, TaskType DEF TaskRecords
<1>3. CASE task[t].id = live /\ bot # "out" /\ BotMoves("out") /\ UNCHANGED <<live, failed>>
  <2>1. told' \subseteq told /\ live \notin told'
    BY <1>0, <1>3 DEF BotMoves
  <2> QED
    BY <1>0, <1>1, <1>2, <1>3, <2>1, IdleType, TaskType, BotMovesKeeps DEF TaskMoved, Standings
<1>4. CASE WriteFails(task[t].id) /\ UNCHANGED <<group, refused>>
  <2>1. HistoryGrows /\ pending' \subseteq Ids /\ prompt' \subseteq Ids /\ told' \subseteq told
    BY <1>0, <1>4, TaskType DEF HistoryGrows, ConnectionTypes, HistoryTypes, RowTypes, WriteFails
  <2>2. EndInv'
    BY <1>4, OutIsUnclean, EndExcused DEF WriteFails
  <2> QED
    BY <1>0, <1>1, <1>2, <1>4, <2>1, <2>2, IdleType, IdleGoesOn, GoesOnInTime, MoveKeeps
    DEF group
<1> QED
  BY <1>0, <1>3, <1>4 DEF LeaveChat

LEMMA LeaveallLeavesKeeps ==
  ASSUME ConnectionIInv, NEW t \in Tasks, LeaveallLeaves(t)
  PROVE  ConnectionIInv'
<1> DEFINE r == After(t, "leave", "none")
<1>0. /\ task[t].pc = "leaveall" /\ task[t].put = "none" /\ Becomes(t, r) /\ LeaveChat(task[t].id)
      /\ told' = told \ {task[t].id}
      /\ UNCHANGED <<rows, row, pending, prompt, conn, late, crossed, poisoned>>
  BY DEF LeaveallLeaves, At, HasDone, rows
<1>1. /\ GoesOn(t, r) /\ r.put = "none" /\ r.todo = task[t].todo \ {"leave"}
      /\ r.todo # {} => r.pc = task[t].pc /\ r.id = task[t].id
  BY <1>0, AfterGoesOn
<1> HIDE DEF r
<1>2. TaskMoved(t) /\ task'[t] = r
  BY <1>0, <1>1, TaskType, BecomesMoves DEF GoesOn
<1>3. "movedRow" \notin task[t].todo
  BY <1>0, TaskType DEF TaskRecords
<1>4. CASE task[t].id = live /\ bot # "out" /\ BotMoves("out") /\ UNCHANGED <<live, failed>>
  <2>1. told' \subseteq told /\ live \notin told'
    BY <1>0, <1>4
  <2> QED
    BY <1>0, <1>1, <1>2, <1>3, <1>4, <2>1, TaskType, BotMovesKeeps
    DEF TaskMoved, Standings, GoesOn
<1>5. CASE WriteFails(task[t].id) /\ UNCHANGED <<group, refused>>
  <2>1. HistoryGrows /\ pending' \subseteq Ids /\ prompt' \subseteq Ids /\ told' \subseteq told
    BY <1>0, <1>5, TaskType DEF HistoryGrows, ConnectionTypes, HistoryTypes, RowTypes, WriteFails
  <2>2. EndInv'
    BY <1>5, OutIsUnclean, EndExcused DEF WriteFails
  <2> QED
    BY <1>0, <1>1, <1>2, <1>3, <1>5, <2>1, <2>2, GoesOnInTime, MoveKeeps DEF group
<1> QED
  BY <1>0, <1>4, <1>5 DEF LeaveChat

-----------------------------------------------------------------------------
(* The cache, and the migration. *)

LEMMA CacheKeeps ==
  ASSUME ConnectionIInv, UNCHANGED <<group, rows, prompt, tasks, historyVars>>,
         conn' \in [Ids -> {"miss", "yes", "no"}],
         \A id \in Ids : conn'[id] = "yes" => conn[id] = "yes" \/ row[id] = "active"
  PROVE  ConnectionIInv'
<1>0. /\ UNCHANGED <<live, bot, moves, updates, row, pending, prompt, task, handlers,
                     told, failed, late, crossed, poisoned, refused>>
      /\ ConnectionTypes /\ Clock /\ TaskClock /\ Unmigrated /\ AnswerInv /\ MemberInv /\ EndInv
  BY DEF group, rows, tasks, historyVars, ConnectionIInv, WellFormed
<1>1. ConnectionTypes'
  BY <1>0 DEF ConnectionTypes, GroupTypes, RowTypes, HistoryTypes, TaskTypes
<1>2. Clock' /\ TaskClock' /\ Unmigrated'
  BY <1>0 DEF Clock, TaskClock, InTime, Unmigrated, StandingIn
<1>3. AnswerInv'
  BY <1>0 DEF AnswerInv, Answers, YesComing, NoComing
<1>4. MemberInv'
  BY <1>0 DEF MemberInv, Told, Ghost, Coming, StandingIn
<1>5. EndInv'
  <2>1. Clean' = Clean /\ Served' = Served /\ \A t \in Tasks : Asking(t)' = Asking(t)
    BY <1>0 DEF Clean, Served, Serves, Asking, Fresh
  <2>2. AskInv' /\ PromptInv'
    BY <1>0, <2>1 DEF EndInv, AskInv, PromptInv, Fresh
  <2>3. YesInv'
    BY <1>0, <2>1 DEF EndInv, YesInv, Ids
  <2> QED
    BY <2>2, <2>3 DEF EndInv
<1> QED
  BY <1>1, <1>2, <1>3, <1>4, <1>5 DEF ConnectionIInv, WellFormed

LEMMA CacheMovesKeeps ==
  ASSUME ConnectionIInv, CacheFills \/ \E id \in Ids : CacheExpires(id)
  PROVE  ConnectionIInv'
<1>0. conn \in [Ids -> {"miss", "yes", "no"}] /\ live \in Ids
  BY DEF ConnectionIInv, WellFormed, ConnectionTypes, RowTypes, GroupTypes
<1>1. CASE CacheFills
  <2>1. \A id \in Ids : conn'[id] = "yes" => conn[id] = "yes" \/ row[id] = "active"
    BY <1>0, <1>1 DEF CacheFills
  <2> QED
    BY <1>0, <1>1, <2>1, CacheKeeps DEF CacheFills
<1>2. ASSUME NEW j \in Ids, CacheExpires(j) PROVE ConnectionIInv'
  <2>1. \A id \in Ids : conn'[id] = "yes" => conn[id] = "yes" \/ row[id] = "active"
    BY <1>0, <1>2 DEF CacheExpires
  <2> QED
    BY <1>0, <1>2, <2>1, CacheKeeps DEF CacheExpires
<1> QED
  BY <1>1, <1>2

LEMMA PutsKeeps ==
  ASSUME ConnectionIInv, NEW t \in Tasks, Puts(t)
  PROVE  ConnectionIInv'
<1> SUFFICES ASSUME NEW id \in Ids, id = task[t].id PROVE ConnectionIInv'
  BY TaskType
<1> DEFINE r == [task[t] EXCEPT !.put = "none"]
<1>0. /\ task[t].put # "none" /\ conn' = [conn EXCEPT ![id] = task[t].put]
      /\ IF task[t].pc = "idle" THEN Becomes(t, Idle) ELSE Becomes(t, r)
      /\ UNCHANGED <<live, bot, moves, updates, row, pending, prompt,
                     told, failed, late, crossed, poisoned, refused>>
  BY DEF Puts, HandlerEnds, group, rows, historyVars
<1>1. /\ r \in TaskRecords /\ r.pc = task[t].pc /\ r.id = id /\ r.put = "none"
      /\ r.since = task[t].since /\ r.todo = task[t].todo
      /\ task[t].put \in {"yes", "no"} /\ task[t].pc \in {"idle", "left", "leaveall", "clear", "go"}
      /\ "movedRow" \notin task[t].todo /\ "row" \notin task[t].todo
      /\ task[t].pc = "idle" => "leave" \notin task[t].todo
  BY <1>0, TaskType DEF TaskRecords
<1> HIDE DEF r
<1>2. /\ TaskMoved(t) /\ task'[t] \in {r, Idle} /\ InTime(task'[t])
      /\ live = "basic" => task'[t].id = "basic"
      /\ task[t].pc # "idle" => task'[t] = r
  <2>1. CASE task[t].pc = "idle"
    <3>1. TaskMoved(t) /\ task'[t] = Idle
      BY <1>0, <2>1, TaskType, IdleInTime, BecomesMoves
    <3> QED
      BY <2>1, <3>1, IdleGoesOn, GoesOnInTime
  <2>2. CASE task[t].pc # "idle"
    <3>1. TaskMoved(t) /\ task'[t] = r
      BY <1>0, <1>1, <2>2, TaskType, BecomesMoves
    <3>2. GoesOn(t, r)
      BY <1>1 DEF GoesOn
    <3> QED
      BY <3>1, <3>2, GoesOnInTime
  <2> QED
    BY <2>1, <2>2
<1>3. /\ conn' \in [Ids -> {"miss", "yes", "no"}] /\ conn'[id] = task[t].put
      /\ \A j \in Ids : j # id => conn'[j] = conn[j]
  BY <1>0, <1>1, TaskType DEF ConnectionTypes, RowTypes
<1>4. HistoryGrows
  BY <1>0, TaskType DEF HistoryGrows, ConnectionTypes, HistoryTypes
<1>5. ConnectionTypes'
  BY <1>0, <1>2, <1>3, TaskType DEF ConnectionTypes, GroupTypes, RowTypes, HistoryTypes,
                                    TaskTypes, TaskMoved
<1>6. Clock' /\ TaskClock'
  BY <1>0, <1>2, TaskType, ClockStays, TaskClockStays
<1>7. Unmigrated'
  BY <1>0, <1>2, TaskType DEF Unmigrated, TaskMoved
<1>8. Answers(id) /\ (task[t].put = "yes" => id \in failed \cup crossed \/ poisoned \/ row[id] = "active")
  BY DEF ConnectionIInv, AnswerInv, Answers, YesComing
<1>9. ASSUME NEW j \in Ids
      PROVE  Answers(j)' /\ Told(j)' /\ Ghost(j)'
  <2>0. Answers(j) /\ Told(j) /\ Ghost(j)
    BY DEF ConnectionIInv, AnswerInv, MemberInv
  <2>1. YesComing(t, j)' => YesComing(t, j)
    BY <1>1, <1>2, IdleType DEF YesComing
  <2>2. Coming(j) => Coming(j)'
    BY <1>0, <1>1, <1>2, ComingStays
  <2>3. Told(j)' /\ Ghost(j)'
    BY <1>0, <1>4, <2>0, <2>2, MemberStays
  <2>4. CASE j # id
    <3>1. ~NoComing(t, j)
      BY <1>1, <2>4 DEF NoComing
    <3> QED
      BY <1>0, <1>2, <1>3, <1>4, <2>0, <2>1, <2>3, <2>4, <3>1, AnswersStay
  <2>5. CASE j = id
    <3>1. \A s \in Tasks : YesComing(s, id)' => YesComing(s, id)
      BY <1>2, <2>1, <2>5 DEF YesComing, TaskMoved
    <3>2. Answers(id)'
      BY <1>0, <1>1, <1>3, <1>8, <3>1 DEF Answers
    <3> QED
      BY <2>3, <2>5, <3>2
  <2> QED
    BY <2>4, <2>5
<1>10. EndInv'
  <2> SUFFICES ASSUME Clean' PROVE EndInv'
    BY EndExcused
  <2>1. Clean /\ ~poisoned /\ id = "basic"
    BY <1>0, TaskType DEF Clean, Unmigrated
  <2>2. conn'["basic"] = "yes" => row["basic"] = "active"
    BY <1>3, <1>8, <2>1 DEF Clean
  <2>3. ~Asking(t)' /\ (Serves(t) => Serves(t)') /\ (task[t].pc = "clear" => task'[t].pc = "clear")
    BY <1>1, <1>2, IdleType DEF Asking, Serves
  <2> QED
    BY <1>0, <1>2, <1>4, <2>2, <2>3, TaskType, EndStays
<1> QED
  BY <1>5, <1>6, <1>7, <1>9, <1>10 DEF ConnectionIInv, WellFormed, AnswerInv, MemberInv

\* What a migration does is no promise to the basic group's administrator.
LEMMA MigratingType ==
  ASSUME ConnectionIInv, NEW t \in Tasks, task[t].pc = "migrate"
  PROVE  live = "super" /\ (live' = live => ~Clean') /\ task[t].put = "none"
  BY TaskType DEF InTime, TaskRecords, Clean

LEMMA MigrationPutsKeeps ==
  ASSUME ConnectionIInv, NEW t \in Tasks, MigrationPuts(t)
  PROVE  ConnectionIInv'
<1>0. /\ task[t].pc = "migrate" /\ task[t].put = "none" /\ live = "super"
      /\ "row" \notin task[t].todo /\ Becomes(t, Idle)
      /\ conn' = [basic |-> IF "moved" \in task[t].todo THEN "no" ELSE conn["basic"],
                  super |-> IF "movedRow" \in task[t].todo THEN "yes" ELSE conn["super"]]
      /\ UNCHANGED <<live, bot, moves, updates, row, pending, prompt,
                     told, failed, late, crossed, poisoned, refused>>
  BY MigratingType DEF MigrationPuts, At, HandlerEnds, group, rows, historyVars
<1>1. TaskMoved(t) /\ task'[t] = Idle
  BY <1>0, TaskType, IdleInTime, BecomesMoves
<1>2. conn' \in [Ids -> {"miss", "yes", "no"}]
  BY <1>0, TaskType DEF ConnectionTypes, RowTypes, Ids
<1>3. HistoryGrows
  BY <1>0, TaskType DEF HistoryGrows, ConnectionTypes, HistoryTypes
<1>4. ConnectionTypes'
  BY <1>0, <1>1, <1>2, TaskType DEF ConnectionTypes, GroupTypes, RowTypes, HistoryTypes,
                                    TaskTypes, TaskMoved
<1>5. Clock' /\ TaskClock' /\ Unmigrated'
  BY <1>0, <1>1, TaskType, IdleGoesOn, GoesOnInTime, ClockStays, TaskClockStays DEF Unmigrated
<1>6. ASSUME NEW j \in Ids
      PROVE  Answers(j)' /\ Told(j)' /\ Ghost(j)'
  <2>0. Answers(j) /\ Told(j) /\ Ghost(j)
    BY DEF ConnectionIInv, AnswerInv, MemberInv
  <2>1. Coming(j) => Coming(j)'
    BY <1>0, <1>1, ComingStays
  <2>2. Told(j)' /\ Ghost(j)'
    BY <1>0, <1>1, <1>3, <2>0, <2>1, MemberStays
  <2>3. \A s \in Tasks : YesComing(s, j)' => YesComing(s, j)
    BY <1>1, IdleType DEF YesComing, TaskMoved
  <2>4. CASE j = "basic" /\ "moved" \in task[t].todo
    BY <1>0, <2>0, <2>2, <2>3, <2>4 DEF Answers
  <2>5. CASE j = "super" /\ "movedRow" \in task[t].todo
    <3>1. YesComing(t, j)
      BY <2>5 DEF YesComing
    <3>2. j \in failed \cup crossed \/ poisoned \/ row[j] = "active"
      BY <2>0, <3>1 DEF Answers
    <3> QED
      BY <1>0, <2>2, <2>5, <3>2 DEF Answers
  <2>6. CASE ~(j = "basic" /\ "moved" \in task[t].todo) /\ ~(j = "super" /\ "movedRow" \in task[t].todo)
    <3>1. conn'[j] = conn[j]
      BY <1>0, <2>6 DEF Ids
    <3>2. ~NoComing(t, j)
      BY <1>0, <2>6, TaskType DEF NoComing, TaskRecords
    <3> QED
      BY <1>0, <1>1, <1>3, <2>0, <2>2, <2>3, <3>1, <3>2, AnswersStay
  <2> QED
    BY <2>2, <2>4, <2>5, <2>6
<1>7. EndInv'
  BY <1>0, MigratingType, EndExcused
<1> QED
  BY <1>4, <1>5, <1>6, <1>7 DEF ConnectionIInv, WellFormed, AnswerInv, MemberInv

\* The migration does one of the things it does side by side.
LEMMA RestMoves ==
  ASSUME ConnectionIInv, NEW t \in Tasks, task[t].pc = "migrate", NEW thing \in {"row", "pending"},
         NEW moved \in SUBSET {"moved", "movedRow"}, "movedRow" \in moved => "moved" \in moved,
         Becomes(t, [task[t] EXCEPT !.todo = (@ \ {thing}) \cup moved])
  PROVE  /\ TaskMoved(t) /\ InTime(task'[t]) /\ task'[t].put = "none" /\ task'[t].id = task[t].id
         /\ task'[t].pc = "migrate" /\ task'[t].todo = (task[t].todo \ {thing}) \cup moved
<1> DEFINE r == [task[t] EXCEPT !.todo = (@ \ {thing}) \cup moved]
<1>1. /\ r \in TaskRecords /\ r.pc = "migrate" /\ r.put = "none" /\ r.id = task[t].id
      /\ r.since = task[t].since /\ r.todo = (task[t].todo \ {thing}) \cup moved
  BY TaskType DEF TaskRecords
<1>2. Becomes(t, r)
  OBVIOUS
<1> HIDE DEF r
<1>3. TaskMoved(t) /\ task'[t] = r
  BY <1>1, <1>2, TaskType, BecomesMoves
<1>4. GoesOn(t, r)
  BY <1>1 DEF GoesOn
<1> QED
  BY <1>1, <1>3, <1>4, GoesOnInTime

LEMMA MovesPendingKeeps ==
  ASSUME ConnectionIInv, NEW t \in Tasks, MovesPending(t)
  PROVE  ConnectionIInv'
<1>0. /\ task[t].pc = "migrate" /\ task[t].put = "none" /\ live = "super"
      /\ UNCHANGED <<live, bot, moves, updates, row, prompt, conn, told, late, crossed, poisoned, refused>>
  BY MigratingType DEF MovesPending, At, group
<1>1. PICK moved \in SUBSET {"moved"} :
        Becomes(t, [task[t] EXCEPT !.todo = (@ \ {"pending"}) \cup moved])
  BY DEF MovesPending
<1>2. /\ TaskMoved(t) /\ InTime(task'[t]) /\ task'[t].put = "none" /\ task'[t].id = task[t].id
      /\ task'[t].pc = "migrate" /\ task'[t].todo = (task[t].todo \ {"pending"}) \cup moved
  BY <1>0, <1>1, RestMoves
<1>3. HistoryGrows /\ pending' \subseteq Ids /\ prompt' \subseteq Ids
  BY <1>0, TaskType DEF MovesPending, HistoryGrows, ConnectionTypes, HistoryTypes, RowTypes,
                        Ids
<1>4. EndInv'
  BY <1>0, MigratingType, EndExcused
<1> QED
  BY <1>0, <1>2, <1>3, <1>4, TaskType, MoveKeeps

\* The row has moved to the new id.
RowMoves(t) ==
    /\ row["super"] = "none" /\ row' = [basic |-> "none", super |-> row["basic"]]
    /\ "movedRow" \in task'[t].todo
    /\ crossed' = IF Putting("basic") \cup Putting("super") # {} THEN Ids ELSE crossed
    /\ poisoned' = (poisoned \/ row["basic"] # "active")
    /\ told' = IF row["basic"] = "active" /\ bot # "out" THEN told \cup {"super"} ELSE told

\* There is none to move, or it cannot be moved.
RowStays(t) ==
    /\ row["basic"] = "none" \/ failed' = Ids
    /\ "movedRow" \in task'[t].todo <=> "movedRow" \in task[t].todo
    /\ UNCHANGED <<row, told, crossed, poisoned>>

LEMMA MovesRowDoes ==
  ASSUME ConnectionIInv, NEW t \in Tasks, MovesRow(t)
  PROVE  /\ task[t].pc = "migrate" /\ task[t].put = "none" /\ live = "super"
         /\ UNCHANGED <<live, bot, moves, updates, pending, prompt, conn, refused>>
         /\ late' = (IF OutOfDate(t) THEN Ids ELSE late)
         /\ TaskMoved(t) /\ InTime(task'[t]) /\ task'[t].put = "none"
         /\ task'[t].pc = "migrate" /\ task'[t].id = task[t].id
         /\ failed' \in {failed, Ids}
         /\ RowMoves(t) \/ RowStays(t)
<1>0. /\ task[t].pc = "migrate" /\ task[t].put = "none" /\ live = "super"
      /\ UNCHANGED <<live, bot, moves, updates, pending, prompt, conn, refused>>
      /\ late' = (IF OutOfDate(t) THEN Ids ELSE late)
  BY MigratingType DEF MovesRow, At, group
<1> DEFINE rest(moved) == Becomes(t, [task[t] EXCEPT !.todo = (@ \ {"row"}) \cup moved])
<1>1. CASE /\ row["super"] = "none" /\ row' = [basic |-> "none", super |-> row["basic"]]
           /\ rest({"moved", "movedRow"})
           /\ crossed' = (IF Putting("basic") \cup Putting("super") # {} THEN Ids ELSE crossed)
           /\ poisoned' = (poisoned \/ row["basic"] # "active")
           /\ told' = (IF row["basic"] = "active" /\ bot # "out" THEN told \cup {"super"} ELSE told)
           /\ UNCHANGED failed
  <2>1. /\ TaskMoved(t) /\ InTime(task'[t]) /\ task'[t].put = "none" /\ task'[t].id = task[t].id
        /\ task'[t].pc = "migrate"
        /\ task'[t].todo = (task[t].todo \ {"row"}) \cup {"moved", "movedRow"}
    BY <1>0, <1>1, RestMoves
  <2> QED
    BY <1>0, <1>1, <2>1 DEF RowMoves
<1>2. CASE /\ row["basic"] = "none" \/ failed' = Ids
           /\ rest({}) /\ UNCHANGED <<row, told, crossed, poisoned>> /\ failed' \in {failed, Ids}
  <2>1. /\ TaskMoved(t) /\ InTime(task'[t]) /\ task'[t].put = "none" /\ task'[t].id = task[t].id
        /\ task'[t].pc = "migrate" /\ task'[t].todo = (task[t].todo \ {"row"}) \cup {}
    BY <1>0, <1>2, RestMoves
  <2> QED
    BY <1>0, <1>2, <2>1 DEF RowStays
<1> QED
  BY <1>1, <1>2 DEF MovesRow

LEMMA MovesRowKeeps ==
  ASSUME ConnectionIInv, NEW t \in Tasks, MovesRow(t)
  PROVE  ConnectionIInv'
<1>0. /\ task[t].pc = "migrate" /\ task[t].put = "none" /\ live = "super" /\ live' = "super"
      /\ UNCHANGED <<live, bot, moves, updates, pending, prompt, conn, refused>>
      /\ late' = (IF OutOfDate(t) THEN Ids ELSE late)
      /\ TaskMoved(t) /\ InTime(task'[t]) /\ task'[t].put = "none"
      /\ task'[t].pc = "migrate" /\ task'[t].id = task[t].id
      /\ failed' \in {failed, Ids}
      /\ RowMoves(t) \/ RowStays(t)
  BY MovesRowDoes
<1>1. HistoryGrows
  <2>1. /\ failed \subseteq failed' /\ late \subseteq late' /\ crossed \subseteq crossed'
        /\ failed' \cup late' \cup crossed' \subseteq Ids
        /\ refused' \subseteq Ids
    BY <1>0, TaskType DEF ConnectionTypes, HistoryTypes, RowMoves, RowStays
  <2>2. poisoned' = (poisoned \/ row["basic"] # "active") \/ poisoned' = poisoned
    BY <1>0 DEF RowMoves, RowStays
  <2>3. poisoned = TRUE \/ poisoned = FALSE
    BY TaskType DEF ConnectionTypes, HistoryTypes
  <2>4. poisoned' \in BOOLEAN /\ (poisoned => poisoned')
    <3>1. CASE poisoned = TRUE
      <4>1. poisoned' = TRUE
        BY <2>2, <3>1
      <4> QED
        BY <4>1
    <3>2. CASE poisoned = FALSE
      <4>1. poisoned' = (row["basic"] # "active") \/ poisoned' = FALSE
        BY <2>2, <3>2
      <4>2. poisoned' \in BOOLEAN
        BY <4>1
      <4> QED
        BY <3>2, <4>2
    <3> QED
      BY <2>3, <3>1, <3>2
  <2> QED
    BY <2>1, <2>4 DEF HistoryGrows
<1>2. row' \in [Ids -> {"none", "inactive", "active"}] /\ told' \subseteq Ids
  BY <1>0, TaskType DEF ConnectionTypes, RowTypes, HistoryTypes, RowMoves, RowStays, Ids
<1>3. ConnectionTypes'
  BY <1>0, <1>1, <1>2, TaskType
     DEF ConnectionTypes, GroupTypes, RowTypes, HistoryTypes, TaskTypes, TaskMoved, HistoryGrows
<1>4. Clock' /\ TaskClock' /\ Unmigrated'
  BY <1>0, TaskType, ClockStays, TaskClockStays DEF Unmigrated
<1>5. EndInv'
  BY <1>0, MigratingType, EndExcused
<1>6. bot # "out" \/ late' = Ids
  BY <1>0, TaskType DEF InTime, OutOfDate, TaskRecords
<1>7. ASSUME NEW j \in Ids
      PROVE  Answers(j)' /\ Told(j)' /\ Ghost(j)'
  <2>0. Answers(j) /\ Told(j) /\ Ghost(j)
    BY DEF ConnectionIInv, AnswerInv, MemberInv
  <2>1. CASE failed' = Ids
    BY <2>1 DEF Answers, Told, Ghost
  <2>2. CASE RowStays(t) /\ row["basic"] = "none"
    <3>1. (YesComing(t, j)' <=> YesComing(t, j)) /\ (NoComing(t, j)' <=> NoComing(t, j))
      BY <1>0, <2>2 DEF YesComing, NoComing, RowStays
    <3>2. Answers(j)'
      BY <1>0, <1>1, <2>0, <2>2, <3>1, AnswersStay DEF RowStays
    <3>3. Told(j)'
      BY <1>0, <1>1, <2>0, <2>2 DEF Told, RowStays, StandingIn, HistoryGrows
    <3>4. Ghost(j)'
      BY <1>0, <1>6, <2>2 DEF Ghost, RowStays, StandingIn, Ids
    <3> QED
      BY <3>2, <3>3, <3>4
  <2>3. CASE RowMoves(t)
    <3>1. Answers(j)'
      <4>1. CASE poisoned' \/ crossed' = Ids
        BY <4>1 DEF Answers
      <4>2. CASE ~poisoned' /\ crossed' # Ids
        <5>1. row["basic"] = "active" /\ row'["super"] = "active" /\ row'["basic"] = "none"
          BY <2>3, <4>2, <1>1 DEF RowMoves, HistoryGrows
        <5>2. CASE j = "super"
          BY <5>1, <5>2 DEF Answers
        <5>3. CASE j = "basic"
          <6>1. Putting("basic") = {} /\ Putting("super") = {}
            BY <2>3, <4>2 DEF RowMoves
          <6>2. \A s \in Tasks : task[s].put = "none"
            BY <6>1, TaskType DEF Putting, Ids
          <6>3. \A s \in Tasks : ~YesComing(s, "basic")'
            BY <1>0, <6>2 DEF YesComing, TaskMoved
          <6>4. NoComing(t, "basic")'
            BY <2>3 DEF NoComing, RowMoves
          <6> QED
            BY <5>3, <6>3, <6>4 DEF Answers
        <5> QED
          BY <5>2, <5>3 DEF Ids
      <4> QED
        BY <4>1, <4>2
    <3>2. Told(j)'
      BY <1>0, <1>1, <2>0, <2>3 DEF Told, RowMoves, StandingIn, HistoryGrows, Ids
    <3>3. Ghost(j)'
      BY <1>0, <1>6, <2>3 DEF Ghost, RowMoves, StandingIn, Ids
    <3> QED
      BY <3>1, <3>2, <3>3
  <2> QED
    BY <1>0, <2>1, <2>2, <2>3 DEF RowStays
<1> QED
  BY <1>3, <1>4, <1>5, <1>7 DEF ConnectionIInv, WellFormed, AnswerInv, MemberInv

-----------------------------------------------------------------------------
(* The inductive invariant. *)

ConnectionParams == Moves \in Nat /\ MaxHandlers \in Nat

LEMMA ParamsHold == ConnectionParams
  BY ConnectionAssumption DEF ConnectionParams

LEMMA InitIInv == ASSUME ConnectionParams, ConnectionInit PROVE ConnectionIInv
<1>0. /\ Idle \in TaskRecords /\ live = "basic" /\ moves = 0 /\ updates = {}
      /\ \A t \in Tasks : task[t] = Idle
      /\ task \in [Tasks -> TaskRecords] /\ handlers = 0
      /\ conn \in [Ids -> {"miss", "yes", "no"}] /\ \A id \in Ids : conn[id] = "miss"
      /\ failed = {} /\ late = {} /\ crossed = {} /\ poisoned = FALSE /\ refused = {}
      /\ Moves \in Nat /\ MaxHandlers \in Nat
  BY IdleType DEF ConnectionParams, ConnectionInit
<1>1. PICK known \in {"none", "inactive"} :
        \/ bot = "out" /\ row = [basic |-> known, super |-> "none"]
           /\ pending = {} /\ prompt = {} /\ told = {}
        \/ bot = "member" /\ row = [basic |-> known, super |-> "none"]
           /\ pending = {"basic"} /\ prompt = {"basic"} /\ told = {}
        \/ bot = "admin" /\ row = [basic |-> "active", super |-> "none"]
           /\ pending = {} /\ prompt = {} /\ told = {"basic"}
  BY DEF ConnectionInit
<1>2. /\ row["super"] = "none" /\ row \in [Ids -> {"none", "inactive", "active"}]
      /\ bot \in Standings /\ pending \subseteq Ids /\ prompt \subseteq Ids
      /\ told \subseteq {"basic"}
      /\ bot # "admin" => row["basic"] # "active" /\ told = {}
      /\ bot = "admin" => row["basic"] = "active"
  BY <1>1 DEF Ids, Standings
<1>3. ConnectionTypes
  <2>1. GroupTypes /\ TaskTypes
    BY <1>0, <1>2 DEF GroupTypes, TaskTypes, Ids
  <2>2. RowTypes
    BY <1>0, <1>2 DEF RowTypes
  <2>3. HistoryTypes
    BY <1>0, <1>2 DEF HistoryTypes, Ids
  <2> QED
    BY <2>1, <2>2, <2>3 DEF ConnectionTypes
<1>4. Clock /\ TaskClock /\ Unmigrated
  BY <1>0, <1>2, IdleType DEF Clock, TaskClock, InTime, Unmigrated
<1>5. AnswerInv
  BY <1>0, IdleType DEF AnswerInv, Answers, YesComing
<1>6. MemberInv
  BY <1>0, <1>2 DEF MemberInv, Told, Ghost, StandingIn, Ids
<1>7. EndInv
  BY <1>0, <1>2, IdleType DEF EndInv, AskInv, PromptInv, YesInv, Clean, Asking
<1> QED
  BY <1>3, <1>4, <1>5, <1>6, <1>7 DEF ConnectionIInv, WellFormed

LEMMA HandlesKeeps == ASSUME ConnectionIInv, NEW t \in Tasks, Handles(t) PROVE ConnectionIInv'
<1>1. CASE \E u \in updates : \/ BotLeft(t, u) \/ BotDemoted(t, u) \/ BotAdded(t, u)
                               \/ MigrationStarts(t, u)
  BY <1>1, BotLeftKeeps, BotDemotedKeeps, BotAddedKeeps, MigrationStartsKeeps
<1>2. CASE Puts(t) \/ Asks(t) \/ Persists(t) \/ LeftDeactivates(t) \/ LeftForgets(t)
  BY <1>2, PutsKeeps, AsksKeeps, PersistsKeeps, LeftDeactivatesKeeps, LeftForgetsKeeps
<1>3. CASE \/ AddsGroup(t) \/ ClearsPending(t) \/ TapConnect(t) \/ TapRefused(t)
           \/ Cancels(t) \/ Leaves(t)
  BY <1>3, AddsGroupKeeps, ClearsPendingKeeps, TapConnectKeeps, TapRefusedKeeps, CancelsKeeps, LeavesKeeps
<1>4. CASE \/ TapCancel(t) \/ ConnectStarts(t) \/ DisconnectStarts(t)
           \/ \E id \in Ids : RmtcStarts(t, id) \/ LeaveallStarts(t, id) \/ CleanupStarts(t, id)
  BY <1>4, CommandsKeep
<1>5. CASE Disconnects(t) \/ LeaveallDeactivates(t) \/ LeaveallLeaves(t) \/ Prunes(t)
  BY <1>5, DisconnectsKeeps, LeaveallDeactivatesKeeps, LeaveallLeavesKeeps, PrunesKeeps
<1>6. CASE MovesRow(t) \/ MovesPending(t) \/ MigrationPuts(t)
  BY <1>6, MovesRowKeeps, MovesPendingKeeps, MigrationPutsKeeps
<1> QED
  BY <1>1, <1>2, <1>3, <1>4, <1>5, <1>6 DEF Handles

LEMMA StepKeepsIInv == ASSUME ConnectionIInv, [ConnectionNext]_connectionVars PROVE ConnectionIInv'
<1>1. CASE UNCHANGED connectionVars
  <2>1. UNCHANGED <<group, rows, prompt, tasks, historyVars>> /\ UNCHANGED conn
    BY <1>1 DEF connectionVars
  <2>2. conn \in [Ids -> {"miss", "yes", "no"}]
    BY DEF ConnectionIInv, WellFormed, ConnectionTypes, RowTypes
  <2> QED
    BY <2>1, <2>2, CacheKeeps
<1>2. CASE \E t \in Tasks : Handles(t)
  BY <1>2, HandlesKeeps
<1>3. CASE CacheFills \/ \E id \in Ids : CacheExpires(id)
  BY <1>3, CacheMovesKeeps
<1>4. CASE MovedByPeople \/ GroupMigrates
  BY <1>4, MovedByPeopleKeeps, GroupMigratesKeeps
<1> QED
  BY <1>1, <1>2, <1>3, <1>4 DEF ConnectionNext

LEMMA IInvHolds == ASSUME ConnectionParams PROVE ConnectionSpec => []ConnectionIInv
<1>1. ConnectionInit => ConnectionIInv
  BY InitIInv
<1>2. ConnectionIInv /\ [ConnectionNext]_connectionVars => ConnectionIInv'
  BY StepKeepsIInv
<1> QED
  BY <1>1, <1>2, PTL DEF ConnectionSpec

LEMMA IInvSuffices ==
  ASSUME ConnectionIInv
  PROVE  ConnectionTypeOK /\ NoGhost /\ StaysConnected /\ AnswersAgree /\ NoDeadEnd
<1>0. ConnectionTypes /\ AnswerInv /\ MemberInv /\ EndInv
  BY DEF ConnectionIInv, WellFormed
<1>1. ConnectionTypeOK
  BY <1>0, TypesSuffice
<1>2. NoGhost
  <2> SUFFICES ASSUME Quiet, NEW id \in Ids, row[id] = "active", StandingIn(id) = "out"
               PROVE  id \in failed \cup late
    BY DEF NoGhost
  <2>1. ~Coming(id)
    BY IdleType DEF Quiet, Coming
  <2> QED
    BY <1>0, <2>1 DEF MemberInv, Ghost
<1>3. StaysConnected
  BY <1>0 DEF StaysConnected, MemberInv, Told, ConnectionTypes, HistoryTypes
<1>4. AnswersAgree
  <2> SUFFICES ASSUME NEW id \in Ids, conn[id] = "yes", Putting(id) = {}, row[id] # "active",
                      ~(id \in failed \cup crossed \/ poisoned)
               PROVE  FALSE
    BY DEF AnswersAgree
  <2>1. PICK t \in Tasks : NoComing(t, id)
    BY <1>0 DEF AnswerInv, Answers
  <2>2. t \in Putting(id)
    BY <2>1, TaskType DEF NoComing, Putting, TaskRecords
  <2> QED
    BY <2>2
<1>5. NoDeadEnd
  <2> SUFFICES ASSUME Quiet, Clean, "basic" \in pending, row["basic"] # "active",
                      "basic" \notin prompt \cup refused
               PROVE  FALSE
    BY DEF NoDeadEnd, DeadEnd, Clean
  <2>1. Served
    BY <1>0 DEF EndInv, PromptInv
  <2> QED
    BY <2>1, IdleType DEF Served, Serves, Quiet
<1> QED
  BY <1>1, <1>2, <1>3, <1>4, <1>5

(* A group's row, its request, its prompt, its cached answer and the        *)
(* handlers that deal with them stay within their types.                    *)
THEOREM ConnectionTypeCorrect == ConnectionSpec => []ConnectionTypeOK
<1>1. ConnectionParams
  BY ParamsHold
<1>2. ConnectionIInv => ConnectionTypeOK
  BY IInvSuffices
<1> QED
  BY <1>1, <1>2, IInvHolds, PTL

(* When every update has been handled, no group the bot is out of is in the *)
(* federation: on_bot_added, /cleanup and the migration have seen to it,    *)
(* unless a write of theirs failed or came late.                            *)
THEOREM NoGhostRemains == ConnectionSpec => []NoGhost
<1>1. ConnectionParams
  BY ParamsHold
<1>2. ConnectionIInv => NoGhost
  BY IInvSuffices
<1> QED
  BY <1>1, <1>2, IInvHolds, PTL

(* complete_join has told a group that it is connected: its row stays       *)
(* active until somebody asks for the opposite, whatever order the handlers *)
(* of on_bot_added, /cleanup and on_chat_migration take.                    *)
THEOREM ToldIsConnected == ConnectionSpec => []StaysConnected
<1>1. ConnectionParams
  BY ParamsHold
<1>2. ConnectionIInv => StaysConnected
  BY IInvSuffices
<1> QED
  BY <1>1, <1>2, IInvHolds, PTL

(* is_connected's cached yes is the row's, between the put of one writer    *)
(* and the write of the next.                                               *)
THEOREM CachedYesIsRight == ConnectionSpec => []AnswersAgree
<1>1. ConnectionParams
  BY ParamsHold
<1>2. ConnectionIInv => AnswersAgree
  BY IInvSuffices
<1> QED
  BY <1>1, <1>2, IInvHolds, PTL

(* An administrator's bot with a request that /tcconnect refuses has a      *)
(* prompt to accept it with, unless a write failed, came late or crossed    *)
(* another, or a tap was refused with the bot in the rights it has:         *)
(* on_bot_added, the other taps and the commands leave none without it.     *)
THEOREM RequestHasPrompt == ConnectionSpec => []NoDeadEnd
<1>1. ConnectionParams
  BY ParamsHold
<1>2. ConnectionIInv => NoDeadEnd
  BY IInvSuffices
<1> QED
  BY <1>1, <1>2, IInvHolds, PTL
=============================================================================
