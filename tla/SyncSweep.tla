----------------------------- MODULE SyncSweep -----------------------------
(***************************************************************************)
(* run_ban_sync of tcbot/modules/syncing.py: the bounded sweep of active   *)
(* bans against connected groups, run by /tcsync and, on a timer, by the   *)
(* job of tcbot/database/scheduler.py, which is started and stopped with   *)
(* the bot.  The targeted run, verify_user, is in FedBan.                  *)
(***************************************************************************)
EXTENDS Naturals, Sequences

CONSTANTS
    Users,
    Groups,     \* the active groups, a sequence in the collection's order
    Demoted,    \* the groups where the bot may not ban
    Commands,   \* bound: /tcsync commands at a time; the job may overlap them
    MaxChecks   \* _SYNC_MAX_CHECKS

ASSUME CapAssumption == MaxChecks \in Nat \ {0}
ASSUME GroupsAssumption == Groups \in Seq({Groups[i] : i \in DOMAIN Groups})
ASSUME CommandsAssumption == "job" \notin Commands

VARIABLES
    banned,     \* users with an active ban, newest ban first
    standing,   \* each user in each group; an administrator, whom neither a
                \* ban nor a sweep touches, counts as gone
    sweep,      \* the run of each trigger
    sched,      \* the scheduler, and the bot with it
    undisturbed, \* history: the runs with no ban or lift since they began
    allClear     \* history: since such a run reported no failure and no cut,
                 \* no ban was issued or lifted

history == <<undisturbed, allClear>>
vars == <<banned, standing, sweep, sched, undisturbed, allClear>>

Triggers == Commands \cup {"job"}

GroupSet == {Groups[i] : i \in DOMAIN Groups}
Pairs == Users \X GroupSet
Enforceable == {p \in Pairs : p[2] \notin Demoted}

NoRun == [running |-> FALSE, todo |-> {}, truncated |-> FALSE, failed |-> FALSE]

TypeOK ==
    /\ banned \in Seq(Users)
    /\ \A i, j \in DOMAIN banned : banned[i] = banned[j] => i = j
    /\ standing \in [Pairs -> {"member", "left", "banned"}]
    /\ sweep \in [Triggers -> [running : BOOLEAN, todo : SUBSET Pairs,
                               truncated : BOOLEAN, failed : BOOLEAN]]
    /\ sched \in {"down", "starting", "up"}
    /\ \A t \in Triggers : sweep[t].running => sched = "up"
    /\ undisturbed \subseteq {t \in Triggers : sweep[t].running}
    /\ allClear \in BOOLEAN

Init ==
    /\ banned = <<>>
    /\ standing \in [Pairs -> {"member", "left"}]
    /\ sweep = [t \in Triggers |-> NoRun]
    /\ sched = "down"
    /\ undisturbed = {} /\ allClear = FALSE

-----------------------------------------------------------------------------
(* The rest of the federation, as far as a sweep sees it. *)

BannedUsers == {banned[i] : i \in DOMAIN banned}

(* A ban is recorded; its own fan-out reaches some groups and misses some. *)
BanIssued(u) ==
    /\ u \notin BannedUsers
    /\ banned' = <<u>> \o banned
    /\ \E reached \in SUBSET ({u} \X GroupSet) :
          standing' = [p \in Pairs |-> IF p \in reached THEN "banned" ELSE standing[p]]
    /\ undisturbed' = {} /\ allClear' = FALSE
    /\ UNCHANGED <<sweep, sched>>

(* A ban is lifted, here from every group. *)
BanLifted(u) ==
    /\ \E i \in DOMAIN banned :
          /\ banned[i] = u
          /\ banned' = SubSeq(banned, 1, i - 1) \o SubSeq(banned, i + 1, Len(banned))
    /\ standing' = [p \in Pairs |->
         IF p[1] = u /\ standing[p] = "banned" THEN "left" ELSE standing[p]]
    /\ undisturbed' = {} /\ allClear' = FALSE
    /\ UNCHANGED <<sweep, sched>>

-----------------------------------------------------------------------------
(* take_pairs: user by user, group by group, cut at the cap. *)

Product(us) ==
    LET n == Len(Groups)
    IN  [i \in 1..(Len(us) * n) |-> <<us[((i - 1) \div n) + 1], Groups[((i - 1) % n) + 1]>>]

Smaller(m, n) == IF m < n THEN m ELSE n

TakesOneLess(us) ==
    {Product(us)[i] : i \in 1..(Smaller(MaxChecks, Len(us) * Len(Groups)) - 1)}

TakePairs(us) ==
    {Product(us)[i] : i \in 1..Smaller(MaxChecks, Len(us) * Len(Groups))}

(* Every run starts from the first pair again. *)
Sweeps(t) ==
    /\ sched = "up" /\ ~sweep[t].running
    /\ sweep' = [sweep EXCEPT ![t] =
         [running |-> TRUE, todo |-> TakePairs(banned), failed |-> FALSE,
          truncated |-> Len(banned) * Len(Groups) > MaxChecks]]
    /\ undisturbed' = undisturbed \cup {t}
    /\ UNCHANGED <<banned, standing, sched, allClear>>

(* /tcsync without a target. *)
Commanded(t) == t \in Commands /\ Sweeps(t)

(* The interval has passed since the bot came up, or since it passed last; *)
(* APScheduler runs one instance of a job at a time.                       *)
Fires == Sweeps("job")

(* _sync_ban_pair: probe, then act on what the probe saw. *)

Checked(t, p, failure) ==
    sweep' = [sweep EXCEPT ![t].todo = @ \ {p}, ![t].failed = @ \/ failure]

Skips(t, p) ==
    /\ p \in sweep[t].todo
    /\ standing[p] # "member"
    /\ Checked(t, p, FALSE)
    /\ UNCHANGED <<banned, standing, sched, history>>

Enforces(t, p) ==
    /\ p \in sweep[t].todo
    /\ standing[p] = "member" /\ p[2] \notin Demoted
    /\ Checked(t, p, FALSE)
    /\ standing' = [standing EXCEPT ![p] = "banned"]
    /\ UNCHANGED <<banned, sched, history>>

(* A BadRequest, whatever it says, is taken for an absent user. *)
IsRefused(t, p) ==
    /\ p \in sweep[t].todo
    /\ standing[p] = "member" /\ p[2] \in Demoted
    /\ Checked(t, p, FALSE)
    /\ UNCHANGED <<banned, standing, sched, history>>

FailsUnnoticed(t, p) ==
    /\ p \in sweep[t].todo
    /\ Checked(t, p, FALSE)
    /\ UNCHANGED <<banned, standing, sched, history>>

(* The probe or the ban times out or breaks, or the breaker skips the pair. *)
Fails(t, p) ==
    /\ p \in sweep[t].todo
    /\ Checked(t, p, TRUE)
    /\ UNCHANGED <<banned, standing, sched, history>>

(* The counts are reported. *)
Ends(t) ==
    /\ sweep[t].running /\ sweep[t].todo = {}
    /\ sweep' = [sweep EXCEPT ![t] = NoRun]
    /\ undisturbed' = undisturbed \ {t}
    /\ allClear' = (allClear \/
         (t \in undisturbed /\ ~sweep[t].truncated /\ ~sweep[t].failed))
    /\ UNCHANGED <<banned, standing, sched>>

-----------------------------------------------------------------------------
(* The scheduler.  Its jobs live in memory and are added at every start, so *)
(* the interval begins anew.                                                *)

(* start: the background task is created, and awaited until it is ready. *)
Boots ==
    /\ sched = "down"
    /\ sched' = "starting"
    /\ UNCHANGED <<banned, standing, sweep, history>>

(* _register_periodic_schedules, the start of the jobs, and the event. *)
IsReady ==
    /\ sched = "starting"
    /\ sched' = "up"
    /\ UNCHANGED <<banned, standing, sweep, history>>

(* The task crashes, or is not ready in time: the bot does not start. *)
StartFails ==
    /\ sched = "starting"
    /\ sched' = "down"
    /\ UNCHANGED <<banned, standing, sweep, history>>

(* stop, or the end of the process: a run that is cancelled reports nothing. *)
Stops ==
    /\ sched = "up"
    /\ sched' = "down"
    /\ sweep' = [t \in Triggers |-> NoRun]
    /\ undisturbed' = {}
    /\ UNCHANGED <<banned, standing, allClear>>

PairStep(t, p) == Skips(t, p) \/ Enforces(t, p) \/ IsRefused(t, p) \/ Fails(t, p)

Next ==
    \/ \E u \in Users : BanIssued(u) \/ BanLifted(u)
    \/ \E t \in Triggers :
          Commanded(t) \/ Ends(t) \/ \E p \in Pairs : PairStep(t, p)
    \/ Fires
    \/ Boots \/ IsReady \/ StartFails \/ Stops

(* The bot is started again and at times gets up; it is up for an interval *)
(* again and again; coroutines run to their end; and no pair is failed by  *)
(* Telegram, or cut off by a stop, in every run that comes to it.          *)
Fairness ==
    /\ WF_vars(Boots)
    /\ SF_vars(IsReady)
    /\ SF_vars(Fires)
    /\ WF_vars(Ends("job"))
    /\ WF_vars(\E p \in Pairs : PairStep("job", p))
    /\ \A p \in Enforceable : SF_vars(Enforces("job", p))

Spec == Init /\ [][Next]_vars /\ Fairness

-----------------------------------------------------------------------------
Miss(p) == p[1] \in BannedUsers /\ standing[p] = "member"

(* A report of no failure and no truncation means that no banned user is   *)
(* left in a group where the bot may ban, until the next ban.              *)
ReportIsTrue == allClear => \A p \in Enforceable : ~Miss(p)

Fits == Len(Product(banned)) <= MaxChecks

(* Every banned user standing in a group where the bot may ban is banned   *)
(* there by some later run, unless the ban is lifted first, even while     *)
(* other bans come and go and the bot restarts.  A run starts over from    *)
(* the first pair, so in the end there must be room for every pair.        *)
RepeatedRunsConverge == \A p \in Enforceable : <>[]Fits => (Miss(p) ~> ~Miss(p))
=============================================================================
