-------------------------------- MODULE Roles --------------------------------
(***************************************************************************)
(* Federation roles: the owner rows, the admin rows, the sub-role row of   *)
(* one user (Subject), the cached effective role and owner, and the queue  *)
(* of promotion requests with their cards.  The handlers are               *)
(*                                                                         *)
(*   promote   /tcpromote and its buttons, directly or by a request        *)
(*   request   /tcpromoterequests                                          *)
(*   decide    a tap on the card of a request                              *)
(*   demote    the confirmed /tcdemote                                     *)
(*   transfer  /transferowner                                              *)
(*   ban       any enforcement that demotes its target first: at its       *)
(*             entry, and again before its fan-out                         *)
(*                                                                         *)
(* The reads of a handler up to its first write are one step: it may then  *)
(* act on them much later.  Every write is a step, may fail, and may have  *)
(* landed although it is reported to have failed.  A handler may end at    *)
(* any await: a lookup fails, or the bot shuts down.                       *)
(***************************************************************************)
EXTENDS Integers, FiniteSets

CONSTANTS
    Users,        \* everybody with a part in this
    First,        \* cfg.owner_id, the founder at the start
    Subject,      \* who is promoted, demoted and banned
    Deputies,     \* admins at the start
    SubRoles,     \* the custom roles in use
    Tasks,        \* bound: handlers at a time (one ban among them)
    MaxRequests,  \* bound: promotion requests in all
    MaxHandlers   \* bound: handlers in all

ASSUME RolesAssumption ==
    /\ First \in Users /\ Subject \in Users \ {First}
    /\ Deputies \subseteq Users \ {First, Subject}
    /\ SubRoles \subseteq {"tester", "developer"}
    /\ "nobody" \notin Users
    /\ MaxRequests \in Nat /\ MaxHandlers \in Nat

VARIABLES
    owners,    \* tc_owners
    admins,    \* tc_admins
    sub,       \* the Subject's row in tc_roles (bound: nobody else has one)
    ownerc,    \* owner_id_cache, where it is behind the rows
    rolec,     \* effective_role_cache, where it is behind the rows
    task,
    handlers,  \* handlers started so far
    req,       \* the status of each promotion request
    card,      \* requests whose card still has its buttons
    granted,   \* history: requests whose approval made the Subject an admin
    unsure,    \* history: requests with decisions that overlapped or failed
    crossed,   \* history: two transfers wrote at the same time
    half,      \* history: a transfer ended between its two writes
    excuse     \* history: the running ban has a reason to have missed a role

rows == <<owners, admins, sub>>
caches == <<ownerc, rolec>>
requests == <<req, card, granted, unsure>>
transfers == <<crossed, half>>
tasks == <<task, handlers>>
vars == <<rows, caches, tasks, requests, transfers, excuse>>

Requests == 1..MaxRequests
Rank == [founder |-> 4, admin |-> 3, developer |-> 2, tester |-> 1, none |-> 0]
AllRoles == DOMAIN Rank
Nobody == "nobody"                \* no owner row
Miss == "miss"                    \* no cache entry

Idle == [pc |-> "idle", role |-> "none", id |-> 0, by |-> Nobody, to |-> Nobody]

\* The steps of each handler that write, and the waits of a ban.
Promoting == {"add", "set", "cleanup", "enqueue", "notify"}
Deciding == {"approve", "resolve", "reject"}
Transferring == {"strip", "insert", "delete", "keep"}
Banning == {"demoteFirst", "reason", "demoteAgain", "fanout"}

At(pcs) == {t \in Tasks : task[t].pc \in pcs}

TypeOK ==
    /\ owners \subseteq Users /\ admins \subseteq Users
    /\ sub \in SubRoles \cup {"none"}
    /\ ownerc \in Users \cup {Nobody, Miss}
    /\ rolec \in [Users -> AllRoles \cup {Miss}]
    /\ task \in [Tasks ->
         [pc : Promoting \cup Deciding \cup Transferring \cup Banning \cup {"idle", "demote"},
          role : AllRoles, id : Requests \cup {0},
          by : Users \cup {Nobody}, to : Users \cup {Nobody}]]
    /\ handlers \in 0..MaxHandlers
    /\ req \in [Requests -> {"unborn", "pending", "approved", "rejected"}]
    /\ Cardinality({i \in Requests : req[i] = "pending"}) <= 1
    /\ card \subseteq Requests /\ granted \subseteq Requests
    /\ unsure \subseteq Requests
    /\ crossed \in BOOLEAN /\ half \in BOOLEAN /\ excuse \in BOOLEAN

Init ==
    /\ owners = {First} /\ admins = Deputies
    /\ sub \in SubRoles \cup {"none"}
    /\ ownerc = Miss /\ rolec = [u \in Users |-> Miss]
    /\ task = [t \in Tasks |-> Idle] /\ handlers = 0
    /\ req = [i \in Requests |-> "unborn"]
    /\ card = {} /\ granted = {} /\ unsure = {}
    /\ crossed = FALSE /\ half = FALSE /\ excuse = FALSE

-----------------------------------------------------------------------------
(* The cached reads.  A cache that agrees with the rows is as good as none, *)
(* so only the entries that are behind them are kept.                      *)

\* get_owner_id: with several rows find_one returns any.
OwnerAnswers ==
    IF ownerc # Miss THEN {ownerc} ELSE IF owners = {} THEN {Nobody} ELSE owners

\* What get_effective_role's fetch makes of the rows, given the owner.
Effective(u, owner) ==
    IF u = owner THEN "founder"
    ELSE IF u \in admins THEN "admin"
    ELSE IF u = Subject THEN sub ELSE "none"

\* The role of u that a handler is told.
RoleOf(u, o) == IF rolec[u] # Miss THEN rolec[u] ELSE Effective(u, o)

IsStaff(role) == Rank[role] >= Rank["admin"]

\* resolve_and_check, as a ban and a transfer ask it.
MayActOn(rank, current) == Rank[rank] >= Rank["developer"] /\ Rank[rank] > Rank[current]

-----------------------------------------------------------------------------
(* The writes. *)

\* After a write of u's rows the entry is gone, or a fetch that raced the
\* invalidation has stored the old role again (see TwoLevelCache).
MayStay(u) == {[rolec EXCEPT ![u] = r] : r \in {Miss} \cup {Effective(u, o) : o \in OwnerAnswers}}

\* A write of u's rows that succeeds, or fails before or after it has landed
\* and invalidates nothing.
Write(u, Effect, Then, Else) ==
    /\ \/ Effect /\ (Then \/ Else) /\ rolec' \in MayStay(u)
       \/ UNCHANGED <<rows, rolec>> /\ Else
    /\ UNCHANGED ownerc

Becomes(t, r) == task' = [task EXCEPT ![t] = r] /\ UNCHANGED handlers
Goes(t, pc) == Becomes(t, [task[t] EXCEPT !.pc = pc])
Ends(t) == Becomes(t, Idle)
Starts(t, r) ==
    /\ task[t].pc = "idle"
    /\ handlers < MaxHandlers
    /\ handlers' = handlers + 1
    /\ task' = [task EXCEPT ![t] = r]

GainsAdmin(u) == admins' = admins \cup {u} /\ UNCHANGED <<owners, sub>>
GainsSub(role) == sub' = role /\ UNCHANGED <<owners, admins>>

\* Demote.remove_role: the role that was read chooses the collection.
Loses(u, role) ==
    /\ admins' = IF role = "admin" THEN admins \ {u} ELSE admins
    /\ sub' = IF role # "admin" /\ u = Subject THEN "none" ELSE sub
    /\ UNCHANGED owners

\* The Subject gains a role while a ban is past its last look at the roles.
GainExcuses == excuse' = (excuse \/ At({"demoteAgain", "fanout"}) # {})

-----------------------------------------------------------------------------
(* Promotion, by /tcpromote or its buttons. *)

\* The executor's rank, the target's role, and Promote.execute up to its
\* first write.
PromoteStarts(t, e, role) ==
    \E o \in OwnerAnswers :
        LET current == RoleOf(Subject, o)
            rank == RoleOf(e, o) IN
        /\ IsStaff(rank)
        /\ Rank[current] < Rank[role]
        /\ Starts(t, [Idle EXCEPT
             !.pc = CASE role # "admin" -> "set"
                      [] role = "admin" /\ rank = "founder" -> "add"
                      [] OTHER -> "enqueue",
             !.role = CASE role # "admin" -> role
                        [] role = "admin" /\ rank = "founder" -> current
                        [] OTHER -> "none"])
        /\ UNCHANGED <<rows, caches, requests, transfers, excuse>>

\* _assign_admin, and its cleanup of the sub-role that was read.
AssignsAdmin(t) ==
    /\ task[t].pc = "add"
    /\ Write(Subject, GainsAdmin(Subject),
             IF task[t].role \in SubRoles THEN Goes(t, "cleanup") ELSE Ends(t),
             Ends(t))
    /\ GainExcuses
    /\ UNCHANGED <<requests, transfers>>

CleansUp(t) ==
    /\ task[t].pc = "cleanup"
    /\ Write(Subject, Loses(Subject, "tester"), Ends(t), Ends(t))
    /\ UNCHANGED <<requests, transfers, excuse>>

\* _assign_subrole.
AssignsSub(t) ==
    /\ task[t].pc = "set"
    /\ Write(Subject, GainsSub(task[t].role), Ends(t), Ends(t))
    /\ GainExcuses
    /\ UNCHANGED <<requests, transfers>>

-----------------------------------------------------------------------------
(* The queue of requests. *)

\* /tcpromoterequests.
RequestStarts(t) ==
    \E o \in OwnerAnswers :
        /\ RoleOf(Subject, o) = "none"
        /\ Starts(t, [Idle EXCEPT !.pc = "enqueue"])
        /\ UNCHANGED <<rows, caches, requests, transfers, excuse>>

Queues(t) ==
    \E i \in Requests :
        /\ req[i] = "unborn" /\ \A j \in 1..i-1 : req[j] # "unborn"
        /\ req' = [req EXCEPT ![i] = "pending"]
        /\ \/ Becomes(t, [Idle EXCEPT !.pc = "notify", !.id = i])
           \/ Ends(t)

\* The unique index on pending requests refuses a second one.
Enqueues(t) ==
    /\ task[t].pc = "enqueue"
    /\ \/ (\A i \in Requests : req[i] # "pending") /\ Queues(t)
       \/ Ends(t) /\ UNCHANGED req
    /\ UNCHANGED <<rows, caches, card, granted, unsure, transfers, excuse>>

\* The card goes to the owner or the log channel, or both sends fail.
Notifies(t) ==
    /\ task[t].pc = "notify"
    /\ card' \in {card, card \cup {task[t].id}}
    /\ Ends(t)
    /\ UNCHANGED <<rows, caches, req, granted, unsure, transfers, excuse>>

\* Every way out of on_promo_decision but the first edits the card, and with
\* the edit its buttons go.
Edited(i) == card' \in {card, card \ {i}}

\* Not the owner, a failed lookup, a request that is resolved.
TapTurnedAway(i) ==
    /\ i \in card
    /\ card' = card \ {i}
    /\ UNCHANGED <<rows, caches, tasks, req, granted, unsure, transfers, excuse>>

TapStarts(t, i, verdict) ==
    /\ i \in card
    /\ req[i] = "pending"
    /\ OwnerAnswers # {Nobody}
    /\ Starts(t, [Idle EXCEPT !.pc = verdict, !.id = i])
    /\ unsure' = IF \E u \in At(Deciding) : task[u].id = i THEN unsure \cup {i} ELSE unsure
    /\ UNCHANGED <<rows, caches, req, card, granted, transfers, excuse>>

\* An approval that ends in an error, the request still pending.
Botches(t) ==
    LET i == task[t].id IN
    /\ Ends(t)
    /\ Edited(i)
    /\ unsure' = unsure \cup {i}

ApproveResolvesFirst(t) ==
    LET i == task[t].id IN
    /\ task[t].pc = "approve"
    /\ req' = [req EXCEPT ![i] = "approved"]
    /\ \/ GainsAdmin(Subject) /\ granted' = granted \cup {i}
       \/ UNCHANGED <<rows, granted>>
    /\ Ends(t)
    /\ Edited(i)
    /\ UNCHANGED <<caches, unsure, transfers, excuse>>

ApproveGrants(t) ==
    LET i == task[t].id IN
    /\ task[t].pc = "approve"
    /\ UNCHANGED req
    /\ Write(Subject, GainsAdmin(Subject),
             /\ Goes(t, "resolve")
             /\ granted' = granted \cup {i}
             /\ UNCHANGED <<card, unsure>>,
             Botches(t) /\ UNCHANGED granted)
    /\ GainExcuses
    /\ UNCHANGED transfers

\* The pending filter makes resolve atomic.
ApproveResolves(t) ==
    LET i == task[t].id
        resolved == IF req[i] = "pending" THEN [req EXCEPT ![i] = "approved"] ELSE req IN
    /\ task[t].pc = "resolve"
    /\ \/ /\ req' = resolved
          /\ IF req[i] = "pending" THEN Becomes(t, [Idle EXCEPT !.pc = "cleanup"])
                                   ELSE Ends(t)
          /\ Edited(i)
          /\ UNCHANGED unsure
       \/ req' \in {req, resolved} /\ Botches(t)
    /\ UNCHANGED <<rows, caches, granted, transfers, excuse>>

RejectResolves(t) ==
    LET i == task[t].id
        resolved == IF req[i] = "pending" THEN [req EXCEPT ![i] = "rejected"] ELSE req IN
    /\ task[t].pc = "reject"
    /\ req' \in {req, resolved}
    /\ Ends(t)
    /\ Edited(i)
    /\ UNCHANGED <<rows, caches, granted, unsure, transfers, excuse>>

-----------------------------------------------------------------------------
(* Demotion, by hand and before a ban. *)

DemoteConfirmed(t, e) ==
    \E o \in OwnerAnswers :
        LET current == RoleOf(Subject, o)
            rank == RoleOf(e, o) IN
        /\ IsStaff(rank)
        /\ current \notin {"none", "founder"}
        /\ current = "admin" => rank = "founder"
        /\ Starts(t, [Idle EXCEPT !.pc = "demote", !.role = current])
        /\ UNCHANGED <<rows, caches, requests, transfers, excuse>>

Demotes(t) ==
    /\ task[t].pc = "demote"
    /\ Write(Subject, Loses(Subject, task[t].role), Ends(t), Ends(t))
    /\ UNCHANGED <<requests, transfers, excuse>>

\* The entry of a ban: resolve_and_check, then auto_demote_or_abort.
BanStarts(t, e) ==
    /\ At(Banning) = {}
    /\ \E o \in OwnerAnswers :
         LET current == RoleOf(Subject, o)
             rank == RoleOf(e, o) IN
         /\ MayActOn(rank, current)
         /\ Starts(t, [Idle EXCEPT !.pc = IF current = "none" THEN "reason" ELSE "demoteFirst",
                                   !.role = current])
    /\ UNCHANGED <<rows, caches, requests, transfers, excuse>>

\* A removal that finds no row counts as done; one that raises aborts the ban.
DemotesFirst(t) ==
    /\ task[t].pc = "demoteFirst"
    /\ Write(Subject, Loses(Subject, task[t].role),
             Becomes(t, [Idle EXCEPT !.pc = "reason"]),
             Ends(t))
    /\ UNCHANGED <<requests, transfers, excuse>>

SkipsSecondLook(t) ==
    /\ task[t].pc = "reason"
    /\ Goes(t, "fanout")
    /\ excuse' = FALSE
    /\ UNCHANGED <<rows, caches, requests, transfers>>

\* redemote_before_fanout: the role is read again; a failed read is no gate.
\* What was read may be out of date, or hide a second row behind the first.
LooksAgain(t) ==
    /\ task[t].pc = "reason"
    /\ \/ \E o \in OwnerAnswers :
            LET current == RoleOf(Subject, o) IN
            /\ Becomes(t, [Idle EXCEPT !.pc = IF current = "none" THEN "fanout" ELSE "demoteAgain",
                                       !.role = current])
            /\ excuse' = \/ current # Effective(Subject, Nobody)
                         \/ Subject \in admins /\ sub # "none"
       \/ Goes(t, "fanout") /\ excuse' = TRUE
    /\ UNCHANGED <<rows, caches, requests, transfers>>

DemotesAgain(t) ==
    LET fans == Becomes(t, [Idle EXCEPT !.pc = "fanout"]) IN
    /\ task[t].pc = "demoteAgain"
    /\ Write(Subject, Loses(Subject, task[t].role),
             fans /\ UNCHANGED excuse,
             fans /\ excuse' = TRUE)
    /\ UNCHANGED <<requests, transfers>>

BanEnds(t) ==
    /\ task[t].pc = "fanout"
    /\ Ends(t)
    /\ excuse' = FALSE
    /\ UNCHANGED <<rows, caches, requests, transfers>>

-----------------------------------------------------------------------------
(* Transfer of ownership. *)

\* owner_only, the refusal of oneself, and resolve_and_check.
TransferStarts(t, e, to) ==
    /\ e \in OwnerAnswers /\ to # e
    /\ LET rank == RoleOf(e, e)
           current == RoleOf(to, e) IN
       /\ MayActOn(rank, current)
       /\ Starts(t, [pc |-> IF current = "none" THEN "insert" ELSE "strip",
                     role |-> current, id |-> 0, by |-> e, to |-> to])
    /\ UNCHANGED <<rows, caches, requests, transfers, excuse>>

\* The new owner's old role goes, or at least that is tried.
Strips(t) ==
    LET goesOn == Becomes(t, [task[t] EXCEPT !.pc = "insert", !.role = "none"]) IN
    /\ task[t].pc = "strip"
    /\ Write(task[t].to, Loses(task[t].to, task[t].role), goesOn, goesOn)
    /\ UNCHANGED <<requests, transfers, excuse>>

\* The owner that may stay cached when the rows have changed under it.
OwnerMayStay == {ownerc} \cup OwnerAnswers

DeletesFirst(t) ==
    /\ task[t].pc = "insert"
    /\ owners' = {}
    /\ Goes(t, "delete")
    /\ UNCHANGED <<admins, sub, caches, requests, transfers, excuse>>

\* set_owner's two writes.
Inserts(t) ==
    LET to == task[t].to IN
    /\ task[t].pc = "insert"
    /\ \/ /\ owners' = owners \cup {to}
          /\ ownerc' \in OwnerMayStay
          /\ rolec' \in MayStay(to)
          /\ \/ /\ Goes(t, "delete")
                /\ crossed' = (crossed \/ At({"delete"}) # {})
                /\ UNCHANGED half
             \/ Ends(t) /\ half' = TRUE /\ UNCHANGED crossed
       \/ Ends(t) /\ UNCHANGED <<owners, caches, transfers>>
    /\ GainExcuses
    /\ UNCHANGED <<admins, sub, requests>>

Deletes(t) ==
    LET to == task[t].to
        by == task[t].by IN
    /\ task[t].pc = "delete"
    /\ \/ /\ owners' = owners \cap {to}
          /\ \/ /\ Goes(t, "keep")
                /\ half' = (half /\ crossed)
                /\ ownerc' = IF owners' = {to} THEN Miss ELSE to
                /\ rolec' = [u \in Users |-> Miss]
             \/ /\ Ends(t)
                /\ half' = TRUE
                /\ ownerc' \in OwnerMayStay
                /\ rolec' \in MayStay(by)
       \/ Ends(t) /\ half' = TRUE /\ UNCHANGED <<owners, caches>>
    /\ UNCHANGED <<admins, sub, requests, crossed, excuse>>

\* The former owner stays on as an admin.
KeepsAsAdmin(t) ==
    LET e == task[t].by IN
    /\ task[t].pc = "keep"
    /\ Write(e, GainsAdmin(e), Ends(t), Ends(t))
    /\ IF e = Subject THEN GainExcuses ELSE UNCHANGED excuse
    /\ UNCHANGED <<requests, transfers>>

-----------------------------------------------------------------------------
(* The rest of the world. *)

RoleExpires(u) ==
    /\ rolec[u] # Miss
    /\ rolec' = [rolec EXCEPT ![u] = Miss]
    /\ UNCHANGED <<rows, ownerc, tasks, requests, transfers, excuse>>

OwnerExpires ==
    /\ ownerc # Miss
    /\ ownerc' = Miss
    /\ UNCHANGED <<rows, rolec, tasks, requests, transfers, excuse>>

\* A handler ends at an await: a lookup has failed, or the bot goes down.
Dies(t) ==
    /\ task[t].pc # "idle"
    /\ Ends(t)
    /\ half' = (half \/ task[t].pc = "delete")
    /\ unsure' = IF task[t].pc \in Deciding THEN unsure \cup {task[t].id} ELSE unsure
    /\ excuse' = (excuse /\ task[t].pc \notin Banning)
    /\ UNCHANGED <<rows, caches, req, card, granted, crossed>>

\* A restart: ensure_initial_owner, and the caches are empty again.
Boots ==
    /\ At({"idle"}) = Tasks
    /\ owners' = IF owners = {} THEN {First} ELSE owners
    /\ IF owners = {} THEN crossed' = FALSE /\ half' = FALSE ELSE UNCHANGED transfers
    /\ ownerc' = Miss /\ rolec' = [u \in Users |-> Miss]
    /\ UNCHANGED <<admins, sub, tasks, requests, excuse>>

Handles(t) ==
    \/ \E e \in Users :
         \/ \E role \in SubRoles \cup {"admin"} : PromoteStarts(t, e, role)
         \/ DemoteConfirmed(t, e) \/ BanStarts(t, e)
         \/ \E to \in Users : TransferStarts(t, e, to)
    \/ RequestStarts(t)
    \/ \E i \in Requests : TapStarts(t, i, "approve") \/ TapStarts(t, i, "reject")
    \/ AssignsAdmin(t) \/ CleansUp(t) \/ AssignsSub(t)
    \/ Enqueues(t) \/ Notifies(t)
    \/ ApproveGrants(t) \/ ApproveResolves(t) \/ RejectResolves(t)
    \/ Demotes(t) \/ DemotesFirst(t) \/ LooksAgain(t) \/ DemotesAgain(t) \/ BanEnds(t)
    \/ Strips(t) \/ Inserts(t) \/ Deletes(t) \/ KeepsAsAdmin(t)
    \/ Dies(t)

Next ==
    \/ \E t \in Tasks : Handles(t)
    \/ \E i \in Requests : TapTurnedAway(i)
    \/ \E u \in Users : RoleExpires(u)
    \/ OwnerExpires \/ Boots

Spec == Init /\ [][Next]_vars

-----------------------------------------------------------------------------
(* Properties. *)

(* The federation always has an owner, and outside of a transfer exactly   *)
(* one, unless two transfers wrote at the same time (each then deletes the *)
(* other's row) or one ended between its writes.                           *)
OwnerIsUnique ==
    /\ ~crossed => owners # {}
    /\ ~crossed /\ ~half /\ At({"delete"}) = {} => Cardinality(owners) = 1

(* A request that counts as approved made its user an admin, and one that  *)
(* counts as rejected did not, unless its decisions overlapped or failed.  *)
VerdictIsKept ==
    \A i \in Requests :
        /\ req[i] = "approved" => i \in granted \cup unsure
        /\ req[i] = "rejected" /\ i \in granted => i \in unsure

(* Whoever is being banned in the chats holds no role any more, unless the *)
(* second look failed, read a role that was not the one in force, met two  *)
(* rows of the same user, or was followed by a promotion.                  *)
BannedHoldsNoRole ==
    At({"fanout"}) # {} /\ ~excuse => Subject \notin admins /\ sub = "none"
=============================================================================
