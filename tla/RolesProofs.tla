---------------------------- MODULE RolesProofs ----------------------------
(***************************************************************************)
(* Safety of the roles for any users, any number of handlers at once and   *)
(* any number of requests.                                                 *)
(***************************************************************************)
EXTENDS Roles, FiniteSetTheorems, TLAPS

Places == Promoting \cup Deciding \cup Transferring \cup Banning \cup {"idle", "demote"}

TaskRecords ==
    [pc : Places, role : AllRoles, id : Requests \cup {0},
     by : Users \cup {Nobody}, to : Users \cup {Nobody}]

\* A transfer knows its users, a decision its request and a sub-role its name.
Sound(r) ==
    /\ r.pc = "set" => r.role \in SubRoles
    /\ r.pc \in Transferring => r.by \in Users /\ r.to \in Users
    /\ r.pc \in Deciding \cup {"notify"} => r.id \in Requests

RowTypes ==
    /\ owners \in SUBSET Users /\ admins \in SUBSET Users
    /\ sub \in SubRoles \cup {"none"}
    /\ ownerc \in Users \cup {Nobody, Miss}
    /\ rolec \in [Users -> AllRoles \cup {Miss}]
    /\ crossed \in BOOLEAN /\ half \in BOOLEAN /\ excuse \in BOOLEAN

TaskTypes ==
    /\ task \in [Tasks -> TaskRecords]
    /\ \A t \in Tasks : Sound(task[t])
    /\ handlers \in 0..MaxHandlers

RequestTypes ==
    /\ req \in [Requests -> {"unborn", "pending", "approved", "rejected"}]
    /\ \A i, j \in Requests : req[i] = "pending" /\ req[j] = "pending" => i = j
    /\ card \in SUBSET Requests /\ granted \in SUBSET Requests /\ unsure \in SUBSET Requests

Typed == RowTypes /\ TaskTypes /\ RequestTypes

(* As long as no two transfers crossed, one at most is about to delete the *)
(* other owners, and its own is among them.                                *)
OwnerInv ==
    ~crossed =>
        /\ owners # {}
        /\ \A t \in At({"delete"}) : task[t].to \in owners
        /\ \A t, u \in At({"delete"}) : t = u
        /\ ~half /\ At({"delete"}) = {} => \E o \in Users : owners = {o}

(* As long as a request's decisions did not overlap or fail, one at most is *)
(* on its way, the request is pending until it resolves it, and whoever    *)
(* has granted is about to resolve.                                        *)
VerdictInv ==
    /\ VerdictIsKept
    /\ \A t \in At(Deciding) : req[task[t].id] # "unborn"
    /\ \A t \in At({"resolve"}) : task[t].id \in granted
    /\ \A t \in At(Deciding) : task[t].id \notin unsure =>
           /\ req[task[t].id] = "pending"
           /\ \A u \in At(Deciding) : task[u].id = task[t].id => u = t
    /\ \A i \in granted \ unsure :
           /\ req[i] # "unborn"
           /\ req[i] = "pending" => \E t \in At({"resolve"}) : task[t].id = i

(* There is one ban at most; unless it has an excuse it knows the only     *)
(* role the Subject may hold when it demotes again, and that there is none *)
(* when it fans out.                                                       *)
BanInv ==
    /\ \A t, u \in At(Banning) : t = u
    /\ ~excuse =>
          /\ \A t \in At({"demoteAgain"}) :
                /\ Subject \in admins => task[t].role = "admin" /\ sub = "none"
                /\ sub # "none" => task[t].role # "admin"
          /\ BannedHoldsNoRole

IInv == Typed /\ OwnerInv /\ VerdictInv /\ BanInv

-----------------------------------------------------------------------------
LEMMA Bounds ==
    /\ First \in Users /\ Subject \in Users /\ Deputies \subseteq Users
    /\ SubRoles \subseteq {"tester", "developer"}
    /\ Nobody \notin Users
    /\ MaxRequests \in Nat /\ MaxHandlers \in Nat
    /\ Requests = 1..MaxRequests /\ 0 \notin Requests
    /\ AllRoles = {"founder", "admin", "developer", "tester", "none"}
    /\ SubRoles \cup {"none"} \subseteq AllRoles
  BY RolesAssumption DEF Nobody, Requests, AllRoles, Rank

LEMMA IdleSound ==
    /\ Idle \in TaskRecords /\ Sound(Idle) /\ Idle.pc = "idle"
    /\ Idle.role = "none" /\ Idle.id = 0 /\ Idle.by = Nobody /\ Idle.to = Nobody
  BY Bounds DEF Idle, TaskRecords, Sound, Places, Transferring, Deciding

LEMMA Answered ==
  ASSUME Typed
  PROVE  /\ OwnerAnswers \subseteq Users \cup {Nobody, Miss}
         /\ \A u \in Users, o \in OwnerAnswers : RoleOf(u, o) \in AllRoles
         /\ \A u, o : Effective(u, o) \in AllRoles
         /\ \A u \in Users : MayStay(u) \subseteq [Users -> AllRoles \cup {Miss}]
<1>1. OwnerAnswers \subseteq Users \cup {Nobody, Miss}
  BY DEF Typed, RowTypes, OwnerAnswers
<1>2. \A u, o : Effective(u, o) \in AllRoles
  BY Bounds DEF Typed, RowTypes, Effective
<1>3. \A u \in Users, o \in OwnerAnswers : RoleOf(u, o) \in AllRoles
  BY <1>2 DEF Typed, RowTypes, RoleOf
<1>4. \A u \in Users : MayStay(u) \subseteq [Users -> AllRoles \cup {Miss}]
  BY <1>2 DEF Typed, RowTypes, MayStay
<1> QED
  BY <1>1, <1>2, <1>3, <1>4

LEMMA TypesSuffice == Typed => TypeOK
<1> SUFFICES ASSUME Typed PROVE TypeOK
  OBVIOUS
<1> DEFINE pending == {i \in Requests : req[i] = "pending"}
<1>1. Cardinality(pending) <= 1
  <2>1. CASE pending = {}
    BY <2>1, FS_EmptySet
  <2>2. CASE pending # {}
    <3> PICK i \in pending : TRUE
      BY <2>2
    <3>1. pending = {i}
      BY DEF Typed, RequestTypes
    <3> QED
      BY <3>1, FS_Singleton
  <2> QED
    BY <2>1, <2>2
<1> QED
  BY <1>1 DEF Typed, RowTypes, TaskTypes, RequestTypes, TypeOK, TaskRecords, Places

-----------------------------------------------------------------------------
(* What a step that goes on to rec leaves as it was. *)

LEMMA TaskFrame ==
  ASSUME TaskTypes, NEW t \in Tasks, NEW rec \in TaskRecords, Sound(rec),
         task' = [task EXCEPT ![t] = rec], handlers' \in 0..MaxHandlers
  PROVE  /\ TaskTypes'
         /\ \A u \in Tasks : task'[u] = IF u = t THEN rec ELSE task[u]
         /\ \A pcs : At(pcs)' = IF rec.pc \in pcs THEN At(pcs) \cup {t} ELSE At(pcs) \ {t}
  BY DEF TaskTypes, At

LEMMA OwnerFrame ==
  ASSUME TaskTypes, OwnerInv, NEW t \in Tasks, NEW rec, task' = [task EXCEPT ![t] = rec],
         task[t].pc # "delete", rec.pc # "delete",
         UNCHANGED <<owners, crossed, half>>
  PROVE  OwnerInv'
  BY DEF TaskTypes, OwnerInv, At

LEMMA VerdictFrame ==
  ASSUME TaskTypes, VerdictInv, NEW t \in Tasks, NEW rec, task' = [task EXCEPT ![t] = rec],
         task[t].pc \notin Deciding, rec.pc \notin Deciding,
         UNCHANGED <<req, granted, unsure>>
  PROVE  VerdictInv'
  BY DEF TaskTypes, VerdictInv, VerdictIsKept, At, Deciding

LEMMA BanFrame ==
  ASSUME TaskTypes, BanInv, NEW t \in Tasks, NEW rec, task' = [task EXCEPT ![t] = rec],
         task[t].pc \notin Banning, rec.pc \notin Banning,
         excuse => excuse',
         \/ (Subject \in admins' => Subject \in admins) /\ sub' \in {sub, "none"}
         \/ excuse' \/ At({"demoteAgain", "fanout"}) = {}
  PROVE  BanInv'
<1>1. \A u \in Tasks : task'[u] = IF u = t THEN rec ELSE task[u]
  BY DEF TaskTypes
<1>2. \A u \in Tasks : u \in At(Banning)' => u \in At(Banning)
  BY <1>1 DEF At
<1>3. /\ At({"demoteAgain"})' = At({"demoteAgain"}) /\ At({"fanout"})' = At({"fanout"})
      /\ \A u \in At({"demoteAgain"}) : task'[u] = task[u]
  BY <1>1 DEF At, Banning
<1>4. CASE (Subject \in admins' => Subject \in admins) /\ sub' \in {sub, "none"}
  <2> SUFFICES ASSUME ~excuse' PROVE BanInv'
    BY <1>2 DEF BanInv, At
  <2>1. ~excuse
    OBVIOUS
  <2>2. \A t1, u \in At(Banning)' : t1 = u
    BY <1>2 DEF BanInv, At
  <2>3. ASSUME NEW u \in At({"demoteAgain"})'
        PROVE  /\ Subject \in admins' => task'[u].role = "admin" /\ sub' = "none"
               /\ sub' # "none" => task'[u].role # "admin"
    <3>1. u \in At({"demoteAgain"}) /\ task'[u] = task[u]
      BY <1>3
    <3>2. /\ Subject \in admins => task[u].role = "admin" /\ sub = "none"
          /\ sub # "none" => task[u].role # "admin"
      BY <3>1, <2>1 DEF BanInv
    <3> QED
      BY <3>1, <3>2, <1>4
  <2>4. BannedHoldsNoRole'
    BY <1>3, <1>4, <2>1 DEF BanInv, BannedHoldsNoRole
  <2> QED
    BY <2>2, <2>3, <2>4 DEF BanInv
<1>5. CASE excuse'
  BY <1>2, <1>5 DEF BanInv, At
<1>6. CASE At({"demoteAgain", "fanout"}) = {}
  <2>1. At({"demoteAgain"})' = {} /\ At({"fanout"})' = {}
    BY <1>3, <1>6 DEF At
  <2> QED
    BY <1>2, <2>1 DEF BanInv, BannedHoldsNoRole, At
<1> QED
  BY <1>4, <1>5, <1>6

(* A step that is part of no decision, ban or deletion.                    *)
LEMMA PlainStep ==
  ASSUME IInv, NEW t \in Tasks, NEW rec \in TaskRecords, Sound(rec),
         task' = [task EXCEPT ![t] = rec], handlers' \in 0..MaxHandlers,
         task[t].pc \notin Deciding \cup Banning \cup {"delete"},
         rec.pc \notin Deciding \cup Banning \cup {"delete"},
         UNCHANGED <<owners, ownerc, req, granted, unsure, transfers>>,
         admins' \in SUBSET Users, sub' \in SubRoles \cup {"none"},
         rolec' = rolec \/ \E u \in Users : rolec' \in MayStay(u),
         card' \in SUBSET Requests,
         \/ excuse' = excuse
            /\ (Subject \in admins' => Subject \in admins) /\ sub' \in {sub, "none"}
         \/ GainExcuses
  PROVE  IInv'
<1>1. Typed /\ TaskTypes /\ OwnerInv /\ VerdictInv /\ BanInv
  BY DEF IInv, Typed
<1>2. RowTypes'
  <2>1. rolec' \in [Users -> AllRoles \cup {Miss}]
    BY <1>1, Answered DEF Typed, RowTypes
  <2>2. excuse' \in BOOLEAN
    BY <1>1 DEF GainExcuses, Typed, RowTypes
  <2> QED
    BY <1>1, <2>1, <2>2 DEF Typed, RowTypes, transfers
<1>3. TaskTypes'
  BY <1>1, TaskFrame
<1>4. RequestTypes'
  BY <1>1 DEF Typed, RequestTypes
<1>5. OwnerInv'
  BY <1>1, OwnerFrame DEF transfers
<1>6. VerdictInv'
  BY <1>1, VerdictFrame
<1>7. BanInv'
  <2>1. task[t].pc \notin Banning /\ rec.pc \notin Banning
    OBVIOUS
  <2>2. CASE GainExcuses
    <3>1. excuse => excuse'
      BY <2>2 DEF GainExcuses
    <3>2. excuse' \/ At({"demoteAgain", "fanout"}) = {}
      BY <2>2 DEF GainExcuses
    <3> QED
      BY <1>1, <2>1, <3>1, <3>2, BanFrame
  <2>3. CASE excuse' = excuse
             /\ (Subject \in admins' => Subject \in admins) /\ sub' \in {sub, "none"}
    <3>1. excuse => excuse'
      BY <2>3
    <3> QED
      BY <1>1, <2>1, <2>3, <3>1, BanFrame
  <2> QED
    BY <2>2, <2>3
<1> QED
  BY <1>2, <1>3, <1>4, <1>5, <1>6, <1>7 DEF IInv, Typed

-----------------------------------------------------------------------------
(* Promotion, requests, demotion and the plain steps of a transfer. *)

LEMMA Started ==
  ASSUME TaskTypes, NEW t \in Tasks, NEW rec, Starts(t, rec)
  PROVE  /\ task[t].pc = "idle" /\ task' = [task EXCEPT ![t] = rec]
         /\ handlers' \in 0..MaxHandlers
<1>1. MaxHandlers \in Nat /\ handlers \in 0..MaxHandlers
  BY Bounds DEF TaskTypes
<1>2. handlers < MaxHandlers /\ handlers' = handlers + 1
  BY DEF Starts
<1>3. handlers' \in 0..MaxHandlers
  BY <1>1, <1>2
<1> QED
  BY <1>3 DEF Starts

LEMMA Moved ==
  ASSUME TaskTypes, NEW t \in Tasks,
         NEW pc \in Places \ (Deciding \cup {"notify", "set"}),
         pc \in Transferring => task[t].pc \in Transferring
  PROVE  LET rec == [task[t] EXCEPT !.pc = pc] IN
         /\ rec \in TaskRecords /\ Sound(rec) /\ rec.pc = pc
<1>1. task[t] \in TaskRecords /\ Sound(task[t])
  BY DEF TaskTypes
<1> QED
  BY <1>1 DEF TaskRecords, Sound

LEMMA Put ==
  ASSUME NEW pc \in Places \ (Deciding \cup Transferring \cup {"notify"}), NEW role \in AllRoles,
         pc = "set" => role \in SubRoles
  PROVE  LET rec == [Idle EXCEPT !.pc = pc, !.role = role] IN
         /\ rec \in TaskRecords /\ Sound(rec) /\ rec.pc = pc /\ rec.role = role
<1>1. Idle \in TaskRecords
  BY IdleSound
<1> QED
  BY <1>1 DEF TaskRecords, Sound

LEMMA PutPc ==
  ASSUME NEW pc \in Places \ (Deciding \cup Transferring \cup {"notify", "set"})
  PROVE  LET rec == [Idle EXCEPT !.pc = pc] IN
         /\ rec \in TaskRecords /\ Sound(rec) /\ rec.pc = pc /\ rec.id = 0
<1>1. Idle \in TaskRecords /\ Idle.id = 0
  BY IdleSound
<1> QED
  BY <1>1 DEF TaskRecords, Sound

LEMMA PutId ==
  ASSUME NEW pc \in Deciding \cup {"notify"}, NEW i \in Requests
  PROVE  LET rec == [Idle EXCEPT !.pc = pc, !.id = i] IN
         /\ rec \in TaskRecords /\ Sound(rec) /\ rec.pc = pc /\ rec.id = i
<1>1. Idle \in TaskRecords
  BY IdleSound
<1>2. pc \in Places /\ pc \notin Transferring
  BY DEF Places, Promoting, Deciding, Transferring
<1>3. pc # "set"
  BY DEF Deciding
<1> QED
  BY <1>1, <1>2, <1>3 DEF TaskRecords, Sound

LEMMA PromoteStep ==
  ASSUME IInv, NEW t \in Tasks, NEW e \in Users, NEW role \in SubRoles \cup {"admin"},
         PromoteStarts(t, e, role)
  PROVE  IInv'
<1> PICK o \in OwnerAnswers :
      LET current == RoleOf(Subject, o)
          rank == RoleOf(e, o) IN
      /\ IsStaff(rank)
      /\ Rank[current] < Rank[role]
      /\ Starts(t, [Idle EXCEPT
           !.pc = CASE role # "admin" -> "set"
                    [] role = "admin" /\ rank = "founder" -> "add"
                    [] OTHER -> "enqueue",
           !.role = CASE role # "admin" -> role
                      [] role = "admin" /\ rank = "founder" -> current
                      [] OTHER -> "none"])
      /\ UNCHANGED <<rows, caches, requests, transfers, excuse>>
  BY DEF PromoteStarts
<1> DEFINE pc == CASE role # "admin" -> "set"
                   [] role = "admin" /\ RoleOf(e, o) = "founder" -> "add"
                   [] OTHER -> "enqueue"
           new == CASE role # "admin" -> role
                    [] role = "admin" /\ RoleOf(e, o) = "founder" -> RoleOf(Subject, o)
                    [] OTHER -> "none"
           rec == [Idle EXCEPT !.pc = pc, !.role = new]
<1>1. pc \in {"set", "add", "enqueue"}
  OBVIOUS
<1>2. new \in AllRoles
  BY Bounds, Answered DEF IInv
<1>3. Starts(t, rec) /\ UNCHANGED <<rows, caches, requests, transfers, excuse>>
  OBVIOUS
<1>4. pc = "set" => new \in SubRoles
  OBVIOUS
<1> HIDE DEF pc, new
<1>5. rec \in TaskRecords /\ Sound(rec) /\ rec.pc = pc
  BY <1>1, <1>2, <1>4, Put DEF Places, Promoting, Deciding, Transferring
<1> HIDE DEF rec
<1>6. task[t].pc = "idle" /\ task' = [task EXCEPT ![t] = rec] /\ handlers' \in 0..MaxHandlers
  BY <1>3, Started DEF IInv, Typed
<1> QED
  BY <1>1, <1>3, <1>5, <1>6, PlainStep
     DEF IInv, Typed, RowTypes, RequestTypes, rows, caches, requests, Deciding, Banning

LEMMA RequestStep ==
  ASSUME IInv, NEW t \in Tasks, RequestStarts(t)
  PROVE  IInv'
<1> DEFINE rec == [Idle EXCEPT !.pc = "enqueue"]
<1>1. Starts(t, rec) /\ UNCHANGED <<rows, caches, requests, transfers, excuse>>
  BY DEF RequestStarts
<1>2. rec \in TaskRecords /\ Sound(rec) /\ rec.pc = "enqueue"
  BY PutPc DEF Places, Promoting, Deciding, Transferring
<1> HIDE DEF rec
<1>3. task[t].pc = "idle" /\ task' = [task EXCEPT ![t] = rec] /\ handlers' \in 0..MaxHandlers
  BY <1>1, Started DEF IInv, Typed
<1> QED
  BY <1>1, <1>2, <1>3, PlainStep
     DEF IInv, Typed, RowTypes, RequestTypes, rows, caches, requests, Deciding, Banning

LEMMA DemoteConfirmedStep ==
  ASSUME IInv, NEW t \in Tasks, NEW e \in Users, DemoteConfirmed(t, e)
  PROVE  IInv'
<1> PICK o \in OwnerAnswers :
      /\ Starts(t, [Idle EXCEPT !.pc = "demote", !.role = RoleOf(Subject, o)])
      /\ UNCHANGED <<rows, caches, requests, transfers, excuse>>
  BY DEF DemoteConfirmed
<1> DEFINE new == RoleOf(Subject, o)
           rec == [Idle EXCEPT !.pc = "demote", !.role = new]
<1>1. new \in AllRoles
  BY Bounds, Answered DEF IInv
<1>2. Starts(t, rec)
  OBVIOUS
<1> HIDE DEF new
<1>3. rec \in TaskRecords /\ Sound(rec) /\ rec.pc = "demote"
  BY <1>1, Put DEF Places, Deciding, Transferring
<1> HIDE DEF rec
<1>4. task[t].pc = "idle" /\ task' = [task EXCEPT ![t] = rec] /\ handlers' \in 0..MaxHandlers
  BY <1>2, Started DEF IInv, Typed
<1> QED
  BY <1>3, <1>4, PlainStep
     DEF IInv, Typed, RowTypes, RequestTypes, rows, caches, requests, Deciding, Banning

LEMMA TransferStartsStep ==
  ASSUME IInv, NEW t \in Tasks, NEW e \in Users, NEW to \in Users, TransferStarts(t, e, to)
  PROVE  IInv'
<1> DEFINE current == RoleOf(to, e)
           rec == [pc |-> IF current = "none" THEN "insert" ELSE "strip",
                   role |-> current, id |-> 0, by |-> e, to |-> to]
<1>1. e \in OwnerAnswers /\ Starts(t, rec) /\ UNCHANGED <<rows, caches, requests, transfers, excuse>>
  BY DEF TransferStarts
<1>2. current \in AllRoles
  BY <1>1, Answered DEF IInv
<1> HIDE DEF current
<1>3. rec \in TaskRecords /\ Sound(rec) /\ rec.pc \in {"insert", "strip"}
  BY <1>2 DEF TaskRecords, Places, Transferring, Sound, Deciding
<1> HIDE DEF rec
<1>4. task[t].pc = "idle" /\ task' = [task EXCEPT ![t] = rec] /\ handlers' \in 0..MaxHandlers
  BY <1>1, Started DEF IInv, Typed
<1> QED
  BY <1>1, <1>3, <1>4, PlainStep
     DEF IInv, Typed, RowTypes, RequestTypes, rows, caches, requests, Deciding, Banning

(* Whatever a plain handler writes of its roles, and however it goes on.   *)
LEMMA PlainWrite ==
  ASSUME IInv, NEW t \in Tasks, NEW rec \in TaskRecords, Sound(rec), Becomes(t, rec),
         task[t].pc \notin Deciding \cup Banning \cup {"delete"},
         rec.pc \notin Deciding \cup Banning \cup {"delete"},
         UNCHANGED <<owners, ownerc, requests, transfers>>,
         NEW u \in Users, rolec' = rolec \/ rolec' \in MayStay(u),
         admins' \in SUBSET Users, sub' \in SubRoles \cup {"none"},
         \/ excuse' = excuse
            /\ (Subject \in admins' => Subject \in admins) /\ sub' \in {sub, "none"}
         \/ GainExcuses
  PROVE  IInv'
<1>1. task' = [task EXCEPT ![t] = rec] /\ handlers' \in 0..MaxHandlers
  BY DEF Becomes, IInv, Typed, TaskTypes
<1> QED
  BY <1>1, PlainStep DEF IInv, Typed, RequestTypes, requests

LEMMA AssignsAdminStep ==
  ASSUME IInv, NEW t \in Tasks, AssignsAdmin(t)
  PROVE  IInv'
<1>1. PICK rec \in {Idle, [task[t] EXCEPT !.pc = "cleanup"]} : Becomes(t, rec)
  BY DEF AssignsAdmin, Write, Goes, Ends
<1>2. rec \in TaskRecords /\ Sound(rec) /\ rec.pc \in {"idle", "cleanup"}
  <2>1. CASE rec = Idle
    BY <2>1, IdleSound
  <2>2. CASE rec = [task[t] EXCEPT !.pc = "cleanup"]
    <3>1. "cleanup" \in Places \ (Deciding \cup {"notify", "set"}) /\ "cleanup" \notin Transferring
      BY DEF Places, Promoting, Deciding, Transferring
    <3> QED
      BY <2>2, <3>1, Moved DEF IInv, Typed
  <2> QED
    BY <2>1, <2>2
<1>3. /\ UNCHANGED <<owners, sub, ownerc, requests, transfers>> /\ GainExcuses
      /\ rolec' = rolec \/ rolec' \in MayStay(Subject)
      /\ admins' \in {admins, admins \cup {Subject}}
  BY DEF AssignsAdmin, Write, GainsAdmin, rows
<1>4. admins' \in SUBSET Users /\ sub' \in SubRoles \cup {"none"}
  BY <1>3, Bounds DEF IInv, Typed, RowTypes
<1>5. task[t].pc = "add"
  BY DEF AssignsAdmin
<1> QED
  BY <1>1, <1>2, <1>3, <1>4, <1>5, Bounds, PlainWrite DEF Deciding, Banning

LEMMA CleansUpStep ==
  ASSUME IInv, NEW t \in Tasks, CleansUp(t)
  PROVE  IInv'
<1>1. Becomes(t, Idle)
  BY DEF CleansUp, Write, Ends
<1>2. /\ UNCHANGED <<owners, admins, ownerc, requests, transfers, excuse>>
      /\ rolec' = rolec \/ rolec' \in MayStay(Subject)
      /\ sub' \in {sub, "none"}
  BY DEF CleansUp, Write, Loses, rows
<1>3. task[t].pc = "cleanup"
  BY DEF CleansUp
<1>4. admins' \in SUBSET Users /\ sub' \in SubRoles \cup {"none"}
  BY <1>2 DEF IInv, Typed, RowTypes
<1> QED
  BY <1>1, <1>2, <1>3, <1>4, Bounds, IdleSound, PlainWrite DEF Deciding, Banning

LEMMA AssignsSubStep ==
  ASSUME IInv, NEW t \in Tasks, AssignsSub(t)
  PROVE  IInv'
<1>1. Becomes(t, Idle)
  BY DEF AssignsSub, Write, Ends
<1>2. /\ UNCHANGED <<owners, admins, ownerc, requests, transfers>> /\ GainExcuses
      /\ rolec' = rolec \/ rolec' \in MayStay(Subject)
      /\ sub' \in {sub, task[t].role}
  BY DEF AssignsSub, Write, GainsSub, rows
<1>3. task[t].pc = "set" /\ task[t].role \in SubRoles
  BY DEF AssignsSub, IInv, Typed, TaskTypes, Sound
<1>4. admins' \in SUBSET Users /\ sub' \in SubRoles \cup {"none"}
  BY <1>2, <1>3 DEF IInv, Typed, RowTypes
<1> QED
  BY <1>1, <1>2, <1>3, <1>4, Bounds, IdleSound, PlainWrite DEF Deciding, Banning

LEMMA NotifiesStep ==
  ASSUME IInv, NEW t \in Tasks, Notifies(t)
  PROVE  IInv'
<1>1. task[t].pc = "notify" /\ task' = [task EXCEPT ![t] = Idle] /\ handlers' \in 0..MaxHandlers
  BY DEF Notifies, Ends, Becomes, IInv, Typed, TaskTypes
<1>2. task[t].id \in Requests
  BY <1>1 DEF IInv, Typed, TaskTypes, Sound
<1>3. card' \in SUBSET Requests
  BY <1>2 DEF Notifies, IInv, Typed, RequestTypes
<1> QED
  BY <1>1, <1>3, IdleSound, PlainStep
     DEF Notifies, IInv, Typed, RowTypes, rows, caches, Deciding, Banning

LEMMA DemotesStep ==
  ASSUME IInv, NEW t \in Tasks, Demotes(t)
  PROVE  IInv'
<1>1. Becomes(t, Idle)
  BY DEF Demotes, Write, Ends
<1>2. /\ UNCHANGED <<owners, ownerc, requests, transfers, excuse>>
      /\ rolec' = rolec \/ rolec' \in MayStay(Subject)
      /\ admins' \subseteq admins /\ sub' \in {sub, "none"}
  BY DEF Demotes, Write, Loses, rows
<1>3. task[t].pc = "demote"
  BY DEF Demotes
<1>4. admins' \in SUBSET Users /\ sub' \in SubRoles \cup {"none"}
  BY <1>2 DEF IInv, Typed, RowTypes
<1> QED
  BY <1>1, <1>2, <1>3, <1>4, Bounds, IdleSound, PlainWrite DEF Deciding, Banning

LEMMA StripsStep ==
  ASSUME IInv, NEW t \in Tasks, Strips(t)
  PROVE  IInv'
<1> DEFINE rec == [task[t] EXCEPT !.pc = "insert", !.role = "none"]
<1>1. task[t].pc = "strip"
  BY DEF Strips
<1>2. task[t] \in TaskRecords /\ task[t].to \in Users /\ task[t].by \in Users
  BY <1>1 DEF IInv, Typed, TaskTypes, Sound, Transferring
<1>3. rec \in TaskRecords /\ Sound(rec) /\ rec.pc = "insert"
  BY <1>2, Bounds DEF TaskRecords, Sound, Places, Transferring, Deciding
<1>4. Becomes(t, rec)
  BY DEF Strips, Write
<1>5. /\ UNCHANGED <<owners, ownerc, requests, transfers, excuse>>
      /\ rolec' = rolec \/ rolec' \in MayStay(task[t].to)
      /\ admins' \subseteq admins /\ sub' \in {sub, "none"}
  BY DEF Strips, Write, Loses, rows
<1>6. admins' \in SUBSET Users /\ sub' \in SubRoles \cup {"none"}
  BY <1>5 DEF IInv, Typed, RowTypes
<1> HIDE DEF rec
<1> QED
  BY <1>1, <1>2, <1>3, <1>4, <1>5, <1>6, PlainWrite DEF Deciding, Banning

LEMMA KeepsAsAdminStep ==
  ASSUME IInv, NEW t \in Tasks, KeepsAsAdmin(t)
  PROVE  IInv'
<1>1. task[t].pc = "keep" /\ Becomes(t, Idle)
  BY DEF KeepsAsAdmin, Write, Ends
<1>2. task[t].by \in Users
  BY <1>1 DEF IInv, Typed, TaskTypes, Sound, Transferring
<1>3. /\ UNCHANGED <<owners, sub, ownerc, requests, transfers>>
      /\ rolec' = rolec \/ rolec' \in MayStay(task[t].by)
      /\ admins' \in {admins, admins \cup {task[t].by}}
      /\ IF task[t].by = Subject THEN GainExcuses ELSE UNCHANGED excuse
  BY DEF KeepsAsAdmin, Write, GainsAdmin, rows
<1>4. admins' \in SUBSET Users /\ sub' \in SubRoles \cup {"none"}
  BY <1>2, <1>3 DEF IInv, Typed, RowTypes
<1>5. \/ excuse' = excuse
         /\ (Subject \in admins' => Subject \in admins) /\ sub' \in {sub, "none"}
      \/ GainExcuses
  BY <1>3
<1> QED
  BY <1>1, <1>2, <1>3, <1>4, <1>5, IdleSound, PlainWrite DEF Deciding, Banning

-----------------------------------------------------------------------------
(* The queue and the decisions. *)

LEMMA EnqueuesStep ==
  ASSUME IInv, NEW t \in Tasks, Enqueues(t)
  PROVE  IInv'
<1>1. /\ task[t].pc = "enqueue"
      /\ UNCHANGED <<rows, caches, card, granted, unsure, transfers, excuse>>
  BY DEF Enqueues
<1>2. CASE Ends(t) /\ UNCHANGED req
  BY <1>1, <1>2, IdleSound, PlainWrite, Bounds
     DEF Ends, IInv, Typed, RowTypes, rows, caches, requests, Deciding, Banning
<1>3. CASE (\A i \in Requests : req[i] # "pending") /\ Queues(t)
  <2> PICK i \in Requests :
        /\ req[i] = "unborn" /\ req' = [req EXCEPT ![i] = "pending"]
        /\ \/ Becomes(t, [Idle EXCEPT !.pc = "notify", !.id = i])
           \/ Ends(t)
    BY <1>3 DEF Queues
  <2>1. PICK rec \in {Idle, [Idle EXCEPT !.pc = "notify", !.id = i]} : Becomes(t, rec)
    BY DEF Ends
  <2>2. rec \in TaskRecords /\ Sound(rec) /\ rec.pc \notin Deciding \cup Banning \cup {"delete"}
    <3>1. CASE rec = Idle
      BY <3>1, IdleSound DEF Deciding, Banning
    <3>2. CASE rec = [Idle EXCEPT !.pc = "notify", !.id = i]
      <4>1. rec \in TaskRecords /\ Sound(rec) /\ rec.pc = "notify"
        BY <3>2, PutId DEF Deciding
      <4> QED
        BY <4>1 DEF Deciding, Banning
    <3> QED
      BY <2>1, <3>1, <3>2
  <2>3. task' = [task EXCEPT ![t] = rec] /\ handlers' = handlers
    BY <2>1 DEF Becomes
  <2>4. Typed /\ TaskTypes /\ OwnerInv /\ VerdictInv /\ BanInv
    BY DEF IInv, Typed
  <2>5. RowTypes'
    BY <1>1, <2>4 DEF Typed, RowTypes, rows, caches, transfers
  <2>6. TaskTypes'
    BY <2>2, <2>3, <2>4, TaskFrame DEF TaskTypes
  <2>7. RequestTypes'
    BY <1>1, <1>3, <2>4 DEF Typed, RequestTypes
  <2>8. OwnerInv'
    BY <1>1, <2>2, <2>3, <2>4, OwnerFrame DEF rows, transfers
  <2>9. BanInv'
    BY <1>1, <2>2, <2>3, <2>4, BanFrame DEF rows, Banning
  <2>10. VerdictInv'
    <3>1. \A j \in Requests : req'[j] = IF j = i THEN "pending" ELSE req[j]
      BY <2>4 DEF Typed, RequestTypes
    <3>2. \A u \in Tasks : task'[u] = IF u = t THEN rec ELSE task[u]
      BY <2>3, <2>4 DEF TaskTypes
    <3>3. /\ \A u \in At(Deciding)' : u \in At(Deciding) /\ task'[u] = task[u]
          /\ \A u \in At({"resolve"}) : u \in At({"resolve"})' /\ task'[u] = task[u]
          /\ \A u \in At({"resolve"})' : u \in At({"resolve"}) /\ task'[u] = task[u]
      BY <1>1, <2>2, <3>2 DEF At, Deciding
    <3>4. \A u \in At(Deciding) : task[u].id \in Requests /\ task[u].id # i
      BY <2>4 DEF VerdictInv, TaskTypes, Sound, At
    <3>5. \A j \in granted \ unsure : j # i /\ j \in Requests
      BY <2>4 DEF VerdictInv, Typed, RequestTypes
    <3>6. VerdictIsKept'
      BY <1>1, <2>4, <3>1 DEF VerdictInv, VerdictIsKept
    <3>7. \A u \in At(Deciding)' : req'[task'[u].id] # "unborn"
      BY <2>4, <3>1, <3>3, <3>4 DEF VerdictInv
    <3>8. \A u \in At({"resolve"})' : task'[u].id \in granted'
      BY <1>1, <2>4, <3>3 DEF VerdictInv
    <3>9. \A u \in At(Deciding)' : task'[u].id \notin unsure' =>
             /\ req'[task'[u].id] = "pending"
             /\ \A v \in At(Deciding)' : task'[v].id = task'[u].id => v = u
      BY <1>1, <2>4, <3>1, <3>3, <3>4 DEF VerdictInv
    <3>10. \A j \in granted' \ unsure' :
             /\ req'[j] # "unborn"
             /\ req'[j] = "pending" => \E u \in At({"resolve"})' : task'[u].id = j
      BY <1>1, <2>4, <3>1, <3>3, <3>5 DEF VerdictInv
    <3> QED
      BY <3>6, <3>7, <3>8, <3>9, <3>10 DEF VerdictInv
  <2> QED
    BY <2>5, <2>6, <2>7, <2>8, <2>9, <2>10 DEF IInv, Typed
<1> QED
  BY <1>2, <1>3 DEF Enqueues

LEMMA TapStep ==
  ASSUME IInv, NEW t \in Tasks, NEW i \in Requests, NEW verdict \in {"approve", "reject"},
         TapStarts(t, i, verdict)
  PROVE  IInv'
<1> DEFINE rec == [Idle EXCEPT !.pc = verdict, !.id = i]
<1>1. /\ req[i] = "pending" /\ Starts(t, rec)
      /\ unsure' = IF \E u \in At(Deciding) : task[u].id = i THEN unsure \cup {i} ELSE unsure
      /\ UNCHANGED <<rows, caches, req, card, granted, transfers, excuse>>
  BY DEF TapStarts
<1>2. rec \in TaskRecords /\ Sound(rec) /\ rec.pc = verdict /\ rec.id = i
  BY PutId DEF Deciding
<1> HIDE DEF rec
<1>3. Typed /\ TaskTypes /\ OwnerInv /\ VerdictInv /\ BanInv
  BY DEF IInv, Typed
<1>4. task[t].pc = "idle" /\ task' = [task EXCEPT ![t] = rec] /\ handlers' \in 0..MaxHandlers
  BY <1>1, <1>3, Started
<1>5. RowTypes'
  BY <1>1, <1>3 DEF Typed, RowTypes, rows, caches, transfers
<1>6. TaskTypes'
  BY <1>2, <1>3, <1>4, TaskFrame
<1>7. RequestTypes'
  BY <1>1, <1>3 DEF Typed, RequestTypes
<1>8. OwnerInv'
  BY <1>1, <1>2, <1>3, <1>4, OwnerFrame DEF rows, transfers
<1>9. BanInv'
  BY <1>1, <1>2, <1>3, <1>4, BanFrame DEF rows, Banning
<1>10. VerdictInv'
  <2>1. \A u \in Tasks : task'[u] = IF u = t THEN rec ELSE task[u]
    BY <1>3, <1>4 DEF TaskTypes
  <2>2. /\ t \in At(Deciding)' /\ t \notin At(Deciding)
        /\ \A u \in At(Deciding)' : u = t \/ (u \in At(Deciding) /\ u # t /\ task'[u] = task[u])
        /\ \A u \in At({"resolve"}) : u \in At({"resolve"})' /\ task'[u] = task[u]
        /\ \A u \in At({"resolve"})' : u \in At({"resolve"}) /\ task'[u] = task[u]
    BY <1>2, <1>4, <2>1 DEF At, Deciding
  <2>3. task'[t] = rec /\ unsure \subseteq unsure'
    BY <1>1, <2>1
  <2>4. VerdictIsKept'
    BY <1>1, <1>3, <2>3 DEF VerdictInv, VerdictIsKept
  <2>5. \A u \in At(Deciding)' : req'[task'[u].id] # "unborn"
    BY <1>1, <1>2, <1>3, <2>2, <2>3 DEF VerdictInv
  <2>6. \A u \in At({"resolve"})' : task'[u].id \in granted'
    BY <1>1, <1>3, <2>2 DEF VerdictInv
  <2>7. \A u \in At(Deciding)' : task'[u].id \notin unsure' =>
           /\ req'[task'[u].id] = "pending"
           /\ \A v \in At(Deciding)' : task'[v].id = task'[u].id => v = u
    <3> TAKE u \in At(Deciding)'
    <3> HAVE task'[u].id \notin unsure'
    <3>1. CASE task'[u].id = i
      <4>1. ~ \E v \in At(Deciding) : task[v].id = i
        BY <1>1, <3>1
      <4>2. \A v \in At(Deciding)' : task'[v].id = i => v = t
        BY <4>1, <2>2
      <4> QED
        BY <1>1, <3>1, <4>2
    <3>2. CASE task'[u].id # i
      <4>1. u \in At(Deciding) /\ task'[u] = task[u]
        BY <1>2, <2>2, <2>3, <3>2
      <4>2. /\ req[task[u].id] = "pending"
            /\ \A v \in At(Deciding) : task[v].id = task[u].id => v = u
        BY <1>3, <2>3, <4>1 DEF VerdictInv
      <4> QED
        BY <1>1, <1>2, <2>2, <2>3, <3>2, <4>1, <4>2
    <3> QED
      BY <3>1, <3>2
  <2>8. \A j \in granted' \ unsure' :
           /\ req'[j] # "unborn"
           /\ req'[j] = "pending" => \E u \in At({"resolve"})' : task'[u].id = j
    BY <1>1, <1>3, <2>2, <2>3 DEF VerdictInv
  <2> QED
    BY <2>4, <2>5, <2>6, <2>7, <2>8 DEF VerdictInv
<1> QED
  BY <1>5, <1>6, <1>7, <1>8, <1>9, <1>10 DEF IInv, Typed

(* A handler that leaves its decision for good, having made the request    *)
(* count as outcome, or as what it counted, or knowing it is unsure.       *)
LEMMA DecisionOver ==
  ASSUME Typed, VerdictInv, NEW t \in Tasks, NEW rec, task' = [task EXCEPT ![t] = rec],
         task[t].pc \in Deciding, rec.pc \notin Deciding,
         NEW outcome \in {"approved", "rejected"},
         LET i == task[t].id IN
         /\ \/ req' = req
            \/ req[i] = "pending" /\ req' = [req EXCEPT ![i] = outcome]
         /\ \/ unsure' = unsure \cup {i}
            \/ /\ unsure' = unsure
               /\ task[t].pc = "reject" /\ outcome = "rejected"
            \/ /\ unsure' = unsure
               /\ task[t].pc = "resolve" /\ outcome = "approved"
               /\ req'[i] # "pending",
         UNCHANGED granted
  PROVE  VerdictInv'
<1> DEFINE i == task[t].id
<1>1. i \in Requests
  BY DEF Typed, TaskTypes, Sound
<1>2. \A u \in Tasks : task'[u] = IF u = t THEN rec ELSE task[u]
  BY DEF Typed, TaskTypes
<1>3. /\ t \in At(Deciding) /\ t \notin At({"resolve"})'
      /\ \A u \in At(Deciding)' : u \in At(Deciding) /\ u # t /\ task'[u] = task[u]
      /\ \A u \in At({"resolve"}) : u = t \/ (u \in At({"resolve"})' /\ task'[u] = task[u])
      /\ \A u \in At({"resolve"})' : u \in At({"resolve"}) /\ u # t /\ task'[u] = task[u]
  BY <1>2 DEF At, Deciding
<1>4. /\ \A j \in Requests : j # i => req'[j] = req[j]
      /\ req'[i] \in {req[i], outcome} /\ req[i] # "unborn" /\ req'[i] # "unborn"
      /\ req'[i] = req[i] \/ (req[i] = "pending" /\ req'[i] = outcome)
  BY <1>1, <1>3 DEF Typed, RequestTypes, VerdictInv
<1>5. unsure \subseteq unsure' /\ \A j \in unsure' : j = i \/ j \in unsure
  OBVIOUS
<1>6. \A u \in At(Deciding)' : task[u].id \in Requests
  BY <1>3 DEF Typed, TaskTypes, Sound, At
<1>7. ASSUME i \notin unsure'
      PROVE  /\ req[i] = "pending"
             /\ \A u \in At(Deciding) : task[u].id = i => u = t
             /\ \/ task[t].pc = "reject" /\ outcome = "rejected" /\ i \notin granted
                \/ /\ task[t].pc = "resolve" /\ outcome = "approved" /\ i \in granted
                   /\ req'[i] # "pending"
  <2>1. i \notin unsure /\ unsure' = unsure
    BY <1>7
  <2>2. req[i] = "pending" /\ \A u \in At(Deciding) : task[u].id = i => u = t
    BY <1>3, <2>1 DEF VerdictInv
  <2>3. CASE task[t].pc = "reject"
    <3>1. ASSUME i \in granted PROVE FALSE
      <4>1. PICK u \in At({"resolve"}) : task[u].id = i
        BY <2>1, <2>2, <3>1 DEF VerdictInv
      <4>2. u \in At(Deciding) /\ u # t
        BY <4>1, <2>3 DEF At, Deciding
      <4> QED
        BY <4>1, <4>2, <2>2
    <3>2. outcome = "rejected"
      BY <1>7, <2>3
    <3> QED
      BY <2>2, <2>3, <3>1, <3>2
  <2>4. CASE task[t].pc = "resolve"
    <3>1. i \in granted
      BY <2>4 DEF VerdictInv, At
    <3>2. outcome = "approved" /\ req'[i] # "pending"
      BY <1>7, <2>4
    <3> QED
      BY <2>2, <2>4, <3>1, <3>2
  <2> QED
    BY <1>7, <2>3, <2>4
<1> HIDE DEF i
<1>8. VerdictIsKept'
  <2> SUFFICES ASSUME NEW j \in Requests
               PROVE  /\ req'[j] = "approved" => j \in granted \cup unsure'
                      /\ req'[j] = "rejected" /\ j \in granted => j \in unsure'
    BY DEF VerdictIsKept
  <2>1. CASE j # i \/ req'[i] = req[i]
    BY <2>1, <1>4, <1>5 DEF VerdictInv, VerdictIsKept
  <2>2. CASE j = i /\ req'[i] = outcome
    BY <2>2, <1>7
  <2> QED
    BY <2>1, <2>2, <1>4
<1>9. \A u \in At(Deciding)' : req'[task'[u].id] # "unborn"
  BY <1>3, <1>4, <1>6 DEF VerdictInv
<1>10. \A u \in At({"resolve"})' : task'[u].id \in granted'
  BY <1>3 DEF VerdictInv
<1>11. \A u \in At(Deciding)' : task'[u].id \notin unsure' =>
           /\ req'[task'[u].id] = "pending"
           /\ \A v \in At(Deciding)' : task'[v].id = task'[u].id => v = u
  <2> TAKE u \in At(Deciding)'
  <2> HAVE task'[u].id \notin unsure'
  <2>1. u \in At(Deciding) /\ u # t /\ task'[u] = task[u] /\ task[u].id \notin unsure
    BY <1>3, <1>5
  <2>2. task[u].id # i
    BY <1>7, <2>1
  <2>3. /\ req[task[u].id] = "pending"
        /\ \A v \in At(Deciding) : task[v].id = task[u].id => v = u
    BY <2>1 DEF VerdictInv
  <2> QED
    BY <1>3, <1>4, <1>6, <2>1, <2>2, <2>3
<1>12. \A j \in granted' \ unsure' :
           /\ req'[j] # "unborn"
           /\ req'[j] = "pending" => \E u \in At({"resolve"})' : task'[u].id = j
  <2> TAKE j \in granted' \ unsure'
  <2>1. j \in Requests /\ j \in granted \ unsure
    BY <1>5 DEF Typed, RequestTypes
  <2>2. CASE j = i
    BY <1>4, <1>7, <2>1, <2>2
  <2>3. CASE j # i
    <3>1. /\ req[j] # "unborn"
          /\ req[j] = "pending" => \E u \in At({"resolve"}) : task[u].id = j
      BY <2>1 DEF VerdictInv
    <3> QED
      BY <1>3, <1>4, <2>1, <2>3, <3>1 DEF i
  <2> QED
    BY <2>2, <2>3
<1> QED
  BY <1>8, <1>9, <1>10, <1>11, <1>12 DEF VerdictInv

LEMMA Granted ==
  ASSUME Typed, VerdictInv, NEW t \in Tasks, NEW rec, task' = [task EXCEPT ![t] = rec],
         task[t].pc = "approve", rec.pc = "resolve", rec.id = task[t].id,
         granted' = granted \cup {task[t].id}, UNCHANGED <<req, unsure>>
  PROVE  VerdictInv'
<1> DEFINE i == task[t].id
<1>1. \A u \in Tasks : task'[u] = IF u = t THEN rec ELSE task[u]
  BY DEF Typed, TaskTypes
<1>2. /\ At(Deciding)' = At(Deciding) /\ t \in At(Deciding)
      /\ \A u \in At(Deciding) : task'[u].id = task[u].id
      /\ At({"resolve"})' = At({"resolve"}) \cup {t}
  BY <1>1 DEF At, Deciding
<1>3. i \notin unsure => req[i] = "pending"
  BY <1>2 DEF VerdictInv
<1>4. At({"resolve"}) \subseteq At(Deciding)
  BY DEF At, Deciding
<1> HIDE DEF i
<1>5. VerdictIsKept'
  BY <1>3 DEF VerdictInv, VerdictIsKept, i
<1>6. \A u \in At(Deciding)' : req'[task'[u].id] # "unborn"
  BY <1>2 DEF VerdictInv
<1>7. \A u \in At({"resolve"})' : task'[u].id \in granted'
  BY <1>2, <1>4 DEF VerdictInv
<1>8. \A u \in At(Deciding)' : task'[u].id \notin unsure' =>
           /\ req'[task'[u].id] = "pending"
           /\ \A v \in At(Deciding)' : task'[v].id = task'[u].id => v = u
  BY <1>2 DEF VerdictInv
<1>9. \A j \in granted' \ unsure' :
           /\ req'[j] # "unborn"
           /\ req'[j] = "pending" => \E u \in At({"resolve"})' : task'[u].id = j
  <2> TAKE j \in granted' \ unsure'
  <2>1. CASE j = i
    <3>1. req[i] # "unborn" /\ task'[t].id = i
      BY <1>2 DEF VerdictInv, i
    <3> QED
      BY <1>2, <2>1, <3>1
  <2>2. CASE j # i
    <3>1. /\ req[j] # "unborn"
          /\ req[j] = "pending" => \E u \in At({"resolve"}) : task[u].id = j
      BY <2>2 DEF VerdictInv, i
    <3> QED
      BY <1>2, <1>4, <3>1
  <2> QED
    BY <2>1, <2>2
<1> QED
  BY <1>5, <1>6, <1>7, <1>8, <1>9 DEF VerdictInv

(* What the steps of a decision have in common.                            *)
LEMMA DecisionStep ==
  ASSUME IInv, NEW t \in Tasks, NEW rec \in TaskRecords, Sound(rec), Becomes(t, rec),
         task[t].pc \in Deciding, rec.pc \notin Banning \cup {"delete"},
         UNCHANGED <<owners, sub, ownerc, transfers>>,
         admins' \in {admins, admins \cup {Subject}},
         rolec' = rolec \/ rolec' \in MayStay(Subject),
         (excuse' = excuse /\ admins' = admins) \/ GainExcuses,
         card' \in {card, card \ {task[t].id}},
         granted' \in {granted, granted \cup {task[t].id}},
         unsure' \in {unsure, unsure \cup {task[t].id}},
         NEW outcome \in {"approved", "rejected"},
         req' \in {req, [req EXCEPT ![task[t].id] = outcome]},
         VerdictInv'
  PROVE  IInv'
<1>1. Typed /\ TaskTypes /\ OwnerInv /\ VerdictInv /\ BanInv
  BY DEF IInv, Typed
<1>2. task' = [task EXCEPT ![t] = rec] /\ handlers' \in 0..MaxHandlers
  BY <1>1 DEF Becomes, TaskTypes
<1>3. task[t].id \in Requests
  BY <1>1 DEF TaskTypes, Sound
<1>4. task[t].pc \notin Banning \cup {"delete"}
  BY DEF Deciding, Banning
<1>5. excuse => excuse'
  BY DEF GainExcuses
<1>6. RowTypes'
  <2>1. rolec' \in [Users -> AllRoles \cup {Miss}]
    BY <1>1, Answered, Bounds DEF Typed, RowTypes
  <2>2. excuse' \in BOOLEAN
    BY <1>1 DEF GainExcuses, Typed, RowTypes
  <2>3. admins' \in SUBSET Users
    BY <1>1, Bounds DEF Typed, RowTypes
  <2> QED
    BY <1>1, <2>1, <2>2, <2>3 DEF Typed, RowTypes, transfers
<1>7. TaskTypes'
  BY <1>1, <1>2, TaskFrame
<1>8. RequestTypes'
  <2>1. /\ req' \in [Requests -> {"unborn", "pending", "approved", "rejected"}]
        /\ \A j \in Requests : req'[j] = "pending" => req[j] = "pending"
    BY <1>1, <1>3 DEF Typed, RequestTypes
  <2>2. card' \in SUBSET Requests /\ granted' \in SUBSET Requests /\ unsure' \in SUBSET Requests
    BY <1>1, <1>3 DEF Typed, RequestTypes
  <2> QED
    BY <1>1, <2>1, <2>2 DEF Typed, RequestTypes
<1>9. OwnerInv'
  BY <1>1, <1>2, <1>4, OwnerFrame DEF transfers
<1>10. BanInv'
  <2>1. CASE excuse' = excuse /\ admins' = admins
    BY <1>1, <1>2, <1>4, <1>5, <2>1, BanFrame
  <2>2. CASE GainExcuses
    <3>1. excuse' \/ At({"demoteAgain", "fanout"}) = {}
      BY <2>2 DEF GainExcuses
    <3> QED
      BY <1>1, <1>2, <1>4, <1>5, <3>1, BanFrame
  <2> QED
    BY <2>1, <2>2
<1> QED
  BY <1>6, <1>7, <1>8, <1>9, <1>10 DEF IInv, Typed

LEMMA ApproveGrantsStep ==
  ASSUME IInv, NEW t \in Tasks, ApproveGrants(t)
  PROVE  IInv'
<1> DEFINE i == task[t].id
<1>1. /\ task[t].pc = "approve" /\ task[t].pc \in Deciding
      /\ UNCHANGED <<req, owners, sub, ownerc, transfers>> /\ GainExcuses
      /\ admins' \in {admins, admins \cup {Subject}}
      /\ rolec' = rolec \/ rolec' \in MayStay(Subject)
  BY DEF ApproveGrants, Write, GainsAdmin, rows, Deciding
<1>2. Typed /\ VerdictInv /\ TaskTypes /\ i \in Requests
  BY <1>1 DEF IInv, Typed, TaskTypes, Sound
<1>3. CASE /\ Goes(t, "resolve") /\ granted' = granted \cup {i} /\ UNCHANGED <<card, unsure>>
  <2> DEFINE rec == [task[t] EXCEPT !.pc = "resolve"]
  <2>1. Becomes(t, rec) /\ task' = [task EXCEPT ![t] = rec]
    BY <1>3 DEF Goes, Becomes
  <2>2. task[t] \in TaskRecords
    BY <1>2 DEF TaskTypes
  <2>3. rec \in TaskRecords /\ Sound(rec) /\ rec.pc = "resolve" /\ rec.id = i
    BY <1>2, <2>2 DEF TaskRecords, Places, Deciding, Transferring, Sound
  <2> HIDE DEF rec
  <2>4. VerdictInv'
    BY <1>1, <1>2, <1>3, <2>1, <2>3, Granted
  <2>5. rec.pc \notin Banning \cup {"delete"}
    BY <2>3 DEF Banning
  <2> QED
    BY <1>1, <1>3, <2>1, <2>3, <2>4, <2>5, DecisionStep
<1>4. CASE Botches(t) /\ UNCHANGED granted
  <2>1. /\ Becomes(t, Idle) /\ task' = [task EXCEPT ![t] = Idle]
        /\ card' \in {card, card \ {i}} /\ unsure' = unsure \cup {i}
    BY <1>4 DEF Botches, Ends, Becomes, Edited
  <2>2. Idle.pc \notin Deciding /\ Idle.pc \notin Banning \cup {"delete"}
    BY IdleSound DEF Deciding, Banning
  <2>3. VerdictInv'
    BY <1>1, <1>2, <1>4, <2>1, <2>2, DecisionOver
  <2> QED
    BY <1>1, <1>4, <2>1, <2>2, <2>3, IdleSound, DecisionStep
<1> QED
  BY <1>3, <1>4 DEF ApproveGrants, Write

LEMMA ApproveResolvesStep ==
  ASSUME IInv, NEW t \in Tasks, ApproveResolves(t)
  PROVE  IInv'
<1> DEFINE i == task[t].id
           resolved == IF req[i] = "pending" THEN [req EXCEPT ![i] = "approved"] ELSE req
<1>1. /\ task[t].pc = "resolve" /\ task[t].pc \in Deciding
      /\ UNCHANGED <<owners, admins, sub, ownerc, rolec, granted, transfers, excuse>>
  BY DEF ApproveResolves, rows, caches, Deciding
<1>2. Typed /\ VerdictInv /\ TaskTypes /\ i \in Requests
  BY <1>1 DEF IInv, Typed, TaskTypes, Sound
<1>3. CASE /\ req' = resolved
           /\ IF req[i] = "pending" THEN Becomes(t, [Idle EXCEPT !.pc = "cleanup"]) ELSE Ends(t)
           /\ Edited(i) /\ UNCHANGED unsure
  <2>1. PICK rec \in {Idle, [Idle EXCEPT !.pc = "cleanup"]} : Becomes(t, rec)
    BY <1>3 DEF Ends
  <2>2. rec \in TaskRecords /\ Sound(rec) /\ rec.pc \in {"idle", "cleanup"}
    <3>1. CASE rec = Idle
      BY <3>1, IdleSound
    <3>2. CASE rec = [Idle EXCEPT !.pc = "cleanup"]
      BY <3>2, PutPc DEF Places, Promoting, Deciding, Transferring
    <3> QED
      BY <2>1, <3>1, <3>2
  <2>3. task' = [task EXCEPT ![t] = rec]
    BY <2>1 DEF Becomes
  <2>4. /\ req' = req \/ (req[i] = "pending" /\ req' = [req EXCEPT ![i] = "approved"])
        /\ req'[i] # "pending"
    BY <1>2, <1>3 DEF Typed, RequestTypes
  <2>5. rec.pc \notin Deciding /\ rec.pc \notin Banning \cup {"delete"}
    BY <2>2 DEF Deciding, Banning
  <2>6. VerdictInv'
    BY <1>1, <1>2, <1>3, <2>3, <2>4, <2>5, DecisionOver
  <2> QED
    BY <1>1, <1>3, <2>1, <2>2, <2>4, <2>5, <2>6, DecisionStep DEF Edited
<1>4. CASE req' \in {req, resolved} /\ Botches(t)
  <2>1. /\ Becomes(t, Idle) /\ task' = [task EXCEPT ![t] = Idle]
        /\ card' \in {card, card \ {i}} /\ unsure' = unsure \cup {i}
    BY <1>4 DEF Botches, Ends, Becomes, Edited
  <2>2. Idle.pc \notin Deciding /\ Idle.pc \notin Banning \cup {"delete"}
    BY IdleSound DEF Deciding, Banning
  <2>3. req' = req \/ (req[i] = "pending" /\ req' = [req EXCEPT ![i] = "approved"])
    BY <1>4
  <2>4. VerdictInv'
    BY <1>1, <1>2, <2>1, <2>2, <2>3, DecisionOver
  <2> QED
    BY <1>1, <2>1, <2>2, <2>3, <2>4, IdleSound, DecisionStep
<1> QED
  BY <1>3, <1>4 DEF ApproveResolves

LEMMA RejectResolvesStep ==
  ASSUME IInv, NEW t \in Tasks, RejectResolves(t)
  PROVE  IInv'
<1> DEFINE i == task[t].id
<1>1. /\ task[t].pc = "reject" /\ task[t].pc \in Deciding
      /\ UNCHANGED <<owners, admins, sub, ownerc, rolec, granted, unsure, transfers, excuse>>
      /\ req' = req \/ (req[i] = "pending" /\ req' = [req EXCEPT ![i] = "rejected"])
      /\ Becomes(t, Idle) /\ task' = [task EXCEPT ![t] = Idle]
      /\ card' \in {card, card \ {i}}
  BY DEF RejectResolves, Ends, Becomes, Edited, rows, caches, Deciding
<1>2. Typed /\ VerdictInv
  BY DEF IInv
<1>3. Idle.pc \notin Deciding /\ Idle.pc \notin Banning \cup {"delete"}
  BY IdleSound DEF Deciding, Banning
<1>4. VerdictInv'
  BY <1>1, <1>2, <1>3, DecisionOver
<1> QED
  BY <1>1, <1>3, <1>4, IdleSound, DecisionStep

-----------------------------------------------------------------------------
(* The ban. *)

(* A step of the ban, which is the only one, that leaves the rest alone.   *)
LEMMA BanStep ==
  ASSUME IInv, NEW t \in Tasks, NEW rec \in TaskRecords, Sound(rec),
         task' = [task EXCEPT ![t] = rec], handlers' \in 0..MaxHandlers,
         At(Banning) \subseteq {t}, task[t].pc \notin Deciding \cup {"delete"},
         rec.pc \in Banning \cup {"idle"},
         UNCHANGED <<owners, ownerc, requests, transfers>>,
         admins' \subseteq admins, sub' \in {sub, "none"},
         rolec' = rolec \/ rolec' \in MayStay(Subject),
         excuse' \in BOOLEAN,
         \/ excuse' \/ rec.pc \notin {"demoteAgain", "fanout"}
         \/ /\ rec.pc = "demoteAgain"
            /\ Subject \in admins' => (rec.role = "admin" /\ sub' = "none")
            /\ sub' # "none" => rec.role # "admin"
         \/ rec.pc = "fanout" /\ Subject \notin admins' /\ sub' = "none"
  PROVE  IInv'
<1>1. Typed /\ TaskTypes /\ OwnerInv /\ VerdictInv
  BY DEF IInv, Typed
<1>2. rec.pc \notin Deciding \cup {"delete"}
  BY DEF Deciding, Banning
<1>3. RowTypes'
  <2>1. rolec' \in [Users -> AllRoles \cup {Miss}]
    BY <1>1, Answered, Bounds DEF Typed, RowTypes
  <2> QED
    BY <1>1, <2>1 DEF Typed, RowTypes, transfers
<1>4. TaskTypes'
  BY <1>1, TaskFrame
<1>5. RequestTypes'
  BY <1>1 DEF Typed, RequestTypes, requests
<1>6. OwnerInv'
  BY <1>1, <1>2, OwnerFrame DEF transfers
<1>7. VerdictInv'
  BY <1>1, <1>2, VerdictFrame DEF requests
<1>8. BanInv'
  <2>1. \A u \in Tasks : task'[u] = IF u = t THEN rec ELSE task[u]
    BY <1>1 DEF TaskTypes
  <2>2. \A u \in At(Banning)' : u = t /\ task'[u] = rec
    BY <2>1 DEF At
  <2>3. At({"demoteAgain"})' \subseteq At(Banning)' /\ At({"fanout"})' \subseteq At(Banning)'
    BY DEF At, Banning
  <2>4. /\ \A u \in At({"demoteAgain"})' : task'[u] = rec /\ rec.pc = "demoteAgain"
        /\ At({"fanout"})' # {} => rec.pc = "fanout"
    BY <2>2, <2>3 DEF At
  <2>5. \A u, v \in At(Banning)' : u = v
    BY <2>2
  <2> SUFFICES ASSUME ~excuse' PROVE BanInv'
    BY <2>5 DEF BanInv
  <2>6. ASSUME NEW u \in At({"demoteAgain"})'
        PROVE  /\ Subject \in admins' => task'[u].role = "admin" /\ sub' = "none"
               /\ sub' # "none" => task'[u].role # "admin"
    BY <2>4
  <2>7. BannedHoldsNoRole'
    BY <2>4 DEF BannedHoldsNoRole
  <2> QED
    BY <2>5, <2>6, <2>7 DEF BanInv
<1> QED
  BY <1>3, <1>4, <1>5, <1>6, <1>7, <1>8 DEF IInv, Typed

LEMMA OnlyBan ==
  ASSUME IInv, NEW t \in Tasks, task[t].pc \in Banning
  PROVE  At(Banning) \subseteq {t} /\ task[t].pc \notin Deciding \cup {"delete"}
  BY DEF IInv, BanInv, At, Banning, Deciding

LEMMA BanStartsStep ==
  ASSUME IInv, NEW t \in Tasks, NEW e \in Users, BanStarts(t, e)
  PROVE  IInv'
<1> PICK o \in OwnerAnswers :
      Starts(t, [Idle EXCEPT !.pc = IF RoleOf(Subject, o) = "none" THEN "reason" ELSE "demoteFirst",
                             !.role = RoleOf(Subject, o)])
  BY DEF BanStarts
<1> DEFINE new == RoleOf(Subject, o)
           pc == IF new = "none" THEN "reason" ELSE "demoteFirst"
           rec == [Idle EXCEPT !.pc = pc, !.role = new]
<1>1. new \in AllRoles
  BY Bounds, Answered DEF IInv
<1>2. Starts(t, rec) /\ pc \in {"reason", "demoteFirst"}
  OBVIOUS
<1>3. At(Banning) = {} /\ UNCHANGED <<rows, caches, requests, transfers, excuse>>
  BY DEF BanStarts
<1> HIDE DEF new, pc
<1>4. rec \in TaskRecords /\ Sound(rec) /\ rec.pc = pc
  BY <1>1, <1>2, Put DEF Places, Banning, Deciding, Transferring
<1> HIDE DEF rec
<1>5. task[t].pc = "idle" /\ task' = [task EXCEPT ![t] = rec] /\ handlers' \in 0..MaxHandlers
  BY <1>2, Started DEF IInv, Typed
<1>6. rec.pc \in Banning \cup {"idle"} /\ rec.pc \notin {"demoteAgain", "fanout"}
      /\ task[t].pc \notin Deciding \cup {"delete"}
  BY <1>2, <1>4, <1>5 DEF Banning, Deciding
<1> QED
  BY <1>3, <1>4, <1>5, <1>6, BanStep DEF IInv, Typed, RowTypes, rows, caches

LEMMA DemotesFirstStep ==
  ASSUME IInv, NEW t \in Tasks, DemotesFirst(t)
  PROVE  IInv'
<1>1. task[t].pc = "demoteFirst"
      /\ UNCHANGED <<owners, ownerc, requests, transfers, excuse>>
      /\ (rolec' = rolec \/ rolec' \in MayStay(Subject))
      /\ admins' \subseteq admins /\ sub' \in {sub, "none"}
  BY DEF DemotesFirst, Write, Loses, rows
<1>2. PICK rec \in {Idle, [Idle EXCEPT !.pc = "reason"]} : Becomes(t, rec)
  BY DEF DemotesFirst, Write, Ends
<1>3. rec \in TaskRecords /\ Sound(rec) /\ rec.pc \in {"idle", "reason"}
  <2>1. CASE rec = Idle
    BY <2>1, IdleSound
  <2>2. CASE rec = [Idle EXCEPT !.pc = "reason"]
    BY <2>2, PutPc DEF Places, Banning, Deciding, Transferring
  <2> QED
    BY <1>2, <2>1, <2>2
<1>4. task' = [task EXCEPT ![t] = rec] /\ handlers' \in 0..MaxHandlers
  BY <1>2 DEF Becomes, IInv, Typed, TaskTypes
<1>5. rec.pc \in Banning \cup {"idle"} /\ rec.pc \notin {"demoteAgain", "fanout"}
      /\ task[t].pc \in Banning
  BY <1>1, <1>3 DEF Banning
<1>6. At(Banning) \subseteq {t} /\ task[t].pc \notin Deciding \cup {"delete"}
  BY <1>5, OnlyBan
<1> QED
  BY <1>1, <1>3, <1>4, <1>5, <1>6, BanStep DEF IInv, Typed, RowTypes

LEMMA LooksAgainStep ==
  ASSUME IInv, NEW t \in Tasks, LooksAgain(t)
  PROVE  IInv'
<1>1. task[t].pc = "reason" /\ task[t].pc \in Banning
      /\ UNCHANGED <<owners, admins, sub, ownerc, rolec, requests, transfers>>
  BY DEF LooksAgain, rows, caches, Banning
<1>2. At(Banning) \subseteq {t} /\ task[t].pc \notin Deciding \cup {"delete"}
  BY <1>1, OnlyBan
<1>3. CASE Goes(t, "fanout") /\ excuse' = TRUE
  <2> DEFINE rec == [task[t] EXCEPT !.pc = "fanout"]
  <2>1. rec \in TaskRecords /\ Sound(rec) /\ rec.pc = "fanout"
    BY Moved DEF IInv, Typed, Places, Banning, Deciding, Transferring
  <2>2. task' = [task EXCEPT ![t] = rec] /\ handlers' \in 0..MaxHandlers
    BY <1>3 DEF Goes, Becomes, IInv, Typed, TaskTypes
  <2> HIDE DEF rec
  <2>3. rec.pc \in Banning \cup {"idle"}
    BY <2>1 DEF Banning
  <2> QED
    BY <1>1, <1>2, <1>3, <2>1, <2>2, <2>3, BanStep
<1>4. ASSUME NEW o \in OwnerAnswers,
             Becomes(t, [Idle EXCEPT
                 !.pc = IF RoleOf(Subject, o) = "none" THEN "fanout" ELSE "demoteAgain",
                 !.role = RoleOf(Subject, o)]),
             excuse' = \/ RoleOf(Subject, o) # Effective(Subject, Nobody)
                       \/ Subject \in admins /\ sub # "none"
      PROVE  IInv'
  <2> DEFINE new == RoleOf(Subject, o)
             pc == IF new = "none" THEN "fanout" ELSE "demoteAgain"
             rec == [Idle EXCEPT !.pc = pc, !.role = new]
  <2>1. new \in AllRoles
    BY Bounds, Answered DEF IInv
  <2>2. task' = [task EXCEPT ![t] = rec] /\ handlers' \in 0..MaxHandlers
    BY <1>4 DEF Becomes, IInv, Typed, TaskTypes
  <2>3. excuse' \in BOOLEAN
    BY <1>4
  <2>4. /\ pc \in {"fanout", "demoteAgain"}
        /\ pc = "fanout" => new = "none"
    OBVIOUS
  <2>5. ~excuse' => /\ new = IF Subject \in admins THEN "admin" ELSE sub
                    /\ Subject \notin admins \/ sub = "none"
    <3>1. ~excuse' => new = Effective(Subject, Nobody) /\ ~(Subject \in admins /\ sub # "none")
      BY <1>4
    <3>2. Subject # Nobody
      BY Bounds
    <3>3. Effective(Subject, Nobody) = IF Subject \in admins THEN "admin" ELSE sub
      BY <3>2 DEF Effective
    <3> QED
      BY <3>1, <3>3
  <2> HIDE DEF new, pc
  <2>6. rec \in TaskRecords /\ Sound(rec) /\ rec.pc = pc /\ rec.role = new
    BY <2>1, <2>4, Put DEF Places, Banning, Deciding, Transferring
  <2> HIDE DEF rec
  <2>7. rec.pc \in Banning \cup {"idle"}
    BY <2>4, <2>6 DEF Banning
  <2>8. sub # "admin"
    BY Bounds DEF IInv, Typed, RowTypes
  <2>9. \/ excuse'
        \/ /\ rec.pc = "demoteAgain"
           /\ Subject \in admins' => (rec.role = "admin" /\ sub' = "none")
           /\ sub' # "none" => rec.role # "admin"
        \/ rec.pc = "fanout" /\ Subject \notin admins' /\ sub' = "none"
    BY <1>1, <2>4, <2>5, <2>6, <2>8
  <2> QED
    BY <1>1, <1>2, <2>2, <2>3, <2>6, <2>7, <2>9, BanStep
<1> QED
  BY <1>3, <1>4 DEF LooksAgain

LEMMA DemotesAgainStep ==
  ASSUME IInv, NEW t \in Tasks, DemotesAgain(t)
  PROVE  IInv'
<1> DEFINE rec == [Idle EXCEPT !.pc = "fanout"]
<1>1. task[t].pc = "demoteAgain" /\ task[t].pc \in Banning
      /\ UNCHANGED <<owners, ownerc, requests, transfers>>
      /\ (rolec' = rolec \/ rolec' \in MayStay(Subject))
      /\ admins' \subseteq admins /\ sub' \in {sub, "none"}
      /\ Becomes(t, rec)
      /\ \/ Loses(Subject, task[t].role) /\ UNCHANGED excuse
         \/ excuse' = TRUE
  BY DEF DemotesAgain, Write, Loses, rows, Banning
<1>2. At(Banning) \subseteq {t} /\ task[t].pc \notin Deciding \cup {"delete"}
  BY <1>1, OnlyBan
<1>3. rec \in TaskRecords /\ Sound(rec) /\ rec.pc = "fanout"
  BY PutPc DEF Places, Banning, Deciding, Transferring
<1>4. task' = [task EXCEPT ![t] = rec] /\ handlers' \in 0..MaxHandlers
  BY <1>1 DEF Becomes, IInv, Typed, TaskTypes
<1>5. excuse' \in BOOLEAN
  BY <1>1 DEF IInv, Typed, RowTypes
<1>6. excuse' \/ (Subject \notin admins' /\ sub' = "none")
  <2> SUFFICES ASSUME ~excuse' PROVE Subject \notin admins' /\ sub' = "none"
    OBVIOUS
  <2>1. ~excuse /\ Loses(Subject, task[t].role)
    BY <1>1
  <2>2. /\ Subject \in admins => (task[t].role = "admin" /\ sub = "none")
        /\ sub # "none" => task[t].role # "admin"
    BY <1>1, <2>1 DEF IInv, BanInv, At
  <2> QED
    BY <2>1, <2>2 DEF Loses
<1> HIDE DEF rec
<1>7. rec.pc \in Banning \cup {"idle"}
  BY <1>3 DEF Banning
<1> QED
  BY <1>1, <1>2, <1>3, <1>4, <1>5, <1>6, <1>7, BanStep

LEMMA BanEndsStep ==
  ASSUME IInv, NEW t \in Tasks, BanEnds(t)
  PROVE  IInv'
<1>1. task[t].pc = "fanout" /\ task[t].pc \in Banning
      /\ UNCHANGED <<owners, admins, sub, ownerc, rolec, requests, transfers>>
      /\ excuse' = FALSE
  BY DEF BanEnds, rows, caches, Banning
<1>2. At(Banning) \subseteq {t} /\ task[t].pc \notin Deciding \cup {"delete"}
  BY <1>1, OnlyBan
<1>3. task' = [task EXCEPT ![t] = Idle] /\ handlers' \in 0..MaxHandlers
  BY DEF BanEnds, Ends, Becomes, IInv, Typed, TaskTypes
<1> QED
  BY <1>1, <1>2, <1>3, IdleSound, BanStep

-----------------------------------------------------------------------------
(* The writes of a transfer, and the rest of the world. *)

LEMMA InsertsStep ==
  ASSUME IInv, NEW t \in Tasks, Inserts(t)
  PROVE  IInv'
<1> DEFINE to == task[t].to
           onward == [task[t] EXCEPT !.pc = "delete"]
<1>1. /\ task[t].pc = "insert" /\ GainExcuses
      /\ UNCHANGED <<admins, sub, requests>>
  BY DEF Inserts
<1>2. Typed /\ TaskTypes /\ OwnerInv /\ VerdictInv /\ BanInv
  BY DEF IInv, Typed
<1>3. task[t] \in TaskRecords /\ to \in Users /\ task[t].by \in Users
  BY <1>1, <1>2 DEF TaskTypes, Sound, Transferring
<1>4. onward \in TaskRecords /\ Sound(onward) /\ onward.pc = "delete" /\ onward.to = to
  BY <1>3 DEF TaskRecords, Places, Transferring, Deciding, Sound
<1>5. /\ \/ /\ owners' = owners \cup {to}
            /\ ownerc' \in OwnerMayStay /\ rolec' \in MayStay(to)
         \/ UNCHANGED <<owners, caches>>
      /\ \/ /\ task' = [task EXCEPT ![t] = onward]
            /\ owners' = owners \cup {to}
            /\ crossed' = (crossed \/ At({"delete"}) # {}) /\ half' = half
         \/ /\ task' = [task EXCEPT ![t] = Idle]
            /\ owners' = owners \cup {to} /\ half' = TRUE /\ crossed' = crossed
         \/ /\ task' = [task EXCEPT ![t] = Idle]
            /\ UNCHANGED <<owners, crossed, half>>
      /\ handlers' = handlers
  BY DEF Inserts, Goes, Ends, Becomes, transfers
<1> HIDE DEF onward
<1>6. RowTypes'
  <2>1. ownerc' \in Users \cup {Nobody, Miss}
    BY <1>2, <1>5, Answered DEF OwnerMayStay, Typed, RowTypes, caches
  <2>2. rolec' \in [Users -> AllRoles \cup {Miss}]
    BY <1>2, <1>3, <1>5, Answered DEF Typed, RowTypes, caches
  <2>3. crossed' \in BOOLEAN /\ half' \in BOOLEAN
    BY <1>2, <1>5 DEF Typed, RowTypes
  <2>4. excuse' \in BOOLEAN
    BY <1>1, <1>2 DEF GainExcuses, Typed, RowTypes
  <2>5. owners' \in SUBSET Users
    BY <1>2, <1>3, <1>5 DEF Typed, RowTypes
  <2> QED
    BY <1>1, <1>2, <2>1, <2>2, <2>3, <2>4, <2>5 DEF Typed, RowTypes
<1>7. PICK rec \in {onward, Idle} : task' = [task EXCEPT ![t] = rec]
  BY <1>5
<1>8. rec \in TaskRecords /\ Sound(rec) /\ rec.pc \in {"delete", "idle"}
  BY <1>4, <1>7, IdleSound
<1>9. rec.pc \notin Deciding /\ rec.pc \notin Banning
      /\ task[t].pc \notin Deciding /\ task[t].pc \notin Banning
  BY <1>1, <1>8 DEF Deciding, Banning
<1>10. TaskTypes'
  BY <1>2, <1>5, <1>7, <1>8, TaskFrame DEF TaskTypes
<1>11. RequestTypes'
  BY <1>1, <1>2 DEF Typed, RequestTypes, requests
<1>12. OwnerInv'
  <2>1. CASE /\ task' = [task EXCEPT ![t] = onward] /\ owners' = owners \cup {to}
             /\ crossed' = (crossed \/ At({"delete"}) # {})
    <3>1. \A u \in Tasks : task'[u] = IF u = t THEN onward ELSE task[u]
      BY <1>2, <2>1 DEF TaskTypes
    <3> SUFFICES ASSUME ~crossed' PROVE OwnerInv'
      BY DEF OwnerInv
    <3>2. ~crossed /\ At({"delete"}) = {}
      BY <2>1
    <3>3. At({"delete"})' = {t}
      BY <1>4, <3>1, <3>2 DEF At
    <3> QED
      BY <1>4, <2>1, <3>1, <3>3 DEF OwnerInv
  <2>2. CASE /\ task' = [task EXCEPT ![t] = Idle] /\ owners \subseteq owners'
             /\ crossed' = crossed
             /\ (half' = TRUE) \/ (half' = half /\ owners' = owners)
    <3>1. \A u \in Tasks : task'[u] = IF u = t THEN Idle ELSE task[u]
      BY <1>2, <2>2 DEF TaskTypes
    <3>2. At({"delete"})' = At({"delete"}) /\ \A u \in At({"delete"}) : task'[u] = task[u]
      BY <1>1, <3>1, IdleSound DEF At
    <3> QED
      BY <1>2, <2>2, <3>2 DEF OwnerInv
  <2> QED
    BY <1>5, <2>1, <2>2
<1>13. VerdictInv'
  BY <1>1, <1>2, <1>7, <1>9, VerdictFrame DEF requests
<1>14. BanInv'
  <2>1. excuse => excuse'
    BY <1>1 DEF GainExcuses
  <2> QED
    BY <1>1, <1>2, <1>7, <1>9, <2>1, BanFrame
<1> QED
  BY <1>6, <1>10, <1>11, <1>12, <1>13, <1>14 DEF IInv, Typed

LEMMA DeletesStep ==
  ASSUME IInv, NEW t \in Tasks, Deletes(t)
  PROVE  IInv'
<1> DEFINE to == task[t].to
           onward == [task[t] EXCEPT !.pc = "keep"]
<1>1. task[t].pc = "delete" /\ UNCHANGED <<admins, sub, requests, crossed, excuse>>
  BY DEF Deletes
<1>2. Typed /\ TaskTypes /\ OwnerInv /\ VerdictInv /\ BanInv
  BY DEF IInv, Typed
<1>3. task[t] \in TaskRecords /\ to \in Users /\ task[t].by \in Users
  BY <1>1, <1>2 DEF TaskTypes, Sound, Transferring
<1>4. onward \in TaskRecords /\ Sound(onward) /\ onward.pc = "keep"
  BY <1>3 DEF TaskRecords, Places, Transferring, Deciding, Sound
<1>5. /\ \/ /\ task' = [task EXCEPT ![t] = onward]
            /\ owners' = owners \cap {to} /\ half' = (half /\ crossed)
            /\ ownerc' \in {Miss, to} /\ rolec' = [u \in Users |-> Miss]
         \/ /\ task' = [task EXCEPT ![t] = Idle]
            /\ owners' = owners \cap {to} /\ half' = TRUE
            /\ ownerc' \in OwnerMayStay /\ rolec' \in MayStay(task[t].by)
         \/ /\ task' = [task EXCEPT ![t] = Idle]
            /\ UNCHANGED <<owners, ownerc, rolec>> /\ half' = TRUE
      /\ handlers' = handlers
  BY DEF Deletes, Goes, Ends, Becomes, caches
<1> HIDE DEF onward
<1>6. RowTypes'
  <2>1. ownerc' \in Users \cup {Nobody, Miss}
    BY <1>2, <1>3, <1>5, Answered DEF OwnerMayStay, Typed, RowTypes
  <2>2. rolec' \in [Users -> AllRoles \cup {Miss}]
    BY <1>2, <1>3, <1>5, Answered DEF Typed, RowTypes
  <2>3. half' \in BOOLEAN
    BY <1>2, <1>5 DEF Typed, RowTypes
  <2>4. owners' \in SUBSET Users
    BY <1>2, <1>3, <1>5 DEF Typed, RowTypes
  <2> QED
    BY <1>1, <1>2, <2>1, <2>2, <2>3, <2>4 DEF Typed, RowTypes
<1>7. PICK rec \in {onward, Idle} : task' = [task EXCEPT ![t] = rec]
  BY <1>5
<1>8. rec \in TaskRecords /\ Sound(rec) /\ rec.pc \in {"keep", "idle"}
  BY <1>4, <1>7, IdleSound
<1>9. rec.pc \notin Deciding /\ rec.pc \notin Banning
      /\ task[t].pc \notin Deciding /\ task[t].pc \notin Banning
  BY <1>1, <1>8 DEF Deciding, Banning
<1>10. TaskTypes'
  BY <1>2, <1>5, <1>7, <1>8, TaskFrame DEF TaskTypes
<1>11. RequestTypes'
  BY <1>1, <1>2 DEF Typed, RequestTypes, requests
<1>12. OwnerInv'
  <2> SUFFICES ASSUME ~crossed' PROVE OwnerInv'
    BY DEF OwnerInv
  <2>1. /\ ~crossed /\ owners # {} /\ to \in owners
        /\ \A u \in At({"delete"}) : u = t
    BY <1>1, <1>2 DEF OwnerInv, At
  <2>2. \A u \in Tasks : task'[u] = IF u = t THEN rec ELSE task[u]
    BY <1>2, <1>7 DEF TaskTypes
  <2>3. At({"delete"})' = {}
    BY <1>8, <2>1, <2>2 DEF At
  <2>4. CASE owners' = owners \cap {to}
    <3>1. owners' = {to}
      BY <2>1, <2>4
    <3> QED
      BY <1>3, <2>3, <3>1 DEF OwnerInv
  <2>5. CASE owners' = owners /\ half' = TRUE
    BY <2>1, <2>3, <2>5 DEF OwnerInv
  <2> QED
    BY <1>5, <2>4, <2>5
<1>13. VerdictInv'
  BY <1>1, <1>2, <1>7, <1>9, VerdictFrame DEF requests
<1>14. BanInv'
  BY <1>1, <1>2, <1>7, <1>9, BanFrame
<1> QED
  BY <1>6, <1>10, <1>11, <1>12, <1>13, <1>14 DEF IInv, Typed

LEMMA DiesStep ==
  ASSUME IInv, NEW t \in Tasks, Dies(t)
  PROVE  IInv'
<1>1. /\ task' = [task EXCEPT ![t] = Idle] /\ handlers' = handlers
      /\ half' = (half \/ task[t].pc = "delete")
      /\ unsure' = IF task[t].pc \in Deciding THEN unsure \cup {task[t].id} ELSE unsure
      /\ excuse' = (excuse /\ task[t].pc \notin Banning)
      /\ UNCHANGED <<owners, admins, sub, ownerc, rolec, req, card, granted, crossed>>
  BY DEF Dies, Ends, Becomes, rows, caches
<1>2. Typed /\ TaskTypes /\ OwnerInv /\ VerdictInv /\ BanInv
  BY DEF IInv, Typed
<1>3. \A u \in Tasks : task'[u] = IF u = t THEN Idle ELSE task[u]
  BY <1>1, <1>2 DEF TaskTypes
<1>4. Idle.pc \notin Deciding /\ Idle.pc \notin Banning /\ Idle.pc # "delete"
  BY IdleSound DEF Deciding, Banning
<1>5. RowTypes'
  <2>1. half' \in BOOLEAN /\ excuse' \in BOOLEAN
    BY <1>1, <1>2 DEF Typed, RowTypes
  <2> QED
    BY <1>1, <1>2, <2>1 DEF Typed, RowTypes
<1>6. TaskTypes'
  BY <1>1, <1>2, IdleSound, TaskFrame DEF TaskTypes
<1>7. RequestTypes'
  <2>1. unsure' \in SUBSET Requests
    BY <1>1, <1>2 DEF Typed, RequestTypes, TaskTypes, Sound
  <2> QED
    BY <1>1, <1>2, <2>1 DEF Typed, RequestTypes
<1>8. OwnerInv'
  <2>1. CASE task[t].pc = "delete"
    <3> SUFFICES ASSUME ~crossed PROVE OwnerInv'
      BY <1>1 DEF OwnerInv
    <3>1. owners # {} /\ \A u \in At({"delete"}) : u = t
      BY <1>2, <2>1 DEF OwnerInv, At
    <3>2. At({"delete"})' = {}
      BY <1>3, <1>4, <3>1 DEF At
    <3>3. half'
      BY <1>1, <2>1
    <3> QED
      BY <1>1, <3>1, <3>2, <3>3 DEF OwnerInv
  <2>2. CASE task[t].pc # "delete"
    <3>1. half' = half
      BY <1>1, <1>2, <2>2 DEF Typed, RowTypes
    <3> QED
      BY <1>1, <1>2, <1>4, <2>2, <3>1, OwnerFrame
  <2> QED
    BY <2>1, <2>2
<1>9. VerdictInv'
  <2>1. CASE task[t].pc \in Deciding
    <3>1. unsure' = unsure \cup {task[t].id} /\ req' = req
      BY <1>1, <2>1
    <3> QED
      BY <1>1, <1>2, <1>4, <2>1, <3>1, DecisionOver
  <2>2. CASE task[t].pc \notin Deciding
    BY <1>1, <1>2, <1>4, <2>2, VerdictFrame
  <2> QED
    BY <2>1, <2>2
<1>10. BanInv'
  <2>1. CASE task[t].pc \in Banning
    <3>1. At(Banning)' = {}
      BY <1>2, <1>3, <1>4, <2>1 DEF BanInv, At
    <3>2. At({"demoteAgain"})' = {} /\ At({"fanout"})' = {}
      BY <3>1 DEF At, Banning
    <3> QED
      BY <3>1, <3>2 DEF BanInv, BannedHoldsNoRole
  <2>2. CASE task[t].pc \notin Banning
    BY <1>1, <1>2, <1>4, <2>2, BanFrame
  <2> QED
    BY <2>1, <2>2
<1> QED
  BY <1>5, <1>6, <1>7, <1>8, <1>9, <1>10 DEF IInv, Typed

(* A step outside of the handlers, on the caches or on a card.             *)
LEMMA CacheStep ==
  ASSUME IInv, UNCHANGED <<rows, tasks, req, granted, unsure, transfers, excuse>>,
         ownerc' \in Users \cup {Nobody, Miss}, rolec' \in [Users -> AllRoles \cup {Miss}],
         card' \in SUBSET Requests
  PROVE  IInv'
<1>1. UNCHANGED <<owners, admins, sub, task, handlers, crossed, half, excuse>>
  BY DEF rows, tasks, transfers
<1>2. \A pcs : At(pcs)' = At(pcs)
  BY <1>1 DEF At
<1>3. Typed'
  BY <1>1 DEF IInv, Typed, RowTypes, TaskTypes, RequestTypes
<1>4. OwnerInv'
  BY <1>1, <1>2 DEF IInv, OwnerInv
<1>5. VerdictInv'
  BY <1>1, <1>2 DEF IInv, VerdictInv, VerdictIsKept
<1>6. BanInv'
  BY <1>1, <1>2 DEF IInv, BanInv, BannedHoldsNoRole
<1> QED
  BY <1>3, <1>4, <1>5, <1>6 DEF IInv

LEMMA BootsStep ==
  ASSUME IInv, Boots
  PROVE  IInv'
<1>1. /\ owners' = IF owners = {} THEN {First} ELSE owners
      /\ IF owners = {} THEN crossed' = FALSE /\ half' = FALSE ELSE crossed' = crossed /\ half' = half
      /\ ownerc' = Miss /\ rolec' = [u \in Users |-> Miss]
      /\ UNCHANGED <<admins, sub, task, handlers, req, card, granted, unsure, excuse>>
  BY DEF Boots, tasks, requests, transfers
<1>2. \A pcs : At(pcs)' = At(pcs)
  BY <1>1 DEF At
<1>3. At({"delete"}) = {}
  BY DEF Boots, At
<1>4. Typed'
  <2>1. owners' \in SUBSET Users /\ crossed' \in BOOLEAN /\ half' \in BOOLEAN
    BY <1>1, Bounds DEF IInv, Typed, RowTypes
  <2>2. RowTypes'
    BY <1>1, <2>1 DEF IInv, Typed, RowTypes
  <2> QED
    BY <1>1, <2>2 DEF IInv, Typed, TaskTypes, RequestTypes
<1>5. OwnerInv'
  <2>1. CASE owners = {}
    BY <1>1, <1>2, <1>3, <2>1, Bounds DEF OwnerInv
  <2>2. CASE owners # {}
    BY <1>1, <1>2, <1>3, <2>2 DEF IInv, OwnerInv
  <2> QED
    BY <2>1, <2>2
<1>6. VerdictInv'
  BY <1>1, <1>2 DEF IInv, VerdictInv, VerdictIsKept
<1>7. BanInv'
  BY <1>1, <1>2 DEF IInv, BanInv, BannedHoldsNoRole
<1> QED
  BY <1>4, <1>5, <1>6, <1>7 DEF IInv

-----------------------------------------------------------------------------
LEMMA Initially == Init => IInv
<1> SUFFICES ASSUME Init PROVE IInv
  OBVIOUS
<1>1. \A t \in Tasks : task[t] = Idle
  BY DEF Init
<1>2. \A pcs : "idle" \notin pcs => At(pcs) = {}
  BY <1>1, IdleSound DEF At
<1>3. At(Deciding) = {} /\ At({"resolve"}) = {} /\ At({"delete"}) = {} /\ At(Banning) = {}
      /\ At({"demoteAgain"}) = {} /\ At({"fanout"}) = {}
  BY <1>2 DEF Deciding, Banning
<1>4. Typed
  <2>1. RowTypes
    BY Bounds DEF Init, RowTypes
  <2>2. TaskTypes
    BY <1>1, Bounds, IdleSound DEF Init, TaskTypes
  <2>3. RequestTypes
    BY DEF Init, RequestTypes
  <2> QED
    BY <2>1, <2>2, <2>3 DEF Typed
<1>5. OwnerInv
  BY <1>3, Bounds DEF Init, OwnerInv
<1>6. VerdictInv
  BY <1>3 DEF Init, VerdictInv, VerdictIsKept
<1>7. BanInv
  BY <1>3 DEF BanInv, BannedHoldsNoRole
<1> QED
  BY <1>4, <1>5, <1>6, <1>7 DEF IInv

LEMMA HandlerStep ==
  ASSUME IInv, NEW t \in Tasks, Handles(t)
  PROVE  IInv'
<1>1. CASE \E e \in Users :
             \/ \E role \in SubRoles \cup {"admin"} : PromoteStarts(t, e, role)
             \/ DemoteConfirmed(t, e) \/ BanStarts(t, e)
             \/ \E to \in Users : TransferStarts(t, e, to)
  BY <1>1, PromoteStep, DemoteConfirmedStep, BanStartsStep, TransferStartsStep
<1>2. CASE RequestStarts(t) \/ Enqueues(t) \/ Notifies(t)
  BY <1>2, RequestStep, EnqueuesStep, NotifiesStep
<1>3. CASE \E i \in Requests : TapStarts(t, i, "approve") \/ TapStarts(t, i, "reject")
  BY <1>3, TapStep
<1>4. CASE AssignsAdmin(t) \/ CleansUp(t) \/ AssignsSub(t)
  BY <1>4, AssignsAdminStep, CleansUpStep, AssignsSubStep
<1>5. CASE ApproveGrants(t) \/ ApproveResolves(t) \/ RejectResolves(t)
  BY <1>5, ApproveGrantsStep, ApproveResolvesStep, RejectResolvesStep
<1>6. CASE Demotes(t) \/ DemotesFirst(t) \/ LooksAgain(t) \/ DemotesAgain(t) \/ BanEnds(t)
  BY <1>6, DemotesStep, DemotesFirstStep, LooksAgainStep, DemotesAgainStep, BanEndsStep
<1>7. CASE Strips(t) \/ Inserts(t) \/ Deletes(t) \/ KeepsAsAdmin(t) \/ Dies(t)
  BY <1>7, StripsStep, InsertsStep, DeletesStep, KeepsAsAdminStep, DiesStep
<1> QED
  BY <1>1, <1>2, <1>3, <1>4, <1>5, <1>6, <1>7 DEF Handles

LEMMA Inductive == IInv /\ [Next]_vars => IInv'
<1> SUFFICES ASSUME IInv, [Next]_vars PROVE IInv'
  OBVIOUS
<1>1. CASE \E t \in Tasks : Handles(t)
  BY <1>1, HandlerStep
<1>2. ASSUME NEW i \in Requests, TapTurnedAway(i) PROVE IInv'
  <2>1. card' \in SUBSET Requests
    BY <1>2 DEF TapTurnedAway, IInv, Typed, RequestTypes
  <2> QED
    BY <1>2, <2>1, CacheStep DEF TapTurnedAway, IInv, Typed, RowTypes, caches
<1>3. ASSUME NEW u \in Users, RoleExpires(u) PROVE IInv'
  <2>1. rolec' \in [Users -> AllRoles \cup {Miss}]
    BY <1>3 DEF RoleExpires, IInv, Typed, RowTypes
  <2> QED
    BY <1>3, <2>1, CacheStep DEF RoleExpires, IInv, Typed, RowTypes, RequestTypes, requests
<1>4. CASE OwnerExpires
  BY <1>4, CacheStep DEF OwnerExpires, IInv, Typed, RowTypes, RequestTypes, requests
<1>5. CASE Boots
  BY <1>5, BootsStep
<1>6. CASE UNCHANGED vars
  BY <1>6, CacheStep
     DEF vars, caches, requests, IInv, Typed, RowTypes, RequestTypes
<1> QED
  BY <1>1, <1>2, <1>3, <1>4, <1>5, <1>6 DEF Next

LEMMA Holds == Spec => []IInv
  BY Initially, Inductive, PTL DEF Spec

(* The rows, the caches, the handlers and the requests keep their types,   *)
(* and one request at most is pending.                                     *)
THEOREM TypeCorrect == Spec => []TypeOK
<1>1. IInv => TypeOK
  BY TypesSuffice DEF IInv
<1> QED
  BY <1>1, Holds, PTL

(* The federation always has an owner, and outside of a transfer exactly   *)
(* one, unless two transfers crossed or one was cut short.                 *)
THEOREM OneOwner == Spec => []OwnerIsUnique
<1>1. IInv => OwnerIsUnique
  <2> SUFFICES ASSUME IInv, ~crossed PROVE OwnerIsUnique
    BY DEF OwnerIsUnique
  <2>1. owners # {}
    BY DEF IInv, OwnerInv
  <2>2. ASSUME ~half, At({"delete"}) = {} PROVE Cardinality(owners) = 1
    <3>1. PICK o \in Users : owners = {o}
      BY <2>2 DEF IInv, OwnerInv
    <3> QED
      BY <3>1, FS_Singleton
  <2> QED
    BY <2>1, <2>2 DEF OwnerIsUnique
<1> QED
  BY <1>1, Holds, PTL

(* A request counts as approved or rejected only with the rows to match,   *)
(* unless its decisions overlapped or failed.                              *)
THEOREM VerdictsKept == Spec => []VerdictIsKept
<1>1. IInv => VerdictIsKept
  BY DEF IInv, VerdictInv
<1> QED
  BY <1>1, Holds, PTL

(* The fan-out of a ban finds its target without a role, but for the       *)
(* excuses the second look leaves open.                                    *)
THEOREM NoRoleInFanOut == Spec => []BannedHoldsNoRole
<1>1. IInv => BannedHoldsNoRole
  BY DEF IInv, BanInv, BannedHoldsNoRole
<1> QED
  BY <1>1, Holds, PTL
=============================================================================
