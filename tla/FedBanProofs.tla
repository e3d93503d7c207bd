---------------------------- MODULE FedBanProofs ----------------------------
(***************************************************************************)
(* Safety of the federation ban for any primary groups and any groups, and *)
(* any number of runs of _execute_ban (finitely many, for the bound on the *)
(* records), of execute_unban, and of records left by earlier bans; and,   *)
(* in the second part, of the appeal of a ban, for any number of handlers. *)
(***************************************************************************)
EXTENDS FedBan, Appeal, FiniteSetTheorems, WellFoundedInduction, TLAPS

Docs == [active : BOOLEAN]

BanRuns ==
    [pc : {"unsent", "reading", "pruning", "writing", "written", "fanout", "ended"},
     found : RecordCount, ready : BOOLEAN, groups : SUBSET Groups, todo : SUBSET Chats]

LiftRuns ==
    [pc : {"unsent", "holding", "listed", "fanout", "ended"},
     groups : SUBSET Groups, late : SUBSET Groups, todo : SUBSET Chats]

\* Runs that have written their record, or have tried to.
Spent == {b \in Bans : ban[b].pc \in {"written", "fanout", "ended"}}

(* The records: no more than there were and one for each run.              *)
RecordTypes ==
    /\ records \in Seq(Docs)
    /\ Len(records) <= Earlier + Cardinality(Spent)

(* Everything else; a run knows no record that is not there.               *)
RunTypes ==
    /\ listed \in SUBSET Groups
    /\ standing \in [Chats -> {"member", "left", "banned"}]
    /\ ban \in [Bans -> BanRuns]
    /\ \A b \in Bans : /\ ban[b].found <= Len(records)
                       /\ ban[b].pc = "fanout" => ban[b].ready
                       /\ ban[b].pc # "fanout" => ban[b].todo = {}
    /\ lift \in [Lifts -> LiftRuns]
    /\ join \in [Chats -> {"none", "joined", "enforcing"}]
    /\ verify \in [answer : Answers, ready : BOOLEAN, todo : SUBSET Groups]
    /\ connect \in [Groups -> [answer : Answers \cup {"idle"}, added : BOOLEAN]]
    /\ missed \in SUBSET Chats
    /\ stuck \in SUBSET BannedChats

Typed == RecordTypes /\ RunTypes

(* Whoever is about to ban has seen a record or written one.               *)
Evidence ==
    records = <<>> =>
        /\ BannedChats = {}
        /\ \A b \in Bans : ban[b].pc \notin {"written", "fanout"}
        /\ \A c \in Chats : join[c] # "enforcing"
        /\ verify.answer # "banned"
        /\ \A g \in Groups : connect[g].answer # "banned"

(* A lift that has read its list still knows every connected group, and    *)
(* unbans nowhere before it has lifted the record.                         *)
LiftKnows ==
    \A l \in Lifts :
        /\ lift[l].pc = "listed" => listed \subseteq lift[l].groups \cup lift[l].late
        /\ lift[l].pc # "fanout" => lift[l].todo = {}

(* NoOrphan, for the chats outside of the federation too: they may come in.*)
Accounted ==
    Active = {} => \A c \in BannedChats :
        c \in stuck \/ \E l \in Lifts : c \in lift[l].todo

IInv == Typed /\ Evidence /\ NoGap /\ LiftKnows /\ Accounted

-----------------------------------------------------------------------------
(* Records. *)

LEMMA Bounds ==
    /\ IsFiniteSet(Bans) /\ Earlier \in Nat /\ Cardinality(Bans) \in Nat
    /\ RecordCount = 0..(Earlier + Cardinality(Bans)) /\ 0 \in RecordCount
    /\ Primary \subseteq Chats /\ Groups \subseteq Chats
  BY BoundsAssumption, FS_CardinalityType DEF RecordCount, Chats

LEMMA SpentBounds ==
  /\ IsFiniteSet(Spent) /\ Cardinality(Spent) \in Nat
  /\ Cardinality(Spent) <= Cardinality(Bans)
<1>1. Spent \in SUBSET Bans
  BY DEF Spent
<1> QED
  BY <1>1, Bounds, FS_Subset, FS_CardinalityType

(* The newest active record exists: the one with the fewest above it.      *)
LEMMA Newest ==
  ASSUME records \in Seq(Docs), Active # {}
  PROVE  ActiveBan \in Active /\ ActiveBan \in 1..Len(records)
<1> DEFINE above(i) == {j \in Active : j > i}
           family == {above(i) : i \in Active}
<1>1. Active \subseteq 1..Len(records) /\ Len(records) \in Nat
  BY DEF Active
<1>2. IsFiniteSet(1..Len(records))
  BY <1>1, FS_Interval
<1>3. family \subseteq FiniteSubsetsOf(Active)
  <2> SUFFICES ASSUME NEW i \in Active PROVE above(i) \in FiniteSubsetsOf(Active)
    OBVIOUS
  <2>1. above(i) \in SUBSET (1..Len(records))
    BY <1>1
  <2>2. IsFiniteSet(above(i))
    BY <1>2, <2>1, FS_Subset
  <2> QED
    BY <2>2 DEF FiniteSubsetsOf
<1>4. PICK s \in family : \A t \in family : ~(<<t, s>> \in StrictSubsetOrdering(Active))
  <2>1. family # {}
    OBVIOUS
  <2> HIDE DEF family
  <2> QED
    BY <1>3, <2>1, FS_StrictSubsetOrderingWellFounded, WFMin
<1>5. PICK i \in Active : s = above(i)
  BY <1>4
<1>6. \A j \in Active : j <= i
  <2> SUFFICES ASSUME NEW j \in Active, j > i PROVE FALSE
    BY <1>1
  <2>1. above(j) \subseteq above(i) /\ j \in above(i) /\ j \notin above(j)
    <3>1. \A k \in Active : k \in Int
      BY <1>1
    <3>2. \A k \in Active : k > j => k > i
      BY <3>1
    <3>3. ~(j > j)
      BY <3>1
    <3> QED
      BY <3>2, <3>3
  <2>2. <<above(j), above(i)>> \in StrictSubsetOrdering(Active)
    BY <2>1 DEF StrictSubsetOrdering
  <2> QED
    BY <1>4, <1>5, <2>2
<1>7. ActiveBan \in Active
  BY <1>6 DEF ActiveBan
<1> QED
  BY <1>1, <1>7

LEMMA NoRecord ==
  ASSUME records \in Seq(Docs)
  PROVE  /\ Len(records) \in Nat
         /\ Active # {} => records # <<>> /\ Len(records) > 0
         /\ ActiveBan # 0 => Active # {} /\ ActiveBan \in 1..Len(records)
         /\ IsBanned = "banned" => Active # {}
         /\ IsBanned \in Answers /\ IsBanned # "unread"
<1>1. Active # {} => records # <<>> /\ Len(records) > 0
  BY DEF Active
<1>2. ActiveBan # 0 => Active # {} /\ ActiveBan \in 1..Len(records)
  BY Newest DEF ActiveBan
<1> QED
  BY <1>1, <1>2 DEF IsBanned, Answers

LEMMA Deactivated ==
  ASSUME records \in Seq(Docs), NEW ids, Deactivate(ids)
  PROVE  /\ records' \in Seq(Docs) /\ Len(records') = Len(records)
         /\ Active' = Active \ ids
         /\ records' = <<>> => records = <<>>
<1>1. DOMAIN records = 1..Len(records) /\ Len(records) \in Nat
  OBVIOUS
<1>2. \A i \in 1..Len(records) : records[i] \in Docs
  OBVIOUS
<1> DEFINE f == [i \in 1..Len(records) |->
                  IF i \in ids THEN [records[i] EXCEPT !.active = FALSE] ELSE records[i]]
<1>3. \A i \in 1..Len(records) : f[i] \in Docs
  BY <1>2 DEF Docs
<1>4. f \in Seq(Docs) /\ Len(f) = Len(records)
  BY <1>1, <1>3
<1>5. records' = f
  BY <1>1 DEF Deactivate
<1>6. \A i \in 1..Len(records) : f[i].active <=> (records[i].active /\ i \notin ids)
  BY <1>2 DEF Docs
<1> HIDE DEF f
<1>7. Active' = Active \ ids
  BY <1>1, <1>4, <1>5, <1>6 DEF Active
<1> QED
  BY <1>4, <1>5, <1>7

LEMMA Appended ==
  ASSUME records \in Seq(Docs), records' = Append(records, [active |-> TRUE])
  PROVE  /\ records' \in Seq(Docs) /\ Len(records') = Len(records) + 1
         /\ Active' = Active \cup {Len(records) + 1}
         /\ records' # <<>>
<1>1. [active |-> TRUE] \in Docs /\ Len(records) \in Nat
  BY DEF Docs
<1>2. records' \in Seq(Docs) /\ Len(records') = Len(records) + 1
  BY <1>1
<1>3. \A i \in 1..Len(records) : records'[i] = records[i]
  BY <1>1
<1>4. records'[Len(records) + 1] = [active |-> TRUE]
  BY <1>1
<1>5. Active' = Active \cup {Len(records) + 1}
  BY <1>1, <1>2, <1>3, <1>4 DEF Active
<1> QED
  BY <1>2, <1>5

-----------------------------------------------------------------------------
(* Types. *)

LEMMA SpentGrows ==
  ASSUME Spent \subseteq Spent'
  PROVE  /\ Cardinality(Spent) \in Nat /\ Cardinality(Spent') \in Nat
         /\ Cardinality(Spent) <= Cardinality(Spent')
         /\ \A b \in Spent' : b \notin Spent => Cardinality(Spent) + 1 <= Cardinality(Spent')
<1>1. Spent' \in SUBSET Bans
  BY DEF Spent
<1>2. IsFiniteSet(Spent') /\ Cardinality(Spent') \in Nat
  BY <1>1, Bounds, FS_Subset, FS_CardinalityType
<1>3. Cardinality(Spent) <= Cardinality(Spent') /\ (Cardinality(Spent) = Cardinality(Spent') => Spent = Spent')
  BY <1>2, FS_Subset
<1> QED
  BY <1>2, <1>3, SpentBounds

LEMMA TypesSuffice == Typed => TypeOK
<1> SUFFICES ASSUME Typed PROVE TypeOK
  OBVIOUS
<1>1. Len(records) \in RecordCount
  <2>1. Len(records) \in Nat /\ Len(records) <= Earlier + Cardinality(Spent)
    BY DEF Typed, RecordTypes
  <2> QED
    BY <2>1, SpentBounds, Bounds
<1>2. /\ ban \in [Bans -> BanRuns] /\ lift \in [Lifts -> LiftRuns]
      /\ records \in Seq(Docs)
  BY DEF Typed, RecordTypes, RunTypes
<1> QED
  BY <1>1, <1>2 DEF Typed, RunTypes, TypeOK, BanRuns, LiftRuns, Docs, BannedChats

\* What a step that does not touch the runs of _execute_ban leaves.
LEMMA BanUntouched ==
  ASSUME Typed, UNCHANGED ban, records' \in Seq(Docs), Len(records') = Len(records)
  PROVE  /\ RecordTypes'
         /\ ban' \in [Bans -> BanRuns]
         /\ \A b \in Bans : /\ ban'[b].found <= Len(records')
                            /\ ban'[b].pc = "fanout" => ban'[b].ready
                            /\ ban'[b].pc # "fanout" => ban'[b].todo = {}
<1>1. Spent' = Spent
  BY DEF Spent
<1> QED
  BY <1>1 DEF Typed, RecordTypes, RunTypes

\* What a step of one run leaves.
LEMMA BanGoesOn ==
  ASSUME Typed, NEW b \in Bans, NEW rec \in BanRuns,
         ban' = [ban EXCEPT ![b] = rec],
         records' \in Seq(Docs),
         \/ Len(records') = Len(records)
         \/ /\ Len(records') = Len(records) + 1
            /\ b \notin Spent /\ rec.pc \in {"written", "fanout", "ended"},
         b \in Spent => rec.pc \in {"written", "fanout", "ended"},
         rec.found <= Len(records'),
         IF rec.pc = "fanout" THEN rec.ready ELSE rec.todo = {}
  PROVE  /\ RecordTypes'
         /\ ban' \in [Bans -> BanRuns]
         /\ \A a \in Bans : /\ ban'[a].found <= Len(records')
                            /\ ban'[a].pc = "fanout" => ban'[a].ready
                            /\ ban'[a].pc # "fanout" => ban'[a].todo = {}
<1>1. /\ ban' \in [Bans -> BanRuns]
      /\ \A a \in Bans : ban'[a] = IF a = b THEN rec ELSE ban[a]
  BY DEF Typed, RunTypes
<1>2. Spent \subseteq Spent' /\ (rec.pc \in {"written", "fanout", "ended"} => b \in Spent')
  BY <1>1 DEF Spent
<1>3. /\ Len(records) \in Nat /\ Len(records) <= Earlier + Cardinality(Spent)
      /\ Len(records') \in Nat /\ Len(records') >= Len(records)
  BY DEF Typed, RecordTypes
<1>4. Len(records') <= Earlier + Cardinality(Spent')
  BY <1>2, <1>3, SpentGrows, Bounds
<1>5. ASSUME NEW a \in Bans
      PROVE  /\ ban'[a].found <= Len(records')
             /\ ban'[a].pc = "fanout" => ban'[a].ready
             /\ ban'[a].pc # "fanout" => ban'[a].todo = {}
  <2>1. CASE a = b
    BY <1>1, <2>1
  <2>2. CASE a # b
    <3>1. ban[a].found <= Len(records) /\ ban[a].found \in RecordCount
      BY DEF Typed, RunTypes, BanRuns
    <3>2. ban[a].found <= Len(records')
      BY <3>1, <1>3, Bounds
    <3> QED
      BY <1>1, <2>2, <3>2 DEF Typed, RunTypes
  <2> QED
    BY <2>1, <2>2
<1> QED
  BY <1>1, <1>4, <1>5 DEF RecordTypes

LEMMA TelegramBanTyped ==
  ASSUME RunTypes, NEW c \in Chats, TelegramBan(c)
  PROVE  /\ standing' \in [Chats -> {"member", "left", "banned"}]
         /\ missed' \in SUBSET Chats /\ stuck' \in SUBSET BannedChats'
         /\ BannedChats' \subseteq BannedChats \cup {c}
         /\ \A d \in Chats \ {c} : standing'[d] = standing[d]
         /\ standing'[c] = "banned" \/ c \in missed'
         /\ Active = {} => BannedChats' \subseteq BannedChats \cup stuck'
         /\ stuck \subseteq stuck' \cup {c}
         /\ missed \subseteq missed' \cup {c}
         /\ Active = {} => stuck \subseteq stuck'
  BY DEF RunTypes, TelegramBan, BannedChats

LEMMA TelegramUnbanTyped ==
  ASSUME RunTypes, NEW c \in Chats, TelegramUnban(c)
  PROVE  /\ standing' \in [Chats -> {"member", "left", "banned"}]
         /\ missed' = missed /\ stuck' \in SUBSET BannedChats'
         /\ BannedChats' \subseteq BannedChats
         /\ \A d \in Chats : standing'[d] = "member" => standing[d] = "member"
         /\ BannedChats' \subseteq stuck' \cup (BannedChats \ {c})
         /\ stuck \ {c} \subseteq stuck'
  BY DEF RunTypes, TelegramUnban, BannedChats

LEMMA WrittenTyped ==
  ASSUME Typed, NEW b \in Bans, records' = Written(b)
  PROVE  /\ records' \in Seq(Docs)
         /\ Len(records') = Len(records) \/ Len(records') = Len(records) + 1
         /\ Active \subseteq Active'
         /\ records' # <<>>
<1>1. /\ records \in Seq(Docs) /\ Len(records) \in Nat
      /\ ban[b].found <= Len(records) /\ ban[b].found \in Nat
  BY Bounds DEF Typed, RecordTypes, RunTypes, BanRuns
<1>2. CASE ban[b].found = 0
  BY <1>1, <1>2, Appended DEF Written
<1>3. CASE ban[b].found # 0
  <2>1. records' = records
    BY <1>3 DEF Written
  <2>2. Len(records) > 0
    BY <1>1, <1>3
  <2> QED
    BY <1>1, <2>1, <2>2 DEF Active
<1> QED
  BY <1>2, <1>3

LEMMA EndedTyped ==
  /\ EndedBan \in BanRuns /\ EndedBan.pc = "ended" /\ EndedBan.found = 0
  /\ EndedBan.todo = {}
  /\ EndedLift \in LiftRuns /\ EndedLift.pc = "ended" /\ EndedLift.todo = {}
  BY Bounds DEF EndedBan, EndedLift, Unsent, UnsentLift, BanRuns, LiftRuns

-----------------------------------------------------------------------------
(* Steps of _execute_ban. *)

\* What such a step, to rec, must show for the other invariants.
LEMMA BanKeepsIInv ==
  ASSUME IInv, Typed', NEW b \in Bans, NEW rec, ban' = [ban EXCEPT ![b] = rec],
         UNCHANGED <<listed, lift, join, verify, connect>>,
         \* Evidence
         records' = <<>> =>
            records = <<>> /\ BannedChats' = {} /\ rec.pc \notin {"written", "fanout"},
         \* NoGap
         \A c \in Chats : standing'[c] = "member" => standing[c] = "member",
         \A c \in missed : c \in missed' \/ standing'[c] = "banned",
         \A c \in BanOwes(b) :
            InFederation(c) => c \in BanOwes(b)' \cup missed' \/ standing'[c] = "banned",
         Active' # {} /\ Active = {} =>
            \A c \in Chats : InFederation(c) => c \in BanOwes(b)' \cup missed',
         \* Accounted
         Active' = {} => \/ BannedChats' \subseteq stuck'
                         \/ /\ Active = {} /\ stuck \subseteq stuck'
                            /\ BannedChats' \subseteq BannedChats \cup stuck'
  PROVE  IInv'
<1>1. \A a \in Bans : ban'[a] = IF a = b THEN rec ELSE ban[a]
  BY DEF IInv, Typed, RunTypes
<1>2. Evidence'
  BY <1>1 DEF IInv, Evidence
<1>3. NoGap'
  <2> SUFFICES ASSUME Active' # {}, NEW c \in Chats, InFederation(c)', standing'[c] = "member",
                      c \notin missed'
               PROVE  Owed(c)'
    BY DEF NoGap
  <2>1. InFederation(c) /\ standing[c] = "member" /\ c \notin missed
    BY DEF InFederation
  <2>2. CASE Active = {}
    BY <2>1, <2>2 DEF Owed
  <2>3. CASE Active # {}
    <3>1. Owed(c)
      BY <2>1, <2>3 DEF IInv, NoGap
    <3>2. CASE join[c] # "none" \/ (c \in Groups /\ connect[c].answer \in {"unread", "banned"})
      BY <3>2 DEF Owed
    <3>3. ASSUME NEW a \in Bans, c \in BanOwes(a)
          PROVE  Owed(c)'
      <4>1. CASE a = b
        BY <2>1, <3>3, <4>1 DEF Owed
      <4>2. CASE a # b
        <5>1. BanOwes(a)' = BanOwes(a)
          BY <1>1, <4>2 DEF BanOwes
        <5> QED
          BY <3>3, <5>1 DEF Owed
      <4> QED
        BY <4>1, <4>2
    <3> QED
      BY <3>1, <3>2, <3>3 DEF Owed
  <2> QED
    BY <2>2, <2>3
<1>4. LiftKnows'
  BY DEF IInv, LiftKnows
<1>5. Accounted'
  BY DEF IInv, Accounted
<1> QED
  BY <1>2, <1>3, <1>4, <1>5 DEF IInv

\* One that only moves the run.
LEMMA BanMoves ==
  ASSUME IInv, NEW b \in Bans, NEW rec \in BanRuns, ban' = [ban EXCEPT ![b] = rec],
         UNCHANGED <<records, listed, standing, lift, join, verify, connect, stuck>>,
         b \in Spent => rec.pc \in {"written", "fanout", "ended"},
         rec.found <= Len(records), IF rec.pc = "fanout" THEN rec.ready ELSE rec.todo = {},
         records = <<>> => rec.pc \notin {"written", "fanout"},
         missed' \in SUBSET Chats, missed \subseteq missed',
         \A c \in BanOwes(b) : InFederation(c) => c \in BanOwes(b)' \cup missed'
  PROVE  IInv'
<1>1. Active' = Active /\ BannedChats' = BannedChats
  BY DEF Active, BannedChats
<1>2. Typed'
  BY <1>1, BanGoesOn DEF IInv, Typed, RecordTypes, RunTypes
<1>3. records = <<>> => BannedChats = {}
  BY DEF IInv, Evidence
<1> QED
  BY <1>1, <1>2, <1>3, BanKeepsIInv

LEMMA BanStepKeepsIInv ==
  ASSUME IInv, NEW b \in Bans, BanStep(b)
  PROVE  IInv'
<1>a. /\ ban \in [Bans -> BanRuns] /\ ban[b] \in BanRuns
      /\ ban[b].found <= Len(records)
      /\ IF ban[b].pc = "fanout" THEN ban[b].ready ELSE ban[b].todo = {}
      /\ records \in Seq(Docs) /\ Len(records) \in Nat /\ 0 <= Len(records)
      /\ missed \in SUBSET Chats /\ listed \in SUBSET Groups /\ RunTypes /\ Typed
  BY DEF IInv, Typed, RecordTypes, RunTypes
<1>b. records = <<>> => ban[b].pc \notin {"written", "fanout"} /\ BannedChats = {}
  BY DEF IInv, Evidence
<1>1. CASE BanStarts(b)
  <2> DEFINE rec == [ban[b] EXCEPT !.pc = "reading"]
  <2>1. /\ ban' = [ban EXCEPT ![b] = rec] /\ ban[b].pc = "unsent"
        /\ UNCHANGED <<records, listed, standing, lift, join, verify, connect, missed, stuck>>
    BY <1>1, <1>a DEF BanStarts
  <2>2. rec \in BanRuns /\ rec.pc = "reading" /\ rec.todo = ban[b].todo /\ rec.found = ban[b].found
    BY <1>a DEF BanRuns
  <2>3. BanOwes(b) = {} /\ b \notin Spent
    BY <2>1 DEF BanOwes, Spent
  <2> HIDE DEF rec
  <2> QED
    BY <1>a, <2>1, <2>2, <2>3, BanMoves
<1>2. CASE BanReadsGroups(b)
  <2> PICK groups \in {listed, {}} :
        /\ ban' = [ban EXCEPT ![b].ready = TRUE, ![b].groups = groups]
        /\ missed' = missed \cup IF ban[b].pc = "written" THEN listed \ groups ELSE {}
    BY <1>2 DEF BanReadsGroups
  <2> DEFINE rec == [ban[b] EXCEPT !.ready = TRUE, !.groups = groups]
  <2>1. /\ ban' = [ban EXCEPT ![b] = rec] /\ ~ban[b].ready
        /\ ban[b].pc \in {"reading", "pruning", "writing", "written"}
        /\ UNCHANGED <<records, listed, standing, lift, join, verify, connect, stuck>>
    BY <1>2, <1>a DEF BanReadsGroups
  <2>2. /\ rec \in BanRuns /\ rec.pc = ban[b].pc /\ rec.todo = ban[b].todo /\ rec.found = ban[b].found
        /\ rec.ready /\ rec.groups = groups
    BY <1>a DEF BanRuns
  <2>3. missed' \in SUBSET Chats /\ missed \subseteq missed'
    BY <1>a, Bounds
  <2>4. b \in Spent => rec.pc \in {"written", "fanout", "ended"}
    BY <2>2 DEF Spent
  <2> HIDE DEF rec
  <2>5. ban'[b] = rec
    BY <1>a, <2>1
  <2>6. \A c \in BanOwes(b) : InFederation(c) => c \in BanOwes(b)' \cup missed'
    BY <2>1, <2>2, <2>5 DEF BanOwes, InFederation
  <2> QED
    BY <1>a, <1>b, <2>1, <2>2, <2>3, <2>4, <2>6, BanMoves
<1>3. CASE BanReads(b)
  <2>1. /\ ban[b].pc = "reading"
        /\ UNCHANGED <<records, listed, standing, lift, join, verify, connect, missed, stuck>>
    BY <1>3 DEF BanReads
  <2>2. BanOwes(b) = {} /\ b \notin Spent
    BY <2>1 DEF BanOwes, Spent
  <2>3. CASE ActiveBan # 0 /\ ban' = [ban EXCEPT ![b].pc = "pruning", ![b].found = ActiveBan]
    <3> DEFINE rec == [ban[b] EXCEPT !.pc = "pruning", !.found = ActiveBan]
    <3>1. ban' = [ban EXCEPT ![b] = rec]
      BY <2>3, <1>a
    <3>2. ActiveBan \in 1..Len(records) /\ ActiveBan \in RecordCount
      <4>1. ActiveBan \in 1..Len(records)
        BY <1>a, <2>3, NoRecord
      <4>2. Len(records) <= Earlier + Cardinality(Bans)
        BY <1>a, SpentBounds, Bounds DEF Typed, RecordTypes
      <4> QED
        BY <1>a, <4>1, <4>2, Bounds
    <3>3. rec \in BanRuns /\ rec.pc = "pruning" /\ rec.todo = ban[b].todo /\ rec.found = ActiveBan
      BY <1>a, <3>2 DEF BanRuns
    <3>4. rec.found <= Len(records)
      BY <1>a, <3>2, <3>3
    <3> HIDE DEF rec
    <3> QED
      BY <1>a, <2>1, <2>2, <3>1, <3>3, <3>4, BanMoves
  <2>4. CASE ban' = [ban EXCEPT ![b].pc = "writing"]
    <3> DEFINE rec == [ban[b] EXCEPT !.pc = "writing"]
    <3>1. ban' = [ban EXCEPT ![b] = rec]
      BY <2>4, <1>a
    <3>2. rec \in BanRuns /\ rec.pc = "writing" /\ rec.todo = ban[b].todo /\ rec.found <= Len(records)
      BY <1>a DEF BanRuns
    <3> HIDE DEF rec
    <3> QED
      BY <1>a, <2>1, <2>2, <3>1, <3>2, BanMoves
  <2> QED
    BY <1>3, <2>3, <2>4 DEF BanReads
<1>4. CASE BanPrunes(b)
  <2> DEFINE rec == [ban[b] EXCEPT !.pc = "writing"]
  <2>1. /\ ban' = [ban EXCEPT ![b] = rec] /\ ban[b].pc = "pruning"
        /\ Deactivate(Active \ {ban[b].found})
        /\ stuck' = stuck \cup IF ban[b].found \in Active THEN {} ELSE BannedChats
        /\ UNCHANGED <<listed, standing, lift, join, verify, connect, missed>>
    BY <1>4, <1>a DEF BanPrunes
  <2>2. /\ records' \in Seq(Docs) /\ Len(records') = Len(records)
        /\ Active' = Active \ (Active \ {ban[b].found})
        /\ records' = <<>> => records = <<>>
    BY <1>a, <2>1, Deactivated
  <2>3. rec \in BanRuns /\ rec.pc = "writing" /\ rec.todo = ban[b].todo /\ rec.found = ban[b].found
    BY <1>a DEF BanRuns
  <2>4. BanOwes(b) = {} /\ b \notin Spent /\ BannedChats' = BannedChats
    BY <2>1 DEF BanOwes, Spent, BannedChats
  <2> HIDE DEF rec
  <2>5. Typed'
    BY <1>a, <2>1, <2>2, <2>3, <2>4, BanGoesOn DEF Typed, RunTypes
  <2> QED
    BY <1>b, <2>1, <2>2, <2>3, <2>4, <2>5, BanKeepsIInv
<1>5. CASE BanWrites(b)
  <2> DEFINE rec == [ban[b] EXCEPT !.pc = "written", !.found = 0]
  <2>1. /\ ban' = [ban EXCEPT ![b] = rec] /\ ban[b].pc = "writing"
        /\ records' = Written(b)
        /\ missed' = missed \cup IF ban[b].ready THEN listed \ ban[b].groups ELSE {}
        /\ UNCHANGED <<listed, standing, lift, join, verify, connect, stuck>>
    BY <1>5, <1>a DEF BanWrites
  <2>2. /\ records' \in Seq(Docs)
        /\ Len(records') = Len(records) \/ Len(records') = Len(records) + 1
        /\ Active \subseteq Active' /\ records' # <<>> /\ Len(records') \in Nat
    BY <1>a, <2>1, WrittenTyped
  <2>3. /\ rec \in BanRuns /\ rec.pc = "written" /\ rec.found = 0 /\ rec.todo = ban[b].todo
        /\ rec.ready = ban[b].ready /\ rec.groups = ban[b].groups
    BY <1>a, Bounds DEF BanRuns
  <2>4. BanOwes(b) = {} /\ b \notin Spent /\ BannedChats' = BannedChats
    BY <2>1 DEF BanOwes, Spent, BannedChats
  <2> HIDE DEF rec
  <2>5. ban'[b] = rec
    BY <1>a, <2>1
  <2>6. Typed'
    <3>1. missed' \in SUBSET Chats
      BY <1>a, <2>1, Bounds
    <3>2. rec.found <= Len(records')
      BY <2>2, <2>3
    <3> QED
      BY <1>a, <2>1, <2>2, <2>3, <2>4, <3>1, <3>2, BanGoesOn DEF Typed, RunTypes
  <2>7. \A c \in Chats : InFederation(c) => c \in BanOwes(b)' \cup missed'
    BY <1>a, <2>1, <2>3, <2>5 DEF BanOwes, InFederation
  <2> QED
    BY <2>1, <2>2, <2>4, <2>6, <2>7, BanKeepsIInv
<1>6. CASE BanWriteFails(b)
  <2>1. /\ ban' = [ban EXCEPT ![b] = EndedBan] /\ ban[b].pc = "writing"
        /\ records' \in {records, Written(b)}
        /\ missed' = missed \cup Chats
        /\ UNCHANGED <<listed, standing, lift, join, verify, connect, stuck>>
    BY <1>6 DEF BanWriteFails
  <2>2. /\ records' \in Seq(Docs)
        /\ Len(records') = Len(records) \/ Len(records') = Len(records) + 1
        /\ Active \subseteq Active' /\ Len(records') \in Nat
        /\ records' = <<>> => records = <<>>
    BY <1>a, <2>1, WrittenTyped DEF Active
  <2>3. BanOwes(b) = {} /\ b \notin Spent /\ BannedChats' = BannedChats
    BY <2>1 DEF BanOwes, Spent, BannedChats
  <2>4. Typed'
    <3>1. 0 <= Len(records')
      BY <2>2
    <3> QED
      BY <1>a, <2>1, <2>2, <2>3, <3>1, EndedTyped, BanGoesOn DEF Typed, RunTypes
  <2> QED
    BY <1>b, <2>1, <2>2, <2>3, <2>4, EndedTyped, BanKeepsIInv
<1>7. CASE BanFansOut(b)
  <2> DEFINE rec == FanningOut(ban[b], Primary \cup ban[b].groups)
  <2>1. /\ ban' = [ban EXCEPT ![b] = rec] /\ ban[b].pc = "written" /\ ban[b].ready
        /\ UNCHANGED <<records, listed, standing, lift, join, verify, connect, missed, stuck>>
    BY <1>7, <1>a DEF BanFansOut
  <2>2. /\ rec \in BanRuns /\ rec.pc = "fanout" /\ rec.ready /\ rec.found = 0
        /\ rec.todo = Primary \cup ban[b].groups
    BY <1>a, <2>1, Bounds DEF BanRuns, FanningOut, Unsent
  <2> HIDE DEF rec
  <2>3. ban'[b] = rec
    BY <1>a, <2>1
  <2>4. BanOwes(b)' = BanOwes(b)
    BY <2>1, <2>2, <2>3 DEF BanOwes
  <2> QED
    BY <1>a, <1>b, <2>1, <2>2, <2>4, BanMoves
<1>8. CASE BanEnforces(b)
  <2> PICK c \in ban[b].todo :
        /\ TelegramBan(c)
        /\ LET rest == ban[b].todo \ {c} IN
           ban' = [ban EXCEPT ![b] = IF rest = {} THEN EndedBan ELSE [ban[b] EXCEPT !.todo = rest]]
        /\ UNCHANGED <<records, listed, lift, join, verify, connect>>
    BY <1>8 DEF BanEnforces
  <2> DEFINE rest == ban[b].todo \ {c}
             rec == IF rest = {} THEN EndedBan ELSE [ban[b] EXCEPT !.todo = rest]
  <2>1. /\ ban' = [ban EXCEPT ![b] = rec] /\ ban[b].pc = "fanout" /\ c \in Chats
    <3>1. ban' = [ban EXCEPT ![b] = rec]
      BY <1>a
    <3>2. ban[b].pc = "fanout"
      BY <1>a
    <3>3. ban[b].todo \in SUBSET Chats
      BY <1>a DEF BanRuns
    <3> QED
      BY <3>1, <3>2, <3>3
  <2>2. /\ rec \in BanRuns /\ rec.pc \in {"fanout", "ended"} /\ rec.found \in {0, ban[b].found}
        /\ rec.pc = "ended" => rec.todo = {}
        /\ rec.pc = "fanout" => rec.ready
        /\ IF rec.pc = "fanout" THEN rec.todo = ban[b].todo \ {c} ELSE ban[b].todo = {c}
    BY <1>a, <2>1, EndedTyped DEF BanRuns
  <2> HIDE DEF rec
  <2>3. ban'[b] = rec
    BY <1>a, <2>1
  <2>4. records # <<>> /\ Active' = Active
    BY <1>b, <2>1 DEF Active
  <2>5. /\ standing' \in [Chats -> {"member", "left", "banned"}]
        /\ missed' \in SUBSET Chats /\ stuck' \in SUBSET BannedChats'
        /\ \A d \in Chats : standing'[d] = "member" => standing[d] = "member"
        /\ \A d \in missed : d \in missed' \/ standing'[d] = "banned"
        /\ c \in missed' \/ standing'[c] = "banned"
        /\ Active = {} => BannedChats' \subseteq BannedChats \cup stuck' /\ stuck \subseteq stuck'
    BY <1>a, <2>1 DEF RunTypes, TelegramBan, BannedChats
  <2>6. Typed'
    <3>1. rec.found <= Len(records)
      BY <1>a, <2>2
    <3>2. records' = records /\ UNCHANGED <<listed, lift, join, verify, connect>>
      OBVIOUS
    <3>3. /\ RecordTypes'
          /\ ban' \in [Bans -> BanRuns]
          /\ \A a \in Bans : /\ ban'[a].found <= Len(records')
                             /\ ban'[a].pc = "fanout" => ban'[a].ready
                             /\ ban'[a].pc # "fanout" => ban'[a].todo = {}
      BY <1>a, <2>1, <2>2, <3>1, <3>2, BanGoesOn
    <3> QED
      BY <1>a, <2>5, <3>2, <3>3 DEF Typed, RunTypes
  <2>7. \A d \in BanOwes(b) : d \in BanOwes(b)' \cup missed' \/ standing'[d] = "banned"
    BY <2>1, <2>2, <2>3, <2>5 DEF BanOwes
  <2>8. Active' = {} => Active = {} /\ stuck \subseteq stuck' /\ BannedChats' \subseteq BannedChats \cup stuck'
    BY <2>4, <2>5
  <2> QED
    BY <2>1, <2>4, <2>5, <2>6, <2>7, <2>8, BanKeepsIInv
<1>9. CASE BanDies(b)
  <2>1. /\ ban' = [ban EXCEPT ![b] = EndedBan] /\ missed' = missed \cup BanOwes(b)
        /\ UNCHANGED <<records, listed, standing, lift, join, verify, connect, stuck>>
    BY <1>9 DEF BanDies
  <2>2. BanOwes(b) \in SUBSET Chats
    BY <1>a, Bounds DEF BanOwes, BanRuns
  <2> QED
    BY <1>a, <2>1, <2>2, EndedTyped, BanMoves
<1> QED
  BY <1>1, <1>2, <1>3, <1>4, <1>5, <1>6, <1>7, <1>8, <1>9 DEF BanStep

-----------------------------------------------------------------------------
(* Steps of execute_unban. *)

LEMMA LiftKeepsIInv ==
  ASSUME IInv, NEW l \in Lifts, NEW rec \in LiftRuns, lift' = [lift EXCEPT ![l] = rec],
         UNCHANGED <<listed, ban, join, verify, connect, missed>>,
         records' \in Seq(Docs), Len(records') = Len(records), Active' \subseteq Active,
         records' = <<>> => records = <<>>,
         standing' \in [Chats -> {"member", "left", "banned"}],
         \A c \in Chats : standing'[c] = "member" => standing[c] = "member",
         BannedChats' \subseteq BannedChats, stuck' \in SUBSET BannedChats',
         \* LiftKnows
         rec.pc = "listed" => listed \subseteq rec.groups \cup rec.late,
         rec.pc # "fanout" => rec.todo = {},
         \* Accounted
         Active' = {} =>
            \/ BannedChats' \subseteq stuck' \cup rec.todo
            \/ /\ Active = {} /\ stuck \cap BannedChats' \subseteq stuck'
               /\ lift[l].todo \cap BannedChats' \subseteq rec.todo \cup stuck'
  PROVE  IInv'
<1>1. \A k \in Lifts : lift'[k] = IF k = l THEN rec ELSE lift[k]
  BY DEF IInv, Typed, RunTypes
<1>2. Typed'
  <2>1. lift' \in [Lifts -> LiftRuns]
    BY DEF IInv, Typed, RunTypes
  <2>2. Typed
    BY DEF IInv
  <2>3. /\ RecordTypes'
        /\ ban' \in [Bans -> BanRuns]
        /\ \A b \in Bans : /\ ban'[b].found <= Len(records')
                           /\ ban'[b].pc = "fanout" => ban'[b].ready
                           /\ ban'[b].pc # "fanout" => ban'[b].todo = {}
    BY <2>2, BanUntouched
  <2> QED
    BY <2>1, <2>2, <2>3 DEF Typed, RunTypes
<1>3. Evidence'
  BY DEF IInv, Evidence
<1>4. NoGap'
  <2> SUFFICES ASSUME Active' # {}, NEW c \in Chats, InFederation(c)', standing'[c] = "member",
                      c \notin missed'
               PROVE  Owed(c)'
    BY DEF NoGap
  <2>1. Active # {} /\ InFederation(c) /\ standing[c] = "member" /\ c \notin missed
    BY DEF InFederation
  <2>2. Owed(c)
    BY <2>1 DEF IInv, NoGap
  <2> QED
    BY <2>2 DEF Owed, BanOwes
<1>5. LiftKnows'
  BY <1>1 DEF IInv, LiftKnows
<1>6. Accounted'
  <2> SUFFICES ASSUME Active' = {}, NEW c \in BannedChats', c \notin stuck'
               PROVE  \E k \in Lifts : c \in lift'[k].todo
    BY DEF Accounted
  <2>1. CASE c \in rec.todo
    BY <1>1, <2>1
  <2>2. CASE c \notin rec.todo
    <3>1. Active = {} /\ c \in BannedChats /\ c \notin stuck /\ c \notin lift[l].todo
      BY <2>2
    <3>2. PICK k \in Lifts : c \in lift[k].todo
      BY <3>1 DEF IInv, Accounted
    <3> QED
      BY <1>1, <3>1, <3>2
  <2> QED
    BY <2>1, <2>2
<1> QED
  BY <1>2, <1>3, <1>4, <1>5, <1>6 DEF IInv

LEMMA LiftStepKeepsIInv ==
  ASSUME IInv, NEW l \in Lifts, LiftStep(l)
  PROVE  IInv'
<1>a. /\ lift \in [Lifts -> LiftRuns] /\ lift[l] \in LiftRuns
      /\ records \in Seq(Docs) /\ RunTypes
      /\ standing \in [Chats -> {"member", "left", "banned"}]
      /\ stuck \in SUBSET BannedChats /\ listed \in SUBSET Groups
  BY DEF IInv, Typed, RecordTypes, RunTypes
<1>b. /\ lift[l].pc = "listed" => listed \subseteq lift[l].groups \cup lift[l].late
      /\ lift[l].pc # "fanout" => lift[l].todo = {}
  BY DEF IInv, LiftKnows
<1>1. CASE LiftReads(l)
  <2> DEFINE rec == [lift[l] EXCEPT !.pc = "holding"]
  <2>1. /\ lift' = [lift EXCEPT ![l] = rec] /\ lift[l].pc = "unsent"
        /\ UNCHANGED <<records, listed, standing, ban, join, verify, connect, missed, stuck>>
    BY <1>1, <1>a DEF LiftReads
  <2>2. rec \in LiftRuns /\ rec.pc = "holding" /\ rec.todo = lift[l].todo
    BY <1>a DEF LiftRuns
  <2>3. Active' = Active /\ BannedChats' = BannedChats
    BY <2>1 DEF Active, BannedChats
  <2> HIDE DEF rec
  <2> QED
    BY <1>a, <1>b, <2>1, <2>2, <2>3, LiftKeepsIInv
<1>2. CASE LiftReadsGroups(l)
  <2> DEFINE rec == [lift[l] EXCEPT !.pc = "listed", !.groups = listed]
  <2>1. /\ lift' = [lift EXCEPT ![l] = rec] /\ lift[l].pc = "holding"
        /\ UNCHANGED <<records, listed, standing, ban, join, verify, connect, missed, stuck>>
    BY <1>2, <1>a DEF LiftReadsGroups
  <2>2. rec \in LiftRuns /\ rec.pc = "listed" /\ rec.todo = lift[l].todo /\ rec.groups = listed
    BY <1>a DEF LiftRuns
  <2>3. Active' = Active /\ BannedChats' = BannedChats
    BY <2>1 DEF Active, BannedChats
  <2> HIDE DEF rec
  <2> QED
    BY <1>a, <1>b, <2>1, <2>2, <2>3, LiftKeepsIInv
<1>3. CASE LiftDeactivates(l)
  <2> DEFINE rec == [UnsentLift EXCEPT !.pc = "fanout", !.todo = Primary \cup lift[l].groups]
  <2>1. /\ lift' = [lift EXCEPT ![l] = rec] /\ lift[l].pc = "listed"
        /\ Deactivate(Active)
        /\ stuck' = stuck \cup (BannedChats \cap (lift[l].late \cup (Groups \ listed)))
        /\ UNCHANGED <<listed, standing, ban, join, verify, connect, missed>>
    BY <1>3 DEF LiftDeactivates
  <2>2. rec \in LiftRuns /\ rec.pc = "fanout" /\ rec.todo = Primary \cup lift[l].groups
    BY <1>a, Bounds DEF LiftRuns, UnsentLift
  <2>3. /\ records' \in Seq(Docs) /\ Len(records') = Len(records)
        /\ Active' = Active \ Active /\ (records' = <<>> => records = <<>>)
    BY <1>a, <2>1, Deactivated
  <2>4. BannedChats' = BannedChats
    BY <2>1 DEF BannedChats
  <2>5. BannedChats \subseteq stuck' \cup rec.todo
    BY <1>b, <2>1, <2>2 DEF BannedChats, Chats
  <2> HIDE DEF rec
  <2> QED
    BY <1>a, <2>1, <2>2, <2>3, <2>4, <2>5, LiftKeepsIInv
<1>4. CASE LiftDeactivationFails(l)
  <2>1. /\ lift' = [lift EXCEPT ![l] = EndedLift] /\ lift[l].pc = "listed"
        /\ UNCHANGED <<listed, standing, ban, join, verify, connect, missed>>
    BY <1>4 DEF LiftDeactivationFails
  <2>2. BannedChats' = BannedChats /\ lift[l].todo = {}
    BY <1>b, <2>1 DEF BannedChats
  <2>3. CASE UNCHANGED <<records, stuck>>
    <3>1. Active' = Active
      BY <2>3 DEF Active
    <3> QED
      BY <1>a, <2>1, <2>2, <2>3, <3>1, EndedTyped, LiftKeepsIInv
  <2>4. CASE Deactivate(Active) /\ stuck' = stuck \cup BannedChats
    <3>1. /\ records' \in Seq(Docs) /\ Len(records') = Len(records)
          /\ Active' = Active \ Active /\ (records' = <<>> => records = <<>>)
      BY <1>a, <2>4, Deactivated
    <3> QED
      BY <1>a, <2>1, <2>2, <2>4, <3>1, EndedTyped, LiftKeepsIInv
  <2> QED
    BY <1>4, <2>3, <2>4 DEF LiftDeactivationFails
<1>5. CASE LiftUnbans(l)
  <2> PICK c \in lift[l].todo :
        /\ TelegramUnban(c)
        /\ LET rest == lift[l].todo \ {c} IN
           lift' = [lift EXCEPT ![l] = IF rest = {} THEN EndedLift ELSE [lift[l] EXCEPT !.todo = rest]]
        /\ UNCHANGED <<records, listed, ban, join, verify, connect>>
    BY <1>5 DEF LiftUnbans
  <2> DEFINE rest == lift[l].todo \ {c}
             rec == IF rest = {} THEN EndedLift ELSE [lift[l] EXCEPT !.todo = rest]
  <2>1. /\ lift' = [lift EXCEPT ![l] = rec] /\ lift[l].pc = "fanout"
        /\ UNCHANGED <<records, listed, ban, join, verify, connect>>
    BY <1>b
  <2>2. c \in Chats
    BY <1>a DEF LiftRuns
  <2>3. rec \in LiftRuns /\ rec.pc \in {"fanout", "ended"} /\ rec.todo = rest
        /\ (rec.pc # "fanout" => rec.todo = {})
    BY <1>a, <2>1, EndedTyped DEF LiftRuns
  <2>4. /\ standing' \in [Chats -> {"member", "left", "banned"}]
        /\ missed' = missed /\ stuck' \in SUBSET BannedChats'
        /\ BannedChats' \subseteq BannedChats
        /\ \A d \in Chats : standing'[d] = "member" => standing[d] = "member"
        /\ BannedChats' \subseteq stuck' \cup (BannedChats \ {c})
        /\ stuck \ {c} \subseteq stuck'
    BY <1>a, <2>2, TelegramUnbanTyped
  <2>5. Active' = Active
    BY <2>1 DEF Active
  <2>6. /\ stuck \cap BannedChats' \subseteq stuck'
        /\ lift[l].todo \cap BannedChats' \subseteq rec.todo \cup stuck'
    BY <2>3, <2>4
  <2> HIDE DEF rec, rest
  <2> QED
    BY <1>a, <2>1, <2>3, <2>4, <2>5, <2>6, LiftKeepsIInv
<1>6. CASE LiftDies(l)
  <2>1. /\ lift' = [lift EXCEPT ![l] = EndedLift]
        /\ stuck' = stuck \cup (lift[l].todo \cap BannedChats)
        /\ UNCHANGED <<records, listed, standing, ban, join, verify, connect, missed>>
    BY <1>6 DEF LiftDies
  <2>2. Active' = Active /\ BannedChats' = BannedChats
    BY <2>1 DEF Active, BannedChats
  <2> QED
    BY <1>a, <2>1, <2>2, EndedTyped, LiftKeepsIInv
<1> QED
  BY <1>1, <1>2, <1>3, <1>4, <1>5, <1>6 DEF LiftStep

-----------------------------------------------------------------------------
(* Joins, verify_user and complete_join: the records stay as they are. *)

\* A chat to which something else than a ban in progress owes the ban.
OwedElse(c) == join[c] # "none" \/ (c \in Groups /\ connect[c].answer \in {"unread", "banned"})

LEMMA OthersKeepIInv ==
  ASSUME IInv, UNCHANGED <<records, ban>>,
         listed' \in SUBSET Groups, missed' \in SUBSET Chats, stuck' \in SUBSET BannedChats',
         standing' \in [Chats -> {"member", "left", "banned"}],
         lift' \in [Lifts -> LiftRuns],
         join' \in [Chats -> {"none", "joined", "enforcing"}],
         verify' \in [answer : Answers, ready : BOOLEAN, todo : SUBSET Groups],
         connect' \in [Groups -> [answer : Answers \cup {"idle"}, added : BOOLEAN]],
         \* Evidence
         records = <<>> =>
            /\ BannedChats' = {} /\ verify'.answer # "banned"
            /\ \A c \in Chats : join'[c] # "enforcing"
            /\ \A g \in Groups : connect'[g].answer # "banned",
         \* NoGap
         \A c \in Chats :
            Active # {} /\ InFederation(c)' /\ standing'[c] = "member" /\ c \notin missed' =>
               \/ OwedElse(c)'
               \/ InFederation(c) /\ standing[c] = "member" /\ c \notin missed /\ ~OwedElse(c),
         \* LiftKnows and Accounted
         LiftKnows', \A l \in Lifts : lift'[l].todo = lift[l].todo,
         Active = {} => BannedChats' \subseteq BannedChats \cup stuck'
                        /\ stuck \cap BannedChats' \subseteq stuck'
  PROVE  IInv'
<1>1. Active' = Active
  BY DEF Active
<1>2. Typed'
  <2>1. Typed /\ records' \in Seq(Docs) /\ Len(records') = Len(records)
    BY DEF IInv, Typed, RecordTypes
  <2>2. /\ RecordTypes'
        /\ ban' \in [Bans -> BanRuns]
        /\ \A b \in Bans : /\ ban'[b].found <= Len(records')
                           /\ ban'[b].pc = "fanout" => ban'[b].ready
                           /\ ban'[b].pc # "fanout" => ban'[b].todo = {}
    BY <2>1, BanUntouched
  <2> QED
    BY <2>2 DEF Typed, RunTypes
<1>3. Evidence'
  BY DEF IInv, Evidence
<1>4. NoGap'
  <2> SUFFICES ASSUME Active # {}, NEW c \in Chats, InFederation(c)', standing'[c] = "member",
                      c \notin missed', ~OwedElse(c)'
               PROVE  Owed(c)'
    BY <1>1 DEF NoGap, Owed, OwedElse
  <2>1. InFederation(c) /\ standing[c] = "member" /\ c \notin missed /\ ~OwedElse(c)
    OBVIOUS
  <2>2. PICK b \in Bans : c \in BanOwes(b)
    BY <2>1 DEF IInv, NoGap, Owed, OwedElse
  <2>3. BanOwes(b)' = BanOwes(b)
    BY DEF BanOwes
  <2> QED
    BY <2>2, <2>3 DEF Owed
<1>5. Accounted'
  BY <1>1 DEF IInv, Accounted
<1> QED
  BY <1>2, <1>3, <1>4, <1>5 DEF IInv

LEMMA SameLifts == LiftKnows /\ UNCHANGED <<listed, lift>> => LiftKnows'
  BY DEF LiftKnows

LEMMA JoinStepKeepsIInv ==
  ASSUME IInv, NEW c \in Chats, JoinStep(c)
  PROVE  IInv'
<1>a. RunTypes /\ records \in Seq(Docs)
  BY DEF IInv, Typed, RecordTypes
<1>b. LiftKnows /\ Evidence
  BY DEF IInv
<1>1. CASE UserJoins(c)
  <2>1. /\ standing[c] = "left" /\ join[c] = "none"
        /\ standing' = [standing EXCEPT ![c] = "member"]
        /\ join' = [join EXCEPT ![c] = "joined"]
        /\ UNCHANGED <<records, listed, ban, lift, verify, connect, missed, stuck>>
    BY <1>1 DEF UserJoins
  <2>2. BannedChats' = BannedChats
    BY <1>a, <2>1 DEF RunTypes, BannedChats
  <2>3. LiftKnows'
    BY <1>b, <2>1, SameLifts
  <2>4. \A d \in Chats :
          /\ standing'[d] = "member" => standing[d] = "member" \/ join'[d] = "joined"
          /\ join'[d] = "enforcing" => join[d] = "enforcing"
          /\ OwedElse(d) => OwedElse(d)'
    BY <1>a, <2>1 DEF RunTypes, OwedElse
  <2>5. \A d \in Chats : join'[d] = "joined" => OwedElse(d)'
    BY DEF OwedElse
  <2>6. \A d \in Chats : InFederation(d)' = InFederation(d)
    BY <2>1 DEF InFederation
  <2> QED
    BY <1>a, <1>b, <2>1, <2>2, <2>3, <2>4, <2>5, <2>6, OthersKeepIInv DEF RunTypes, Evidence
<1>2. CASE UserLeaves(c)
  <2>1. /\ standing[c] = "member" /\ standing' = [standing EXCEPT ![c] = "left"]
        /\ UNCHANGED <<records, listed, ban, lift, join, verify, connect, missed, stuck>>
    BY <1>2 DEF UserLeaves
  <2>2. BannedChats' = BannedChats
    BY <1>a, <2>1 DEF RunTypes, BannedChats
  <2>3. LiftKnows'
    BY <1>b, <2>1, SameLifts
  <2>4. \A d \in Chats : /\ standing'[d] = "member" => standing[d] = "member"
                         /\ OwedElse(d)' = OwedElse(d)
                         /\ InFederation(d)' = InFederation(d)
    BY <1>a, <2>1 DEF RunTypes, OwedElse, InFederation
  <2> QED
    BY <1>a, <1>b, <2>1, <2>2, <2>3, <2>4, OthersKeepIInv DEF RunTypes, Evidence
<1>3. CASE JoinReads(c)
  <2>1. /\ join[c] = "joined"
        /\ join' = [join EXCEPT ![c] =
                      IF InFederation(c) /\ ActiveBan # 0 THEN "enforcing" ELSE "none"]
        /\ UNCHANGED <<records, listed, standing, ban, lift, verify, connect, missed, stuck>>
    BY <1>3 DEF JoinReads
  <2>2. BannedChats' = BannedChats
    BY <2>1 DEF BannedChats
  <2>3. LiftKnows'
    BY <1>b, <2>1, SameLifts
  <2>4. /\ ActiveBan # 0 => records # <<>>
        /\ Active # {} => ActiveBan # 0
    BY <1>a, NoRecord, Newest
  <2>5. \A d \in Chats : /\ OwedElse(d) => OwedElse(d)' \/ ~InFederation(d) \/ Active = {}
                         /\ InFederation(d)' = InFederation(d)
    BY <1>a, <2>1, <2>4 DEF RunTypes, OwedElse, InFederation
  <2>6. records = <<>> => \A d \in Chats : join'[d] # "enforcing"
    BY <1>a, <1>b, <2>1, <2>4 DEF RunTypes, Evidence
  <2>7. join' \in [Chats -> {"none", "joined", "enforcing"}]
    BY <1>a, <2>1 DEF RunTypes
  <2> QED
    BY <1>a, <1>b, <2>1, <2>2, <2>3, <2>5, <2>6, <2>7, OthersKeepIInv DEF RunTypes, Evidence
<1>4. CASE JoinEnforces(c)
  <2>1. /\ join[c] = "enforcing" /\ TelegramBan(c)
        /\ join' = [join EXCEPT ![c] = "none"]
        /\ UNCHANGED <<records, listed, ban, lift, verify, connect>>
    BY <1>4 DEF JoinEnforces
  <2>2. /\ standing' \in [Chats -> {"member", "left", "banned"}]
        /\ missed' \in SUBSET Chats /\ stuck' \in SUBSET BannedChats'
        /\ \A d \in Chats \ {c} : standing'[d] = standing[d]
        /\ standing'[c] = "banned" \/ c \in missed'
        /\ Active = {} => BannedChats' \subseteq BannedChats \cup stuck'
        /\ missed \subseteq missed' \cup {c}
        /\ Active = {} => stuck \subseteq stuck'
    BY <1>a, <2>1, TelegramBanTyped
  <2>3. LiftKnows'
    BY <1>b, <2>1, SameLifts
  <2>4. records # <<>>
    BY <1>b, <2>1 DEF Evidence
  <2>5. \A d \in Chats : /\ d # c => OwedElse(d)' = OwedElse(d)
                         /\ InFederation(d)' = InFederation(d)
    BY <1>a, <2>1 DEF RunTypes, OwedElse, InFederation
  <2>6. join' \in [Chats -> {"none", "joined", "enforcing"}]
    BY <1>a, <2>1 DEF RunTypes
  <2>7. \A d \in Chats :
            Active # {} /\ InFederation(d)' /\ standing'[d] = "member" /\ d \notin missed' =>
               \/ OwedElse(d)'
               \/ InFederation(d) /\ standing[d] = "member" /\ d \notin missed /\ ~OwedElse(d)
    BY <2>2, <2>5
  <2> QED
    BY <1>a, <2>1, <2>2, <2>3, <2>4, <2>6, <2>7, OthersKeepIInv DEF RunTypes
<1>5. CASE JoinDies(c)
  <2>1. /\ join' = [join EXCEPT ![c] = "none"] /\ missed' = missed \cup {c}
        /\ UNCHANGED <<records, listed, standing, ban, lift, verify, connect, stuck>>
    BY <1>5 DEF JoinDies
  <2>2. BannedChats' = BannedChats
    BY <2>1 DEF BannedChats
  <2>3. LiftKnows'
    BY <1>b, <2>1, SameLifts
  <2>4. \A d \in Chats : /\ d # c => OwedElse(d)' = OwedElse(d)
                         /\ InFederation(d)' = InFederation(d)
                         /\ join'[d] = "enforcing" => join[d] = "enforcing"
    BY <1>a, <2>1 DEF RunTypes, OwedElse, InFederation
  <2>5. join' \in [Chats -> {"none", "joined", "enforcing"}] /\ missed' \in SUBSET Chats
    BY <1>a, <2>1 DEF RunTypes
  <2> QED
    BY <1>a, <1>b, <2>1, <2>2, <2>3, <2>4, <2>5, OthersKeepIInv DEF RunTypes, Evidence
<1> QED
  BY <1>1, <1>2, <1>3, <1>4, <1>5 DEF JoinStep

LEMMA VerifyStepKeepsIInv ==
  ASSUME IInv, VerifyStep
  PROVE  IInv'
<1>a. RunTypes /\ records \in Seq(Docs)
  BY DEF IInv, Typed, RecordTypes
<1>b. LiftKnows /\ Evidence
  BY DEF IInv
<1>c. /\ IsBanned \in Answers
      /\ IsBanned = "banned" => records # <<>>
  BY <1>a, NoRecord
<1>1. ASSUME UNCHANGED <<records, listed, standing, ban, lift, join, connect, missed, stuck>>,
             verify' \in [answer : Answers, ready : BOOLEAN, todo : SUBSET Groups],
             records = <<>> => verify'.answer # "banned"
      PROVE  IInv'
  <2>1. BannedChats' = BannedChats /\ LiftKnows'
    BY <1>b, <1>1, SameLifts DEF BannedChats
  <2>2. \A d \in Chats : OwedElse(d)' = OwedElse(d) /\ InFederation(d)' = InFederation(d)
    BY <1>1 DEF OwedElse, InFederation
  <2> QED
    BY <1>a, <1>b, <1>1, <2>1, <2>2, OthersKeepIInv DEF RunTypes, Evidence
<1>2. CASE VerifyReads
  <2>1. UNCHANGED <<records, listed, standing, ban, lift, join, connect, missed, stuck>>
    BY <1>2 DEF VerifyReads
  <2>2. /\ verify' \in [answer : Answers, ready : BOOLEAN, todo : SUBSET Groups]
        /\ verify'.answer \in {verify.answer, IsBanned}
    BY <1>a, <1>c, <1>2 DEF VerifyReads, RunTypes
  <2> QED
    BY <1>b, <1>c, <1>1, <2>1, <2>2 DEF Evidence
<1>3. CASE VerifyEnds
  <2>1. /\ verify' = NoVerify
        /\ UNCHANGED <<records, listed, standing, ban, lift, join, connect, missed, stuck>>
    BY <1>3 DEF VerifyEnds
  <2> QED
    BY <1>1, <2>1 DEF NoVerify, Answers
<1>4. CASE VerifyPair
  <2> PICK g \in verify.todo :
        /\ verify' = [verify EXCEPT !.todo = @ \ {g}]
        /\ \/ verify.answer = "banned" /\ standing[g] = "member" /\ TelegramBan(g)
           \/ verify.answer = "clean" /\ standing[g] = "banned" /\ TelegramUnban(g)
           \/ UNCHANGED <<standing, missed, stuck>>
    BY <1>4 DEF VerifyPair
  <2>1. UNCHANGED <<records, listed, ban, lift, join, connect>>
    BY <1>4 DEF VerifyPair
  <2>2. /\ verify' \in [answer : Answers, ready : BOOLEAN, todo : SUBSET Groups]
        /\ verify'.answer = verify.answer /\ g \in Chats
    BY <1>a, Bounds DEF RunTypes
  <2>3. LiftKnows'
    BY <1>b, <2>1, SameLifts
  <2>4. \A d \in Chats : OwedElse(d)' = OwedElse(d) /\ InFederation(d)' = InFederation(d)
    BY <2>1 DEF OwedElse, InFederation
  <2>5. CASE verify.answer = "banned" /\ TelegramBan(g)
    <3>1. /\ standing' \in [Chats -> {"member", "left", "banned"}]
          /\ missed' \in SUBSET Chats /\ stuck' \in SUBSET BannedChats'
          /\ \A d \in Chats \ {g} : standing'[d] = standing[d]
          /\ standing'[g] = "banned" \/ g \in missed'
          /\ Active = {} => BannedChats' \subseteq BannedChats \cup stuck'
          /\ missed \subseteq missed' \cup {g}
          /\ Active = {} => stuck \subseteq stuck'
      BY <1>a, <2>2, <2>5, TelegramBanTyped
    <3>2. records # <<>>
      BY <1>b, <2>5 DEF Evidence
    <3>3. \A d \in Chats :
              Active # {} /\ InFederation(d)' /\ standing'[d] = "member" /\ d \notin missed' =>
                 \/ OwedElse(d)'
                 \/ InFederation(d) /\ standing[d] = "member" /\ d \notin missed /\ ~OwedElse(d)
      BY <2>4, <3>1
    <3> QED
      BY <1>a, <2>1, <2>2, <2>3, <3>1, <3>2, <3>3, OthersKeepIInv DEF RunTypes
  <2>6. CASE TelegramUnban(g)
    <3>1. /\ standing' \in [Chats -> {"member", "left", "banned"}]
          /\ missed' = missed /\ stuck' \in SUBSET BannedChats'
          /\ BannedChats' \subseteq BannedChats
          /\ \A d \in Chats : standing'[d] = "member" => standing[d] = "member"
          /\ BannedChats' \subseteq stuck' \cup (BannedChats \ {g})
          /\ stuck \ {g} \subseteq stuck'
      BY <1>a, <2>2, <2>6, TelegramUnbanTyped
    <3>2. stuck \cap BannedChats' \subseteq stuck'
      BY <3>1
    <3> QED
      BY <1>a, <1>b, <2>1, <2>2, <2>3, <2>4, <3>1, <3>2, OthersKeepIInv DEF RunTypes, Evidence
  <2>7. CASE UNCHANGED <<standing, missed, stuck>>
    BY <1>b, <1>1, <2>1, <2>2, <2>7 DEF Evidence
  <2> QED
    BY <2>5, <2>6, <2>7
<1> QED
  BY <1>2, <1>3, <1>4 DEF VerifyStep

LEMMA ConnectMoves ==
  ASSUME IInv, NEW g \in Groups, NEW rec, connect' = [connect EXCEPT ![g] = rec],
         rec \in [answer : Answers \cup {"idle"}, added : BOOLEAN],
         UNCHANGED <<records, standing, ban, join, verify, stuck>>,
         listed' \in SUBSET Groups, \A c \in Chats : InFederation(c)' => InFederation(c) \/ c = g,
         missed' \in SUBSET Chats, missed \subseteq missed',
         lift' \in [Lifts -> LiftRuns], \A l \in Lifts : lift'[l].todo = lift[l].todo, LiftKnows',
         records = <<>> => rec.answer # "banned",
         Active # {} /\ InFederation(g)' /\ g \notin missed' =>
            \/ rec.answer \in {"unread", "banned"}
            \/ InFederation(g) /\ connect[g].answer \notin {"unread", "banned"}
  PROVE  IInv'
<1>1. RunTypes /\ Evidence
  BY DEF IInv, Typed
<1>2. /\ connect' \in [Groups -> [answer : Answers \cup {"idle"}, added : BOOLEAN]]
      /\ \A h \in Groups : connect'[h] = IF h = g THEN rec ELSE connect[h]
      /\ BannedChats' = BannedChats
  BY <1>1 DEF RunTypes, BannedChats
<1>3. \A c \in Chats :
         Active # {} /\ InFederation(c)' /\ standing'[c] = "member" /\ c \notin missed' =>
            \/ OwedElse(c)'
            \/ InFederation(c) /\ standing[c] = "member" /\ c \notin missed /\ ~OwedElse(c)
  <2> SUFFICES ASSUME NEW c \in Chats, Active # {}, InFederation(c)', standing[c] = "member",
                      c \notin missed', ~OwedElse(c)'
               PROVE  InFederation(c) /\ c \notin missed /\ ~OwedElse(c)
    OBVIOUS
  <2>1. CASE c = g
    BY <1>2, <2>1 DEF OwedElse
  <2>2. CASE c # g
    BY <1>2, <2>2 DEF OwedElse
  <2> QED
    BY <2>1, <2>2
<1> QED
  BY <1>1, <1>2, <1>3, OthersKeepIInv DEF RunTypes, Evidence

LEMMA ConnectStepKeepsIInv ==
  ASSUME IInv, NEW g \in Groups, ConnectStep(g)
  PROVE  IInv'
<1>a. RunTypes /\ records \in Seq(Docs)
  BY DEF IInv, Typed, RecordTypes
<1>b. LiftKnows /\ Evidence /\ g \in Chats
  BY Bounds DEF IInv
<1>c. /\ IsBanned \in Answers
      /\ IsBanned = "banned" => records # <<>>
      /\ Active # {} => IsBanned = "banned"
  BY <1>a, NoRecord DEF IsBanned
<1>d. /\ connect[g] \in [answer : Answers \cup {"idle"}, added : BOOLEAN]
      /\ connect \in [Groups -> [answer : Answers \cup {"idle"}, added : BOOLEAN]]
      /\ missed \in SUBSET Chats /\ listed \in SUBSET Groups /\ lift \in [Lifts -> LiftRuns]
  BY <1>a DEF RunTypes
<1>1. CASE ConnectStarts(g)
  <2> DEFINE rec == [connect[g] EXCEPT !.answer = "unread"]
  <2>1. /\ connect' = [connect EXCEPT ![g] = rec]
        /\ UNCHANGED <<records, listed, standing, ban, lift, join, verify, missed, stuck>>
    BY <1>1, <1>d DEF ConnectStarts
  <2>2. rec \in [answer : Answers \cup {"idle"}, added : BOOLEAN] /\ rec.answer = "unread"
    BY <1>d DEF Answers
  <2>3. LiftKnows' /\ \A c \in Chats : InFederation(c)' = InFederation(c)
    BY <1>b, <2>1, SameLifts DEF InFederation
  <2> HIDE DEF rec
  <2> QED
    BY <1>d, <2>1, <2>2, <2>3, ConnectMoves
<1>2. CASE ConnectReads(g)
  <2>1. /\ connect[g].answer = "unread"
        /\ UNCHANGED <<records, listed, standing, ban, lift, join, verify, stuck>>
    BY <1>2 DEF ConnectReads
  <2>2. LiftKnows' /\ \A c \in Chats : InFederation(c)' = InFederation(c)
    BY <1>b, <2>1, SameLifts DEF InFederation
  <2>3. CASE connect' = [connect EXCEPT ![g].answer = IsBanned] /\ UNCHANGED missed
    <3> DEFINE rec == [connect[g] EXCEPT !.answer = IsBanned]
    <3>1. connect' = [connect EXCEPT ![g] = rec]
      BY <1>d, <2>3
    <3>2. rec \in [answer : Answers \cup {"idle"}, added : BOOLEAN] /\ rec.answer = IsBanned
      BY <1>c, <1>d
    <3>3. (records = <<>> => rec.answer # "banned") /\ (Active # {} => rec.answer = "banned")
      BY <1>c, <3>2
    <3>4. missed' \in SUBSET Chats /\ missed \subseteq missed'
      BY <1>d, <2>3
    <3> HIDE DEF rec
    <3> QED
      BY <1>d, <2>1, <2>2, <3>1, <3>2, <3>3, <3>4, ConnectMoves
  <2>4. CASE connect' = [connect EXCEPT ![g].answer = "clean"] /\ missed' = missed \cup {g}
    <3> DEFINE rec == [connect[g] EXCEPT !.answer = "clean"]
    <3>1. connect' = [connect EXCEPT ![g] = rec]
      BY <1>d, <2>4
    <3>2. rec \in [answer : Answers \cup {"idle"}, added : BOOLEAN] /\ rec.answer = "clean"
      BY <1>d DEF Answers
    <3>3. missed' \in SUBSET Chats /\ missed \subseteq missed' /\ g \in missed'
      BY <1>b, <1>d, <2>4
    <3> HIDE DEF rec
    <3> QED
      BY <1>d, <2>1, <2>2, <3>1, <3>2, <3>3, ConnectMoves
  <2> QED
    BY <1>2, <2>3, <2>4 DEF ConnectReads
<1>3. CASE ConnectAdds(g)
  <2> DEFINE rec == [connect[g] EXCEPT !.added = TRUE]
  <2>1. /\ connect[g].answer # "idle"
        /\ connect' = [connect EXCEPT ![g] = rec]
        /\ listed' = listed \cup {g}
        /\ missed' = missed \cup
             IF connect[g].answer = "clean" /\ Active # {} THEN {g} ELSE {}
        /\ lift' = [l \in Lifts |->
             IF lift[l].pc = "listed" THEN [lift[l] EXCEPT !.late = @ \cup {g}] ELSE lift[l]]
        /\ UNCHANGED <<records, standing, ban, join, verify, stuck>>
    BY <1>3, <1>d DEF ConnectAdds
  <2>2. rec \in [answer : Answers \cup {"idle"}, added : BOOLEAN] /\ rec.answer = connect[g].answer
    BY <1>d
  <2>3. \A c \in Chats : InFederation(c)' => InFederation(c) \/ c = g
    BY <2>1 DEF InFederation
  <2>4. \A l \in Lifts :
          /\ lift'[l] \in LiftRuns /\ lift'[l].todo = lift[l].todo /\ lift'[l].pc = lift[l].pc
          /\ lift'[l].groups = lift[l].groups
          /\ lift[l].pc = "listed" => lift'[l].late = lift[l].late \cup {g}
    <3> SUFFICES ASSUME NEW l \in Lifts
                 PROVE  /\ lift'[l] \in LiftRuns /\ lift'[l].todo = lift[l].todo
                        /\ lift'[l].pc = lift[l].pc /\ lift'[l].groups = lift[l].groups
                        /\ lift[l].pc = "listed" => lift'[l].late = lift[l].late \cup {g}
      OBVIOUS
    <3>1. lift[l] \in LiftRuns
      BY <1>d
    <3>2. lift'[l] = IF lift[l].pc = "listed" THEN [lift[l] EXCEPT !.late = @ \cup {g}] ELSE lift[l]
      BY <2>1
    <3> QED
      BY <3>1, <3>2 DEF LiftRuns
  <2>5. LiftKnows'
    BY <1>b, <2>1, <2>4 DEF LiftKnows
  <2>6. lift' \in [Lifts -> LiftRuns]
    BY <2>1, <2>4
  <2>7. records = <<>> => rec.answer # "banned"
    BY <1>b, <2>2 DEF Evidence
  <2>8. Active # {} /\ g \notin missed' => rec.answer \in {"unread", "banned"}
    BY <1>d, <2>1, <2>2 DEF Answers
  <2>9. missed' \in SUBSET Chats /\ missed \subseteq missed' /\ listed' \in SUBSET Groups
    BY <1>b, <1>d, <2>1
  <2> HIDE DEF rec
  <2> QED
    BY <2>1, <2>2, <2>3, <2>4, <2>5, <2>6, <2>7, <2>8, <2>9, ConnectMoves
<1>4. CASE ConnectReplays(g)
  <2>1. /\ connect' = [connect EXCEPT ![g] = NoConnect]
        /\ UNCHANGED <<records, listed, ban, lift, join, verify>>
    BY <1>4 DEF ConnectReplays
  <2>2. LiftKnows' /\ \A c \in Chats : InFederation(c)' = InFederation(c)
    BY <1>b, <2>1, SameLifts DEF InFederation
  <2>3. NoConnect \in [answer : Answers \cup {"idle"}, added : BOOLEAN] /\ NoConnect.answer = "idle"
    BY DEF NoConnect, Answers
  <2>4. CASE connect[g].answer = "clean" /\ UNCHANGED <<standing, missed, stuck>>
    <3>1. InFederation(g)' => InFederation(g)
      BY <1>b, <2>2
    <3> QED
      BY <1>d, <2>1, <2>2, <2>3, <2>4, <3>1, ConnectMoves
  <2>5. CASE connect[g].answer = "banned" /\ TelegramBan(g)
    <3>1. /\ standing' \in [Chats -> {"member", "left", "banned"}]
          /\ missed' \in SUBSET Chats /\ stuck' \in SUBSET BannedChats'
          /\ \A d \in Chats \ {g} : standing'[d] = standing[d]
          /\ standing'[g] = "banned" \/ g \in missed'
          /\ Active = {} => BannedChats' \subseteq BannedChats \cup stuck'
          /\ missed \subseteq missed' \cup {g}
          /\ Active = {} => stuck \subseteq stuck'
      BY <1>a, <1>b, <2>5, TelegramBanTyped
    <3>2. records # <<>>
      BY <1>b, <2>5 DEF Evidence
    <3>3. connect' \in [Groups -> [answer : Answers \cup {"idle"}, added : BOOLEAN]]
      BY <1>d, <2>1, <2>3
    <3>4. \A d \in Chats : d # g => OwedElse(d)' = OwedElse(d)
      BY <1>d, <2>1 DEF OwedElse
    <3>5. \A d \in Chats :
              Active # {} /\ InFederation(d)' /\ standing'[d] = "member" /\ d \notin missed' =>
                 \/ OwedElse(d)'
                 \/ InFederation(d) /\ standing[d] = "member" /\ d \notin missed /\ ~OwedElse(d)
      BY <2>2, <3>1, <3>4
    <3> QED
      BY <1>a, <2>1, <2>2, <3>1, <3>2, <3>3, <3>5, OthersKeepIInv DEF RunTypes
  <2> QED
    BY <1>4, <2>4, <2>5 DEF ConnectReplays
<1>5. CASE ConnectDies(g)
  <2>1. /\ connect' = [connect EXCEPT ![g] = NoConnect] /\ missed' = missed \cup {g}
        /\ UNCHANGED <<records, listed, standing, ban, lift, join, verify, stuck>>
    BY <1>5 DEF ConnectDies
  <2>2. LiftKnows' /\ \A c \in Chats : InFederation(c)' = InFederation(c)
    BY <1>b, <2>1, SameLifts DEF InFederation
  <2>3. NoConnect \in [answer : Answers \cup {"idle"}, added : BOOLEAN] /\ NoConnect.answer = "idle"
    BY DEF NoConnect, Answers
  <2>4. missed' \in SUBSET Chats /\ missed \subseteq missed' /\ g \in missed'
    BY <1>b, <1>d, <2>1
  <2> QED
    BY <1>d, <2>1, <2>2, <2>3, <2>4, ConnectMoves
<1>6. CASE Disconnect(g)
  <2>1. /\ listed' = listed \ {g}
        /\ UNCHANGED <<records, standing, ban, lift, join, verify, connect, missed, stuck>>
    BY <1>6 DEF Disconnect
  <2>2. /\ LiftKnows' /\ BannedChats' = BannedChats
        /\ \A c \in Chats : InFederation(c)' => InFederation(c)
        /\ \A c \in Chats : OwedElse(c)' = OwedElse(c)
    BY <1>b, <2>1 DEF LiftKnows, BannedChats, InFederation, OwedElse
  <2> QED
    BY <1>a, <1>b, <2>1, <2>2, OthersKeepIInv DEF RunTypes, Evidence
<1> QED
  BY <1>1, <1>2, <1>3, <1>4, <1>5, <1>6 DEF ConnectStep

-----------------------------------------------------------------------------
LEMMA InitIInv == Init => IInv
<1> SUFFICES ASSUME Init PROVE IInv
  OBVIOUS
<1>1. /\ records \in Seq(Docs) /\ Len(records) \in 0..Earlier
      /\ records = <<>> => standing \in [Chats -> {"member", "left"}]
      /\ records # <<>> => standing = [c \in Chats |-> "banned"] /\ Active # {}
      /\ records = <<>> => Active = {}
  <2>1. CASE records = <<>> /\ standing \in [Chats -> {"member", "left"}]
    BY <2>1, Bounds DEF Active
  <2>2. CASE /\ records = [i \in 1..Earlier |-> [active |-> TRUE]]
             /\ Earlier > 0 /\ standing = [c \in Chats |-> "banned"]
    <3>1. [active |-> TRUE] \in Docs
      BY DEF Docs
    <3>2. records \in Seq(Docs) /\ Len(records) = Earlier
      BY <2>2, <3>1, Bounds
    <3>3. 1 \in DOMAIN records /\ records[1].active
      BY <2>2, Bounds
    <3>4. 1 \in Active
      BY <3>3 DEF Active
    <3>5. records # <<>> /\ Len(records) \in 0..Earlier
      BY <2>2, <3>2, Bounds
    <3> QED
      BY <2>2, <3>2, <3>4, <3>5
  <2> QED
    BY <2>1, <2>2 DEF Init
<1>2. /\ ban = [b \in Bans |-> Unsent] /\ lift = [l \in Lifts |-> UnsentLift]
      /\ join = [c \in Chats |-> "none"] /\ verify = NoVerify
      /\ connect = [g \in Groups |-> NoConnect]
      /\ missed = {} /\ stuck = {} /\ listed \in SUBSET Groups
  BY DEF Init
<1>3. /\ Unsent \in BanRuns /\ Unsent.pc = "unsent" /\ Unsent.found = 0 /\ Unsent.todo = {}
      /\ UnsentLift \in LiftRuns /\ UnsentLift.pc = "unsent" /\ UnsentLift.todo = {}
      /\ NoVerify \in [answer : Answers, ready : BOOLEAN, todo : SUBSET Groups]
      /\ NoVerify.answer = "unread"
      /\ NoConnect \in [answer : Answers \cup {"idle"}, added : BOOLEAN] /\ NoConnect.answer = "idle"
  BY Bounds DEF Unsent, UnsentLift, NoVerify, NoConnect, BanRuns, LiftRuns, Answers
<1>4. RecordTypes
  BY <1>1, SpentBounds, Bounds DEF RecordTypes
<1>5. RunTypes
  <2>1. standing \in [Chats -> {"member", "left", "banned"}]
    BY <1>1
  <2>2. 0 <= Len(records)
    BY <1>1
  <2> QED
    BY <1>2, <1>3, <2>1, <2>2 DEF RunTypes
<1>6. Evidence
  BY <1>1, <1>2, <1>3 DEF Evidence, BannedChats
<1>7. NoGap
  BY <1>1 DEF NoGap
<1>8. LiftKnows
  BY <1>2, <1>3 DEF LiftKnows
<1>9. Accounted
  BY <1>1 DEF Accounted, BannedChats
<1> QED
  BY <1>4, <1>5, <1>6, <1>7, <1>8, <1>9 DEF IInv, Typed

LEMMA NextKeepsIInv == IInv /\ [Next]_vars => IInv'
<1> SUFFICES ASSUME IInv, [Next]_vars PROVE IInv'
  OBVIOUS
<1>1. ASSUME NEW b \in Bans, BanStep(b) PROVE IInv'
  BY <1>1, BanStepKeepsIInv
<1>2. ASSUME NEW l \in Lifts, LiftStep(l) PROVE IInv'
  BY <1>2, LiftStepKeepsIInv
<1>3. ASSUME NEW c \in Chats, JoinStep(c) PROVE IInv'
  BY <1>3, JoinStepKeepsIInv
<1>4. CASE VerifyStep
  BY <1>4, VerifyStepKeepsIInv
<1>5. ASSUME NEW g \in Groups, ConnectStep(g) PROVE IInv'
  BY <1>5, ConnectStepKeepsIInv
<1>6. CASE UNCHANGED vars
  <2>1. UNCHANGED <<records, listed, standing, ban, lift, join, verify, connect, missed, stuck>>
    BY <1>6 DEF vars
  <2>2. LiftKnows' /\ BannedChats' = BannedChats
    BY <2>1 DEF IInv, LiftKnows, BannedChats
  <2>3. \A c \in Chats : InFederation(c)' = InFederation(c) /\ OwedElse(c)' = OwedElse(c)
    BY <2>1 DEF InFederation, OwedElse
  <2>4. RunTypes /\ Evidence
    BY DEF IInv, Typed
  <2> QED
    BY <2>1, <2>2, <2>3, <2>4, OthersKeepIInv DEF RunTypes, Evidence
<1> QED
  BY <1>1, <1>2, <1>3, <1>4, <1>5, <1>6 DEF Next

LEMMA SpecKeepsIInv == Spec => []IInv
  BY InitIInv, NextKeepsIInv, PTL DEF Spec

-----------------------------------------------------------------------------
(* The ban's state is well formed, and the records do not grow beyond one  *)
(* for each run of _execute_ban (ban_flow.py:229-404).                     *)
THEOREM TypeCorrect == Spec => []TypeOK
<1>1. IInv => TypeOK
  BY TypesSuffice DEF IInv
<1> QED
  BY <1>1, SpecKeepsIInv, PTL

(* Whatever fails, lands unreported or dies between any two awaits: nobody *)
(* is banned anywhere before a record exists (ban_flow.py:229-404).        *)
THEOREM FailsClosed == Spec => []FailClosed
<1>1. IInv => FailClosed
  BY DEF IInv, Evidence, FailClosed
<1> QED
  BY <1>1, SpecKeepsIInv, PTL

(* For any groups and any number of bans, lifts, joins and connections at  *)
(* once: a banned user who stands in a federation chat is owed the ban by  *)
(* a handler in flight, or an attempt to enforce it there failed           *)
(* (ban_flow.py:229-404, greeting.py:61-140, connected_flow.py:231-330).   *)
THEOREM NobodySlipsThrough == Spec => []NoGap
<1>1. IInv => NoGap
  BY DEF IInv
<1> QED
  BY <1>1, SpecKeepsIInv, PTL

(* For any groups and any number of bans and lifts at once: a user with no *)
(* active record is banned in a federation chat only while a lift is still *)
(* to reach it, or after an attempt failed or came from before the lift    *)
(* (unban_flow.py:169-330).                                                *)
THEOREM NobodyLeftBehind == Spec => []NoOrphan
<1>1. IInv => NoOrphan
  BY DEF IInv, Accounted, NoOrphan, BannedChats
<1> QED
  BY <1>1, SpecKeepsIInv, PTL
-----------------------------------------------------------------------------
(* The appeal of one ban (Appeal.tla), whose approval is the unban above:  *)
(* the two modules share no variable, each is proved by itself.            *)

(* What the proofs use of the assumptions on the constants.                *)
AppealParams == NoCard \notin Cards /\ BanAdmin \in Reviewers

LEMMA ParamsHold == AppealParams
  BY AppealAssumption, ReviewersAssumption DEF AppealParams, NoCard, Cards,
         Messages

BanRecords == [active : BOOLEAN, slot : Cards \cup {NoCard},
               age : {"locked", "open", "stale"}, rejected : {"never", "cooling", "over"}]
EntryPlaces == {"unsent", "reading", "clearing", "cleaning", "prompting", "returned"}
MessagePlaces == {"unsent", "reading", "fetching", "clearing", "cleaning", "gated", "claiming",
                  "discarding", "undelivered", "ending", "returned"}
MessageRecords == [pc : MessagePlaces, early : BOOLEAN]
CardPlaces == {"none", "posted", "claimed", "loose"}
TapRecords ==
    [pc : {"none", "tapped", "approving", "rejecting", "closing", "batch", "returned"},
     by : Reviewers, verdict : Verdicts, card : Cards \cup {NoCard},
     seen : Cards \cup {NoCard}, todo : SUBSET {"clear", "edit"}, late : BOOLEAN]

AppealTypes ==
    /\ AppealParams
    /\ doc \in BanRecords /\ (doc.slot = NoCard => doc.age = "locked")
    /\ conv \in {"none", "waiting"}
    /\ keys \in BOOLEAN /\ leaving \in BOOLEAN /\ struck \in BOOLEAN
    /\ entry \in [Entries -> EntryPlaces]
    /\ message \in [Messages -> MessageRecords]
    /\ card \in [Cards -> CardPlaces]
    /\ tap \in [Taps -> TapRecords]

\* The review is still open, and no failed call may have cost its card.
Open == doc.active /\ doc.rejected = "never" /\ ~struck

\* The claim of a message is behind it.
PastClaim(c) == message[c].pc \in {"discarding", "ending", "returned"}

CardInv(c) ==
    /\ card[c] = "claimed" => doc.slot = c
    /\ card[c] = "posted" => message[c].pc \in {"claiming", "discarding"}

(* A message of the cooldown that passed the gates passed them after it,   *)
(* and a card that waits for its claim is untouched.                       *)
MessageInv(m) ==
    /\ ~message[m].early /\ message[m].pc \notin {"unsent", "returned"} => doc.rejected # "never"
    /\ ~message[m].early /\ message[m].pc \in {"clearing", "gated", "claiming"} => doc.rejected = "over"
    /\ message[m].pc = "claiming" /\ Open => card[m] = "posted"

(* A tap that edits cards comes after a verdict; one that decides has read *)
(* a review whose claim is over, so that review cannot come back.          *)
TapInv(t) ==
    /\ tap[t].pc = "closing" => ~doc.active
    /\ tap[t].pc = "batch" => doc.rejected # "never" \/ struck
    /\ tap[t].pc = "rejecting" => doc.rejected # "over"
    /\ tap[t].late => Decided /\ tap[t].pc \notin {"approving", "rejecting", "batch"}
    /\ tap[t].pc \in {"approving", "rejecting"} =>
         /\ tap[t].seen \in Cards /\ PastClaim(tap[t].seen)
         /\ tap[t].by # BanAdmin /\ tap[t].seen = doc.slot => doc.age # "locked"

AppealInv ==
    /\ doc.slot # NoCard => PastClaim(doc.slot)
    /\ PendingIsActionable
    /\ \A c \in Cards : CardInv(c)
    /\ \A m \in Messages : MessageInv(m)
    /\ \A t \in Taps : TapInv(t)

AppealIInv == AppealTypes /\ AppealInv

-----------------------------------------------------------------------------
(* Types. *)

LEMMA AppealTypesSuffice == AppealTypes => AppealTypeOK
  BY DEF AppealTypes, AppealTypeOK, BanRecords, EntryPlaces, MessagePlaces, MessageRecords,
         CardPlaces, TapRecords

LEMMA TypesInit == AppealParams /\ AppealInit => AppealTypes
<1> SUFFICES ASSUME AppealParams, AppealInit PROVE AppealTypes
  OBVIOUS
<1>1. NoTap \in TapRecords
  BY DEF AppealParams, NoTap, NoCard, Verdicts, TapRecords
<1>2. [pc |-> "unsent", early |-> FALSE] \in MessageRecords
  BY DEF MessageRecords, MessagePlaces
<1>3. doc \in BanRecords /\ doc.age = "locked"
  BY DEF AppealInit, BanRecords
<1> QED
  BY <1>1, <1>2, <1>3 DEF AppealTypes, AppealInit, EntryPlaces, CardPlaces

(* Where the parts of a record are after one of them moved. *)
LEMMA ReviewClearedTypes ==
  ASSUME AppealTypes, ReviewCleared
  PROVE  /\ doc' \in BanRecords /\ card' \in [Cards -> CardPlaces]
         /\ doc'.slot = NoCard /\ doc'.age = "locked"
         /\ doc'.active = doc.active /\ doc'.rejected = doc.rejected
         /\ \A c \in Cards :
               card'[c] = IF c = doc.slot /\ card[c] = "claimed" THEN "loose" ELSE card[c]
  BY DEF AppealTypes, ReviewCleared, BanRecords, CardPlaces

LEMMA SlotTakenTypes ==
  ASSUME AppealTypes, NEW m \in Messages, SlotTaken(m)
  PROVE  /\ doc' \in BanRecords /\ card' \in [Cards -> CardPlaces]
         /\ doc.slot = NoCard /\ doc'.slot = m /\ m # NoCard /\ doc'.age = "locked"
         /\ doc'.active = doc.active /\ doc'.rejected = doc.rejected
         /\ \A c \in Cards : card'[c] = IF c = m /\ card[c] = "posted" THEN "claimed" ELSE card[c]
  BY DEF AppealTypes, AppealParams, SlotTaken, CardAfterClaim, BanRecords, CardPlaces,
         Cards

LEMMA MessageMoves ==
  ASSUME AppealTypes, NEW m \in Messages, NEW pc \in MessagePlaces, MessageAt(m, pc)
  PROVE  /\ message' \in [Messages -> MessageRecords]
         /\ message'[m].pc = pc
         /\ pc # "returned" => message'[m].early = message[m].early
         /\ \A n \in Messages : n # m => message'[n] = message[n]
<1> DEFINE rec == IF pc = "returned" THEN MessageReturned ELSE [message[m] EXCEPT !.pc = pc]
<1>1. message' = [message EXCEPT ![m] = rec] /\ message[m] \in MessageRecords
  BY DEF AppealTypes, MessageAt
<1>2. rec \in MessageRecords /\ rec.pc = pc /\ (pc # "returned" => rec.early = message[m].early)
  BY <1>1 DEF MessageRecords, MessageReturned
<1> HIDE DEF rec
<1> QED
  BY <1>1, <1>2 DEF AppealTypes

LEMMA TapMoves ==
  ASSUME AppealTypes, NEW t \in Taps,
         NEW pc \in {"none", "tapped", "approving", "rejecting", "closing", "batch", "returned"},
         NEW todo \in SUBSET {"clear", "edit"},
         TapAt(t, pc, todo)
  PROVE  /\ tap' \in [Taps -> TapRecords]
         /\ tap'[t].pc = pc /\ tap'[t].todo = todo
         /\ tap'[t].late = tap[t].late /\ tap'[t].by = tap[t].by /\ tap'[t].seen = tap[t].seen
         /\ \A u \in Taps : u # t => tap'[u] = tap[u]
<1> DEFINE rec == [tap[t] EXCEPT !.pc = pc, !.todo = todo]
<1>1. tap' = [tap EXCEPT ![t] = rec] /\ tap[t] \in TapRecords
  <2>1. tap \in [Taps -> TapRecords]
    BY DEF AppealTypes
  <2> QED
    BY <2>1 DEF TapAt, TapRecords
<1>2. /\ rec \in TapRecords /\ rec.pc = pc /\ rec.todo = todo
      /\ rec.late = tap[t].late /\ rec.by = tap[t].by /\ rec.seen = tap[t].seen
  BY <1>1 DEF TapRecords
<1> HIDE DEF rec
<1> QED
  BY <1>1, <1>2 DEF AppealTypes

LEMMA TapLeaves ==
  ASSUME AppealTypes, NEW t \in Taps, TapReturns(t)
  PROVE  /\ tap' \in [Taps -> TapRecords]
         /\ tap'[t].pc = "returned" /\ tap'[t].late = FALSE
         /\ \A u \in Taps : u # t => tap'[u] = tap[u]
<1> DEFINE rec == [NoTap EXCEPT !.pc = "returned"]
<1>1. tap' = [tap EXCEPT ![t] = rec]
  BY DEF TapReturns
<1>2. rec \in TapRecords /\ rec.pc = "returned" /\ rec.late = FALSE
  BY DEF AppealTypes, AppealParams, TapRecords, NoTap, Verdicts, NoCard
<1> HIDE DEF rec
<1> QED
  BY <1>1, <1>2 DEF AppealTypes

LEMMA TapFinishTypes ==
  ASSUME AppealTypes, NEW t \in Taps, NEW step, Finishing(t), TapFinishes(t, step)
  PROVE  /\ tap' \in [Taps -> TapRecords]
         /\ tap'[t].pc \in {tap[t].pc, "returned"}
         /\ tap'[t].late \in {tap[t].late, FALSE}
         /\ \A u \in Taps : u # t => tap'[u] = tap[u]
<1>1. tap[t] \in TapRecords
  BY DEF AppealTypes
<1>2. CASE tap[t].todo = {step}
  <2>1. TapReturns(t)
    BY <1>2 DEF TapFinishes
  <2> QED
    BY <2>1, TapLeaves
<1>3. CASE tap[t].todo # {step}
  <2>1. TapAt(t, tap[t].pc, tap[t].todo \ {step})
    BY <1>3 DEF TapFinishes
  <2>2. /\ tap[t].pc \in {"none", "tapped", "approving", "rejecting", "closing", "batch", "returned"}
        /\ tap[t].todo \ {step} \in SUBSET {"clear", "edit"}
    BY <1>1 DEF TapRecords
  <2> QED
    BY <2>1, <2>2, TapMoves
<1> QED
  BY <1>2, <1>3

LEMMA CardEditedTypes ==
  ASSUME AppealTypes, NEW t \in Taps, CardEdited(t)
  PROVE  /\ card' \in [Cards -> CardPlaces]
         /\ \A c \in Cards : card'[c] \in {card[c], "none"}
  BY DEF AppealTypes, CardEdited, CardPlaces

-----------------------------------------------------------------------------
(* What any step does to the ban, the cards and the claims.                *)

\* A ban is lifted once, a verdict lasts, and no claim is made twice.
Moves ==
    /\ doc'.active => doc.active
    /\ doc.rejected # "never" => doc'.rejected # "never"
    /\ doc.rejected = "over" => doc'.rejected = "over"
    /\ doc'.rejected = "over" /\ doc.rejected # "over" => \A t \in Taps : tap[t].pc # "rejecting"
    /\ struck => struck'
    /\ \A c \in Cards : PastClaim(c) => PastClaim(c)'

\* The stored review stays and ages, goes, or is claimed for the first time.
SlotMoves ==
    \/ /\ doc'.slot = doc.slot
       /\ doc.age # "locked" => doc'.age # "locked"
    \/ doc'.slot = NoCard
    \/ /\ doc'.slot \in Cards /\ ~PastClaim(doc'.slot) /\ PastClaim(doc.slot)'
       /\ Open' => card'[doc'.slot] = "claimed"

CardMoves(c) ==
    /\ card'[c] = "claimed" => doc'.slot = c
    /\ card'[c] = "posted" => message'[c].pc \in {"claiming", "discarding"}
    /\ Open' /\ card[c] = "claimed" /\ doc.slot = c /\ doc'.slot = c => card'[c] = "claimed"

MessageStill(m) ==
    /\ message'[m] = message[m]
    /\ Open' /\ message[m].pc = "claiming" => card'[m] = card[m]

Step ==
    /\ AppealTypes'
    /\ Moves /\ SlotMoves
    /\ \A c \in Cards : CardMoves(c)
    /\ \A m \in Messages : MessageStill(m) \/ MessageInv(m)'
    /\ \A t \in Taps : tap'[t] = tap[t] \/ TapInv(t)'

LEMMA StepKeepsIInv ==
  ASSUME AppealIInv, Step
  PROVE  AppealIInv'
<1>1. Open' => Open
  <2>1. doc.rejected \in {"never", "cooling", "over"} /\ struck \in BOOLEAN
    BY DEF AppealIInv, AppealTypes, BanRecords
  <2> QED
    BY <2>1 DEF Step, Moves, Open
<1>2. doc'.slot # NoCard => PastClaim(doc.slot)'
  <2>1. doc.slot \in Cards \cup {NoCard}
    BY DEF AppealIInv, AppealTypes, BanRecords
  <2> QED
    BY <2>1 DEF Step, Moves, SlotMoves, AppealIInv, AppealInv
<1>3. PendingIsActionable'
  <2> SUFFICES ASSUME Open', doc'.slot # NoCard PROVE card'[doc'.slot] = "claimed"
    BY DEF PendingIsActionable, Open
  <2>1. CASE doc'.slot = doc.slot
    <3>1. doc.slot \in Cards /\ card[doc.slot] = "claimed"
      BY <1>1, <2>1 DEF AppealIInv, AppealTypes, BanRecords, AppealInv, PendingIsActionable,
                        Open
    <3> QED
      BY <2>1, <3>1 DEF Step, CardMoves
  <2>2. CASE doc'.slot # doc.slot
    BY <2>2 DEF Step, SlotMoves
  <2> QED
    BY <2>1, <2>2
<1>4. ASSUME NEW c \in Cards PROVE CardInv(c)'
  BY DEF Step, CardMoves, CardInv
<1>5. ASSUME NEW m \in Messages PROVE MessageInv(m)'
  <2>1. CASE MessageStill(m)
    BY <1>1, <2>1 DEF MessageStill, MessageInv, Step, Moves, AppealIInv, AppealInv
  <2> QED
    BY <2>1 DEF Step
<1>6. ASSUME NEW t \in Taps PROVE TapInv(t)'
  <2>1. CASE tap'[t] = tap[t]
    <3>1. TapInv(t)
      BY DEF AppealIInv, AppealInv
    <3>2. tap'[t].pc = "closing" => ~doc'.active
      BY <2>1, <3>1 DEF TapInv, Step, Moves
    <3>3. tap'[t].pc = "batch" => doc'.rejected # "never" \/ struck'
      BY <2>1, <3>1 DEF TapInv, Step, Moves
    <3>4. tap'[t].pc = "rejecting" => doc'.rejected # "over"
      BY <2>1, <3>1 DEF TapInv, Step, Moves
    <3>5. tap'[t].late => Decided' /\ tap'[t].pc \notin {"approving", "rejecting", "batch"}
      BY <2>1, <3>1 DEF TapInv, Step, Moves, Decided
    <3>6. ASSUME tap'[t].pc \in {"approving", "rejecting"}
          PROVE  /\ tap'[t].seen \in Cards /\ PastClaim(tap[t].seen)'
                 /\ tap'[t].by # BanAdmin /\ tap'[t].seen = doc'.slot => doc'.age # "locked"
      <4> DEFINE c == tap[t].seen
      <4>1. /\ c \in Cards /\ PastClaim(c)
            /\ tap[t].by # BanAdmin /\ c = doc.slot => doc.age # "locked"
        BY <2>1, <3>1, <3>6 DEF TapInv
      <4>2. PastClaim(tap[t].seen)'
        BY <2>1, <4>1 DEF Step, Moves, PastClaim
      <4>3. c # NoCard
        BY <4>1 DEF AppealIInv, AppealTypes, AppealParams
      <4> QED
        BY <2>1, <4>1, <4>2, <4>3 DEF Step, SlotMoves
    <3> QED
      BY <3>2, <3>3, <3>4, <3>5, <3>6 DEF TapInv
  <2> QED
    BY <2>1 DEF Step
<1> QED
  BY <1>2, <1>3, <1>4, <1>5, <1>6 DEF AppealIInv, AppealInv, Step

\* The messages do not go back, and a posted card keeps its handler.
MessagesGoOn == \A c \in Cards :
    /\ PastClaim(c) => PastClaim(c)'
    /\ card'[c] = "posted" => message'[c].pc \in {"claiming", "discarding"}

\* The ban's own moves, but for its slot.
AppealBanGoesOn ==
    /\ doc'.active => doc.active
    /\ doc.rejected # "never" => doc'.rejected # "never"
    /\ doc.rejected = "over" => doc'.rejected = "over"
    /\ doc'.rejected = "over" /\ doc.rejected # "over" => \A t \in Taps : tap[t].pc # "rejecting"
    /\ struck => struck'

(* The slot stays, and of a review that counts the card stays.             *)
LEMMA SlotStays ==
  ASSUME AppealIInv, AppealBanGoesOn, MessagesGoOn,
         doc'.slot = doc.slot, doc.age # "locked" => doc'.age # "locked",
         \A c \in Cards : card'[c] = "claimed" => card[c] = "claimed",
         \A c \in Cards : Open' /\ card[c] = "claimed" /\ doc.slot = c => card'[c] = "claimed"
  PROVE  Moves /\ SlotMoves /\ \A c \in Cards : CardMoves(c)
  BY DEF AppealIInv, AppealInv, CardInv, AppealBanGoesOn, MessagesGoOn, Moves, SlotMoves,
         CardMoves

(* The slot is emptied, and its card has no claim any more.                *)
LEMMA SlotGoes ==
  ASSUME AppealIInv, ReviewCleared, MessagesGoOn, UNCHANGED struck
  PROVE  Moves /\ SlotMoves /\ \A c \in Cards : CardMoves(c)
<1>0. AppealTypes
  BY DEF AppealIInv
<1>1. /\ doc'.slot = NoCard /\ doc'.active = doc.active /\ doc'.rejected = doc.rejected
      /\ \A c \in Cards : card'[c] = IF c = doc.slot /\ card[c] = "claimed" THEN "loose" ELSE card[c]
  BY <1>0, ReviewClearedTypes
<1>2. NoCard \notin Cards
  BY <1>0 DEF AppealTypes, AppealParams
<1>3. Moves /\ SlotMoves
  BY <1>1 DEF Moves, SlotMoves, MessagesGoOn
<1>4. ASSUME NEW c \in Cards PROVE CardMoves(c)
  BY <1>1, <1>2 DEF AppealIInv, AppealInv, CardInv, CardMoves, MessagesGoOn
<1> QED
  BY <1>3, <1>4

-----------------------------------------------------------------------------
(* The steps outside of the messages and the taps.                         *)

LEMMA UserStep ==
  ASSUME AppealIInv, UNCHANGED <<message, tap, struck>>, AppealTypes',
         UNCHANGED <<doc, card>> \/ ReviewCleared
  PROVE  Step
<1>0. AppealTypes
  BY DEF AppealIInv
<1>1. CASE UNCHANGED <<doc, card>>
  <2>1. MessagesGoOn /\ AppealBanGoesOn
    BY <1>1 DEF MessagesGoOn, AppealBanGoesOn, PastClaim, AppealIInv, AppealInv, CardInv
  <2>2. Moves /\ SlotMoves /\ \A c \in Cards : CardMoves(c)
    BY <1>1, <2>1, SlotStays
  <2> QED
    BY <1>1, <2>2 DEF Step, MessageStill, Cards
<1>2. CASE ReviewCleared
  <2>1. \A c \in Cards : card'[c] \in {card[c], "loose"} /\ (card'[c] # card[c] => card[c] = "claimed")
    BY <1>0, <1>2, ReviewClearedTypes
  <2>2. MessagesGoOn
    BY <2>1 DEF MessagesGoOn, PastClaim, AppealIInv, AppealInv, CardInv
  <2>3. Moves /\ SlotMoves /\ \A c \in Cards : CardMoves(c)
    BY <1>2, <2>2, SlotGoes
  <2>4. ASSUME NEW m \in Messages PROVE MessageStill(m)
    <3>1. Open' => Open
      <4>1. doc.rejected \in {"never", "cooling", "over"} /\ struck \in BOOLEAN
        BY <1>0 DEF AppealTypes, BanRecords
      <4> QED
        BY <2>3, <4>1 DEF Moves, Open
    <3>2. message[m].pc = "claiming" /\ Open => card[m] = "posted"
      BY DEF AppealIInv, AppealInv, MessageInv
    <3> QED
      BY <2>1, <3>1, <3>2 DEF MessageStill, Cards
  <2> QED
    BY <2>3, <2>4 DEF Step
<1> QED
  BY <1>1, <1>2

LEMMA EntryStepKeeps ==
  ASSUME AppealIInv, NEW a \in Entries, EntryStep(a)
  PROVE  Step
<1>0. AppealTypes
  BY DEF AppealIInv
<1>1. entry' \in [Entries -> EntryPlaces] /\ conv' \in {"none", "waiting"} /\ keys' \in BOOLEAN
  BY <1>0 DEF AppealTypes, EntryStep, EntryDispatch, EntryReads, EntryClears,
              EntryReturns, EntryRefused,
              EntryPasses, EntryPlaces
<1>2. UNCHANGED <<message, tap, leaving, struck>> /\ (UNCHANGED <<doc, card>> \/ ReviewCleared)
  BY DEF EntryStep, EntryDispatch, EntryReads, EntryClears, EntryReturns
<1>3. AppealTypes'
  <2>1. CASE UNCHANGED <<doc, card>>
    BY <1>0, <1>1, <1>2, <2>1 DEF AppealTypes
  <2>2. CASE ReviewCleared
    BY <1>0, <1>1, <1>2, <2>2, ReviewClearedTypes DEF AppealTypes
  <2> QED
    BY <1>2, <2>1, <2>2
<1> QED
  BY <1>2, <1>3, UserStep

LEMMA LeaveKeeps ==
  ASSUME AppealIInv, Leave \/ LeaveReturns
  PROVE  Step
<1>1. UNCHANGED <<message, tap, struck, doc, card>>
  BY DEF Leave, LeaveReturns
<1>2. AppealTypes'
  BY DEF AppealIInv, AppealTypes, Leave, LeaveReturns
<1> QED
  BY <1>1, <1>2, UserStep

LEMMA ClockKeeps ==
  ASSUME AppealIInv, LiftedByHand \/ ReviewAges \/ CooldownEnds
  PROVE  Step
<1>0. AppealTypes
  BY DEF AppealIInv
<1>1. UNCHANGED <<card, tap, struck, message, conv, keys, entry, leaving>>
  BY DEF LiftedByHand, ReviewAges, CooldownEnds, userVars
<1>2. /\ doc' \in BanRecords /\ doc'.slot = doc.slot
      /\ doc.age # "locked" => doc'.age # "locked"
      /\ doc.slot = NoCard => doc'.age = doc.age
  BY <1>0 DEF AppealTypes, LiftedByHand, ReviewAges, CooldownEnds, BanRecords
<1>3. AppealBanGoesOn
  BY <1>0, <1>1 DEF AppealTypes, LiftedByHand, ReviewAges, CooldownEnds, BanRecords,
                    AppealBanGoesOn
<1>4. MessagesGoOn
  BY <1>1 DEF MessagesGoOn, PastClaim, AppealIInv, AppealInv, CardInv
<1>5. Moves /\ SlotMoves /\ \A c \in Cards : CardMoves(c)
  BY <1>1, <1>2, <1>3, <1>4, SlotStays
<1>6. AppealTypes'
  BY <1>0, <1>1, <1>2 DEF AppealTypes
<1> QED
  BY <1>1, <1>5, <1>6 DEF Step, MessageStill

LEMMA RestartKeeps ==
  ASSUME AppealIInv, Restart
  PROVE  Step
<1>0. AppealTypes
  BY DEF AppealIInv
<1> DEFINE gone == [NoTap EXCEPT !.pc = "returned"]
<1>1. NoTap \in TapRecords /\ gone \in TapRecords /\ NoTap.pc = "none" /\ ~NoTap.late
      /\ gone.pc = "returned" /\ ~gone.late /\ MessageReturned \in MessageRecords
      /\ MessageReturned.pc = "returned"
  BY <1>0 DEF AppealTypes, AppealParams, TapRecords, NoTap, NoCard, Verdicts,
              MessageReturned, MessageRecords,
              MessagePlaces
<1>2. /\ \A c \in Cards : card'[c] = IF card[c] = "posted" THEN "loose" ELSE card[c]
      /\ \A m \in Messages :
            message'[m] = IF message[m].pc = "unsent" THEN message[m] ELSE MessageReturned
      /\ \A t \in Taps : tap'[t] = IF tap[t].pc = "none" THEN NoTap ELSE gone
      /\ UNCHANGED <<doc, struck>>
  BY DEF Restart
<1>3. AppealTypes'
  <2>1. card' \in [Cards -> CardPlaces]
    BY <1>0 DEF AppealTypes, Restart, CardPlaces
  <2>2. message' \in [Messages -> MessageRecords]
    BY <1>0, <1>1 DEF AppealTypes, Restart
  <2>3. entry' \in [Entries -> EntryPlaces]
    BY <1>0 DEF AppealTypes, Restart, EntryPlaces
  <2>4. tap' \in [Taps -> TapRecords]
    BY <1>0, <1>1 DEF AppealTypes, Restart
  <2> QED
    BY <1>0, <1>2, <2>1, <2>2, <2>3, <2>4 DEF AppealTypes, Restart
<1>4. MessagesGoOn
  BY <1>0, <1>1, <1>2 DEF MessagesGoOn, PastClaim, Cards, AppealTypes, CardPlaces
<1>5. AppealBanGoesOn
  BY <1>2 DEF AppealBanGoesOn
<1>6. Moves /\ SlotMoves /\ \A c \in Cards : CardMoves(c)
  BY <1>2, <1>4, <1>5, SlotStays
<1>7. ASSUME NEW m \in Messages PROVE MessageInv(m)'
  BY <1>1, <1>2 DEF MessageInv
<1>8. ASSUME NEW t \in Taps PROVE TapInv(t)'
  BY <1>1, <1>2 DEF TapInv
<1> QED
  BY <1>3, <1>6, <1>7, <1>8 DEF Step

-----------------------------------------------------------------------------
(* The messages. *)

(* A message moves without a look at the ban, and its card stays.          *)
LEMMA MessageWalks ==
  ASSUME AppealIInv, AppealTypes', NEW m \in Messages, UNCHANGED <<doc, tap>>, struck => struck',
         \A n \in Messages : n # m => message'[n] = message[n],
         \A c \in Cards : c # m => card'[c] = card[c],
         PastClaim(m) => PastClaim(m)',
         card'[m] = "claimed" => card[m] = "claimed",
         card'[m] = "posted" => message'[m].pc \in {"claiming", "discarding"},
         Open' /\ card[m] = "claimed" /\ doc.slot = m => card'[m] = "claimed",
         MessageInv(m)'
  PROVE  Step
<1>1. MessagesGoOn
  BY DEF MessagesGoOn, PastClaim, AppealIInv, AppealInv, CardInv, Cards
<1>2. AppealBanGoesOn
  BY DEF AppealBanGoesOn
<1>3. Moves /\ SlotMoves /\ \A c \in Cards : CardMoves(c)
  BY <1>1, <1>2, SlotStays
<1>4. ASSUME NEW n \in Messages, n # m PROVE MessageStill(n)
  BY <1>4 DEF MessageStill, Cards
<1> QED
  BY <1>3, <1>4 DEF Step

(* A handler clears the stale review it read.                              *)
LEMMA MessageClearsKeeps ==
  ASSUME AppealIInv, NEW m \in Messages, MessageClears(m)
  PROVE  Step
<1>0. AppealTypes /\ CardInv(m) /\ MessageInv(m)
  BY DEF AppealIInv, AppealInv, Cards
<1>a. /\ message[m].pc \in {"clearing", "cleaning"} /\ UNCHANGED <<conv, keys, entry, leaving, tap, struck>>
      /\ ReviewCleared \/ UNCHANGED <<doc, card>>
  BY DEF MessageClears
<1>b. MessageAt(m, "ending") \/ (message[m].pc = "clearing" /\ MessageAt(m, "gated"))
  BY DEF MessageClears
<1>1. /\ message' \in [Messages -> MessageRecords]
      /\ \A n \in Messages : n # m => message'[n] = message[n]
      /\ message'[m].early = message[m].early
      /\ message'[m].pc = "ending" \/ (message'[m].pc = "gated" /\ message[m].pc = "clearing")
  BY <1>0, <1>b, MessageMoves DEF MessagePlaces
<1>2. card[m] # "posted"
  BY <1>0, <1>a DEF CardInv
<1>3. \A c \in Cards : card'[c] \in {card[c], "loose"} /\ (card'[c] # card[c] => card[c] = "claimed")
  BY <1>0, <1>a, ReviewClearedTypes
<1>4. doc'.rejected = doc.rejected /\ doc'.active = doc.active
  BY <1>0, <1>a, ReviewClearedTypes
<1>5. MessageInv(m)'
  BY <1>0, <1>a, <1>1, <1>4 DEF MessageInv
<1>6. AppealTypes'
  <2>1. CASE UNCHANGED <<doc, card>>
    BY <1>0, <1>a, <1>1, <2>1 DEF AppealTypes
  <2>2. CASE ReviewCleared
    BY <1>0, <1>a, <1>1, <2>2, ReviewClearedTypes DEF AppealTypes
  <2> QED
    BY <1>a, <2>1, <2>2
<1>7. MessagesGoOn
  <2>1. ~PastClaim(m)
    BY <1>a DEF PastClaim
  <2> QED
    BY <1>1, <1>2, <1>3, <2>1 DEF MessagesGoOn, PastClaim, AppealIInv, AppealInv, CardInv,
                                  Cards
<1>8. Moves /\ SlotMoves /\ \A c \in Cards : CardMoves(c)
  <2>1. CASE UNCHANGED <<doc, card>>
    <3>1. AppealBanGoesOn
      BY <1>a, <2>1 DEF AppealBanGoesOn
    <3> QED
      BY <2>1, <3>1, <1>7, SlotStays
  <2>2. CASE ReviewCleared
    BY <2>2, <1>7, <1>a, SlotGoes
  <2> QED
    BY <1>a, <2>1, <2>2
<1>9. ASSUME NEW n \in Messages, n # m PROVE MessageStill(n)
  <2>1. Open' => Open
    BY <1>4, <1>a DEF Open
  <2>2. message[n].pc = "claiming" /\ Open => card[n] = "posted"
    BY DEF AppealIInv, AppealInv, MessageInv
  <2> QED
    BY <1>1, <1>3, <1>9, <2>1, <2>2 DEF MessageStill, Cards
<1> QED
  BY <1>a, <1>5, <1>6, <1>8, <1>9 DEF Step

(* The claim: the slot was empty, so no other card is claimed.             *)
LEMMA MessageClaimsKeeps ==
  ASSUME AppealIInv, NEW m \in Messages, MessageClaims(m)
  PROVE  Step
<1>0. AppealTypes /\ CardInv(m) /\ MessageInv(m) /\ m \in Cards
  BY DEF AppealIInv, AppealInv, Cards
<1>a. message[m].pc = "claiming" /\ UNCHANGED <<conv, keys, entry, leaving, tap, struck>>
  BY DEF MessageClaims
<1>b. MessageAt(m, "ending") \/ MessageAt(m, "discarding")
  BY DEF MessageClaims
<1>1. /\ message' \in [Messages -> MessageRecords]
      /\ \A n \in Messages : n # m => message'[n] = message[n]
      /\ message'[m].early = message[m].early
      /\ message'[m].pc \in {"ending", "discarding"}
  BY <1>0, <1>b, MessageMoves DEF MessagePlaces
<1>2. /\ \/ SlotTaken(m)
         \/ MessageAt(m, "discarding") /\ UNCHANGED <<doc, card>>
  BY DEF MessageClaims
<1>3. CASE SlotTaken(m)
  <2>1. /\ doc' \in BanRecords /\ card' \in [Cards -> CardPlaces]
        /\ doc.slot = NoCard /\ doc'.slot = m /\ m # NoCard /\ doc'.age = "locked"
        /\ doc'.active = doc.active /\ doc'.rejected = doc.rejected
        /\ \A c \in Cards : card'[c] = IF c = m /\ card[c] = "posted" THEN "claimed" ELSE card[c]
    BY <1>0, <1>3, SlotTakenTypes
  <2>2. AppealTypes'
    BY <1>0, <1>a, <1>1, <2>1 DEF AppealTypes
  <2>3. Moves
    BY <1>1, <1>a, <2>1 DEF Moves, PastClaim, Cards
  <2>4. Open' => card[m] = "posted"
    BY <1>0, <1>a, <2>1 DEF MessageInv, Open
  <2>5. SlotMoves
    BY <1>0, <1>a, <1>1, <2>1, <2>4 DEF SlotMoves, PastClaim
  <2>6. ASSUME NEW c \in Cards PROVE CardMoves(c)
    BY <1>0, <1>1, <2>1 DEF CardMoves, AppealIInv, AppealInv, CardInv, Cards, AppealTypes,
                            AppealParams
  <2>7. ASSUME NEW n \in Messages PROVE MessageStill(n) \/ MessageInv(n)'
    BY <1>1, <1>0, <1>a, <2>1 DEF MessageStill, MessageInv, Cards
  <2> QED
    BY <1>a, <2>2, <2>3, <2>5, <2>6, <2>7 DEF Step
<1>4. CASE MessageAt(m, "discarding") /\ UNCHANGED <<doc, card>>
  <2>1. message'[m].pc = "discarding"
    BY <1>0, <1>4, MessageMoves DEF MessagePlaces
  <2>2. AppealTypes'
    BY <1>0, <1>a, <1>1, <1>4 DEF AppealTypes
  <2>3. MessageInv(m)' /\ PastClaim(m)'
    BY <1>0, <1>a, <1>1, <1>4, <2>1 DEF MessageInv, PastClaim
  <2> QED
    BY <1>a, <1>1, <1>4, <2>1, <2>2, <2>3, MessageWalks
<1> QED
  BY <1>2, <1>3, <1>4

LEMMA MessageStepKeeps ==
  ASSUME AppealIInv, NEW m \in Messages, MessageStep(m)
  PROVE  Step
<1>0. AppealTypes /\ CardInv(m) /\ MessageInv(m) /\ m \in Cards /\ Cards = Messages
  BY DEF AppealIInv, AppealInv, Cards
<1>a. message[m] \in MessageRecords /\ message[m].early \in BOOLEAN /\ doc \in BanRecords
  BY <1>0 DEF AppealTypes, MessageRecords
<1>1. CASE MessageDispatch(m)
  <2> DEFINE rec == [pc |-> "reading", early |-> doc.rejected # "cooling"]
  <2>1. message' = [message EXCEPT ![m] = rec]
    BY <1>1 DEF MessageDispatch
  <2>2. /\ rec \in MessageRecords /\ rec.pc = "reading" /\ (rec.early <=> doc.rejected # "cooling")
    BY DEF MessageRecords, MessagePlaces
  <2> HIDE DEF rec
  <2>3. /\ message' \in [Messages -> MessageRecords] /\ message'[m] = rec
        /\ \A n \in Messages : n # m => message'[n] = message[n]
    BY <1>0, <2>1, <2>2 DEF AppealTypes
  <2>4. message[m].pc = "unsent" /\ UNCHANGED <<doc, conv, keys, entry, card, tap, leaving, struck>>
    BY <1>1 DEF MessageDispatch
  <2>5. AppealTypes'
    BY <1>0, <2>3, <2>4 DEF AppealTypes
  <2>6. MessageInv(m)' /\ ~PastClaim(m) /\ card[m] # "posted"
    BY <1>0, <2>2, <2>3, <2>4 DEF MessageInv, PastClaim, CardInv
  <2> QED
    BY <1>0, <2>3, <2>4, <2>5, <2>6, MessageWalks
<1>2. CASE MessageStays(m) \/ MessageUndelivered(m)
  <2>1. /\ message[m].pc \in {"reading", "gated", "undelivered"} /\ MessageAt(m, "returned")
        /\ conv' \in {"none", "waiting"} /\ UNCHANGED <<doc, keys, entry, card, tap, leaving, struck>>
    BY <1>2 DEF MessageStays, MessageUndelivered
  <2>2. /\ message' \in [Messages -> MessageRecords] /\ message'[m].pc = "returned"
        /\ \A n \in Messages : n # m => message'[n] = message[n]
    BY <1>0, <2>1, MessageMoves DEF MessagePlaces
  <2>3. AppealTypes'
    BY <1>0, <2>1, <2>2 DEF AppealTypes
  <2>4. MessageInv(m)' /\ PastClaim(m)' /\ card[m] # "posted"
    BY <1>0, <2>1, <2>2 DEF MessageInv, PastClaim, CardInv
  <2> QED
    BY <1>0, <2>1, <2>2, <2>3, <2>4, MessageWalks
<1>3. CASE MessageTakesKeys(m)
  <2>1. /\ message[m].pc = "reading" /\ (MessageAt(m, "returned") \/ MessageAt(m, "fetching"))
        /\ conv' \in {"none", conv} /\ UNCHANGED <<doc, keys, entry, card, tap, leaving, struck>>
    BY <1>3 DEF MessageTakesKeys
  <2>2. /\ message' \in [Messages -> MessageRecords] /\ message'[m].pc \in {"fetching", "returned"}
        /\ message'[m].pc = "fetching" => message'[m].early = message[m].early
        /\ \A n \in Messages : n # m => message'[n] = message[n]
    BY <1>0, <2>1, MessageMoves DEF MessagePlaces
  <2>3. AppealTypes'
    BY <1>0, <2>1, <2>2 DEF AppealTypes
  <2>4. MessageInv(m)' /\ ~PastClaim(m) /\ card[m] # "posted"
    BY <1>0, <2>1, <2>2 DEF MessageInv, PastClaim, CardInv
  <2> QED
    BY <1>0, <2>1, <2>2, <2>3, <2>4, MessageWalks
<1>4. CASE MessageReads(m)
  <2>1. message[m].pc = "fetching" /\ UNCHANGED <<doc, conv, keys, entry, card, tap, leaving, struck>>
    BY <1>4 DEF MessageReads
  <2>2. \/ MessageAt(m, "ending") \/ MessageAt(m, "cleaning")
        \/ (doc.rejected # "cooling" /\ (MessageAt(m, "gated") \/ MessageAt(m, "clearing")))
    <3>1. CASE MessageAt(m, "ending")
      BY <3>1
    <3>2. CASE Gates = "passed" /\ MessageAt(m, "gated")
      BY <3>2 DEF Gates, StaleReview
    <3>3. CASE Gates \in {"clearing", "cleaning"} /\ MessageAt(m, Gates)
      <4>1. CASE Gates = "cleaning"
        BY <3>3, <4>1
      <4>2. CASE Gates = "clearing"
        <5>1. doc.rejected # "cooling"
          BY <4>2 DEF Gates, StaleReview
        <5>2. MessageAt(m, "clearing")
          BY <3>3, <4>2
        <5> QED
          BY <5>1, <5>2
      <4> QED
        BY <3>3, <4>1, <4>2
    <3> QED
      BY <1>4, <3>1, <3>2, <3>3 DEF MessageReads
  <2>3. /\ message' \in [Messages -> MessageRecords] /\ message'[m].early = message[m].early
        /\ message'[m].pc \in {"ending", "cleaning", "gated", "clearing"}
        /\ message'[m].pc \in {"gated", "clearing"} => doc.rejected # "cooling"
        /\ \A n \in Messages : n # m => message'[n] = message[n]
    BY <1>0, <2>2, MessageMoves DEF MessagePlaces
  <2>4. AppealTypes'
    BY <1>0, <2>1, <2>3 DEF AppealTypes
  <2>5. MessageInv(m)' /\ ~PastClaim(m) /\ card[m] # "posted"
    BY <1>0, <1>a, <2>1, <2>3 DEF MessageInv, PastClaim, CardInv, BanRecords
  <2> QED
    BY <1>0, <2>1, <2>3, <2>4, <2>5, MessageWalks
<1>5. CASE MessageClears(m)
  BY <1>5, MessageClearsKeeps
<1>6. CASE MessagePosts(m)
  <2>1. /\ message[m].pc = "gated" /\ UNCHANGED <<doc, conv, keys, entry, tap, leaving, struck>>
        /\ \/ card' = [card EXCEPT ![m] = "posted"] /\ MessageAt(m, "claiming")
           \/ /\ card' \in {card, [card EXCEPT ![m] = "loose"]}
              /\ MessageAt(m, "ending") \/ MessageAt(m, "undelivered")
    BY <1>6 DEF MessagePosts
  <2>2. /\ message' \in [Messages -> MessageRecords] /\ message'[m].early = message[m].early
        /\ message'[m].pc \in {"claiming", "ending", "undelivered"}
        /\ message'[m].pc = "claiming" <=> MessageAt(m, "claiming")
        /\ \A n \in Messages : n # m => message'[n] = message[n]
    BY <1>0, <2>1, MessageMoves DEF MessagePlaces
  <2>3. /\ card' \in [Cards -> CardPlaces] /\ card'[m] \in {card[m], "posted", "loose"}
        /\ card'[m] = "posted" <=> message'[m].pc = "claiming"
        /\ \A c \in Cards : c # m => card'[c] = card[c]
    <3>1. card[m] # "posted" /\ card \in [Cards -> CardPlaces]
      BY <1>0, <2>1 DEF CardInv, AppealTypes
    <3>2. CASE card' = [card EXCEPT ![m] = "posted"] /\ MessageAt(m, "claiming")
      BY <1>0, <2>2, <3>1, <3>2 DEF CardPlaces
    <3>3. CASE /\ card' \in {card, [card EXCEPT ![m] = "loose"]}
               /\ MessageAt(m, "ending") \/ MessageAt(m, "undelivered")
      <4>1. message'[m].pc \in {"ending", "undelivered"}
        BY <1>0, <3>3, MessageMoves DEF MessagePlaces
      <4> QED
        BY <1>0, <3>1, <3>3, <4>1 DEF CardPlaces
    <3> QED
      BY <2>1, <3>2, <3>3
  <2>4. AppealTypes'
    BY <1>0, <2>1, <2>2, <2>3 DEF AppealTypes
  <2>5. MessageInv(m)' /\ ~PastClaim(m)
    BY <1>0, <2>1, <2>2, <2>3 DEF MessageInv, PastClaim
  <2>6. ~(doc.slot = m)
    <3>1. m # NoCard
      BY <1>0 DEF AppealTypes, AppealParams
    <3> QED
      BY <2>5, <3>1 DEF AppealIInv, AppealInv
  <2> QED
    BY <1>0, <2>1, <2>2, <2>3, <2>4, <2>5, <2>6, MessageWalks
<1>7. CASE MessageClaims(m)
  BY <1>7, MessageClaimsKeeps
<1>8. CASE MessageDiscards(m)
  <2>1. /\ message[m].pc = "discarding" /\ MessageAt(m, "ending")
        /\ UNCHANGED <<doc, conv, keys, entry, tap, leaving>> /\ struck' = (struck \/ doc.slot = m)
        /\ \/ card' = [card EXCEPT ![m] = "none"]
           \/ card' = [card EXCEPT ![m] = IF card[m] = "posted" THEN "loose" ELSE card[m]]
    BY <1>0, <1>8 DEF MessageDiscards, AppealTypes
  <2>2. /\ message' \in [Messages -> MessageRecords] /\ message'[m].early = message[m].early
        /\ message'[m].pc = "ending"
        /\ \A n \in Messages : n # m => message'[n] = message[n]
    BY <1>0, <2>1, MessageMoves DEF MessagePlaces
  <2>3. /\ card' \in [Cards -> CardPlaces] /\ card'[m] # "posted"
        /\ card'[m] = "claimed" => card[m] = "claimed"
        /\ \A c \in Cards : c # m => card'[c] = card[c]
    BY <1>0, <2>1 DEF AppealTypes, CardPlaces
  <2>4. struck' \in BOOLEAN /\ (struck => struck') /\ ~(Open' /\ doc.slot = m)
    BY <1>0, <2>1 DEF AppealTypes, Open
  <2>5. AppealTypes'
    BY <1>0, <2>1, <2>2, <2>3, <2>4 DEF AppealTypes
  <2>6. MessageInv(m)' /\ PastClaim(m)'
    BY <1>0, <2>1, <2>2 DEF MessageInv, PastClaim
  <2> QED
    BY <1>0, <2>1, <2>2, <2>3, <2>4, <2>5, <2>6, MessageWalks
<1>9. CASE MessageEnds(m)
  <2>1. /\ message[m].pc = "ending" /\ MessageAt(m, "returned") /\ conv' = "none" /\ keys' = FALSE
        /\ UNCHANGED <<doc, entry, card, tap, leaving, struck>>
    BY <1>9 DEF MessageEnds
  <2>2. /\ message' \in [Messages -> MessageRecords] /\ message'[m].pc = "returned"
        /\ \A n \in Messages : n # m => message'[n] = message[n]
    BY <1>0, <2>1, MessageMoves DEF MessagePlaces
  <2>3. AppealTypes'
    BY <1>0, <2>1, <2>2 DEF AppealTypes
  <2>4. MessageInv(m)' /\ PastClaim(m)' /\ card[m] # "posted"
    BY <1>0, <2>1, <2>2 DEF MessageInv, PastClaim, CardInv
  <2> QED
    BY <1>0, <2>1, <2>2, <2>3, <2>4, MessageWalks
<1> QED
  BY <1>1, <1>2, <1>3, <1>4, <1>5, <1>6, <1>7, <1>8, <1>9 DEF MessageStep

-----------------------------------------------------------------------------
(* The taps. *)

(* A tap moves; the ban keeps its review, and a card goes only under it.   *)
LEMMA TapWalks ==
  ASSUME AppealIInv, NEW t \in Taps, UNCHANGED <<message, userVars>>, AppealBanGoesOn,
         doc' \in BanRecords, struck' \in BOOLEAN,
         doc'.slot = doc.slot, doc'.age = doc.age,
         card' \in [Cards -> CardPlaces], \A c \in Cards : card'[c] \in {card[c], "none"},
         Open' => card' = card,
         tap' \in [Taps -> TapRecords], \A u \in Taps : u # t => tap'[u] = tap[u],
         TapInv(t)'
  PROVE  Step
<1>0. AppealTypes
  BY DEF AppealIInv
<1>1. MessagesGoOn
  BY <1>0 DEF MessagesGoOn, PastClaim, AppealIInv, AppealInv, CardInv
<1>2. Moves /\ SlotMoves /\ \A c \in Cards : CardMoves(c)
  BY <1>1, SlotStays
<1>3. AppealTypes'
  BY <1>0 DEF AppealTypes, userVars
<1>4. \A m \in Messages : MessageStill(m)
  BY DEF MessageStill
<1> QED
  BY <1>2, <1>3, <1>4 DEF Step

LEMMA TapDispatchKeeps ==
  ASSUME AppealIInv, NEW t \in Taps, TapDispatch(t)
  PROVE  Step
<1>0. AppealTypes
  BY DEF AppealIInv
<1>1. PICK r \in Reviewers, v \in Verdicts, c \in Cards :
         tap' = [tap EXCEPT ![t] = [tap[t] EXCEPT !.pc = "tapped", !.by = r, !.verdict = v,
                                                  !.card = c, !.late = Decided]]
  BY <1>0 DEF TapDispatch, AppealTypes
<1> DEFINE rec == [tap[t] EXCEPT !.pc = "tapped", !.by = r, !.verdict = v, !.card = c, !.late = Decided]
<1>2. tap[t] \in TapRecords /\ Decided \in BOOLEAN
  BY <1>0 DEF AppealTypes, Decided, BanRecords
<1>3. rec \in TapRecords /\ rec.pc = "tapped" /\ (rec.late <=> Decided)
  BY <1>2 DEF TapRecords
<1>4. tap' = [tap EXCEPT ![t] = rec]
  BY <1>1
<1> HIDE DEF rec
<1>5. /\ tap' \in [Taps -> TapRecords] /\ tap'[t] = rec
      /\ \A u \in Taps : u # t => tap'[u] = tap[u]
  BY <1>0, <1>3, <1>4 DEF AppealTypes
<1>6. UNCHANGED <<doc, card, struck, message, userVars>>
  BY DEF TapDispatch
<1>7. TapInv(t)'
  BY <1>3, <1>5, <1>6 DEF TapInv, Decided
<1>8. AppealBanGoesOn
  BY <1>6 DEF AppealBanGoesOn
<1> QED
  BY <1>0, <1>5, <1>6, <1>7, <1>8, TapWalks DEF AppealTypes

(* A tap that returns without a word to the database.                      *)
LEMMA TapReturnKeeps ==
  ASSUME AppealIInv, NEW t \in Taps, TapReturns(t), UNCHANGED <<message, userVars>>,
         AppealBanGoesOn, doc' \in BanRecords, struck' \in BOOLEAN,
         doc'.slot = doc.slot, doc'.age = doc.age,
         card' \in [Cards -> CardPlaces], \A c \in Cards : card'[c] \in {card[c], "none"},
         Open' => card' = card
  PROVE  Step
<1>1. /\ tap' \in [Taps -> TapRecords]
      /\ tap'[t].pc = "returned" /\ tap'[t].late = FALSE
      /\ \A u \in Taps : u # t => tap'[u] = tap[u]
  BY TapLeaves DEF AppealIInv
<1>2. TapInv(t)'
  BY <1>1 DEF TapInv
<1> QED
  BY <1>1, <1>2, TapWalks

LEMMA TapClearsKeeps ==
  ASSUME AppealIInv, NEW t \in Taps, TapClears(t)
  PROVE  Step
<1>0. AppealTypes /\ TapInv(t)
  BY DEF AppealIInv, AppealInv
<1>1. /\ Finishing(t) /\ TapFinishes(t, "clear") /\ UNCHANGED <<struck, message, userVars>>
      /\ ReviewCleared \/ UNCHANGED <<doc, card>>
  BY DEF TapClears
<1>2. /\ tap' \in [Taps -> TapRecords]
      /\ tap'[t].pc \in {tap[t].pc, "returned"} /\ tap'[t].late \in {tap[t].late, FALSE}
      /\ \A u \in Taps : u # t => tap'[u] = tap[u]
  BY <1>0, <1>1, TapFinishTypes
<1>3. tap[t].pc \in {"closing", "batch"}
  BY <1>1 DEF Finishing
<1>4. CASE UNCHANGED <<doc, card>>
  <2>1. TapInv(t)'
    BY <1>0, <1>1, <1>2, <1>3, <1>4 DEF TapInv, Decided
  <2>2. AppealBanGoesOn
    BY <1>1, <1>4 DEF AppealBanGoesOn
  <2> QED
    BY <1>0, <1>1, <1>2, <1>4, <2>1, <2>2, TapWalks DEF AppealTypes
<1>5. CASE ReviewCleared
  <2>1. /\ doc' \in BanRecords /\ card' \in [Cards -> CardPlaces]
        /\ doc'.slot = NoCard /\ doc'.age = "locked"
        /\ doc'.active = doc.active /\ doc'.rejected = doc.rejected
        /\ \A c \in Cards : card'[c] \in {card[c], "loose"} /\ (card'[c] # card[c] => card[c] = "claimed")
    BY <1>0, <1>5, ReviewClearedTypes
  <2>2. MessagesGoOn
    BY <1>1, <2>1 DEF MessagesGoOn, PastClaim, AppealIInv, AppealInv, CardInv
  <2>3. Moves /\ SlotMoves /\ \A c \in Cards : CardMoves(c)
    BY <1>1, <1>5, <2>2, SlotGoes
  <2>4. AppealTypes'
    BY <1>0, <1>1, <1>2, <2>1 DEF AppealTypes, userVars
  <2>5. TapInv(t)'
    BY <1>0, <1>1, <1>2, <1>3, <2>1 DEF TapInv, Decided
  <2>6. ASSUME NEW m \in Messages PROVE MessageStill(m)
    <3>1. Open' => Open
      BY <1>1, <2>1 DEF Open
    <3>2. message[m].pc = "claiming" /\ Open => card[m] = "posted"
      BY DEF AppealIInv, AppealInv, MessageInv
    <3> QED
      BY <1>1, <2>1, <3>1, <3>2 DEF MessageStill, Cards
  <2> QED
    BY <1>2, <2>3, <2>4, <2>5, <2>6 DEF Step
<1> QED
  BY <1>1, <1>4, <1>5

LEMMA TapStepKeeps ==
  ASSUME AppealIInv, NEW t \in Taps, TapStep(t)
  PROVE  Step
<1>0. AppealTypes /\ TapInv(t) /\ tap[t] \in TapRecords
  BY DEF AppealIInv, AppealInv, AppealTypes
<1>a. /\ doc \in BanRecords /\ doc.active \in BOOLEAN /\ struck \in BOOLEAN
      /\ card \in [Cards -> CardPlaces]
  BY <1>0 DEF AppealTypes, BanRecords
<1>1. CASE TapTurnedAway(t) \/ TapStandsDown(t)
  <2>1. TapReturns(t) /\ UNCHANGED <<doc, card, struck, message, userVars>>
    BY <1>1 DEF TapTurnedAway, TapStandsDown
  <2>2. AppealBanGoesOn
    BY <2>1 DEF AppealBanGoesOn
  <2> QED
    BY <1>a, <2>1, <2>2, TapReturnKeeps
<1>2. CASE TapLosesBan(t)
  <2>1. /\ TapReturns(t) /\ UNCHANGED <<doc, message, userVars>> /\ CardEdited(t)
        /\ struck' = (struck \/ card' # card)
    BY <1>2 DEF TapLosesBan
  <2>2. card' \in [Cards -> CardPlaces] /\ \A c \in Cards : card'[c] \in {card[c], "none"}
    BY <1>0, <2>1, CardEditedTypes
  <2>3. AppealBanGoesOn /\ struck' \in BOOLEAN /\ (Open' => card' = card)
    BY <1>a, <2>1 DEF AppealBanGoesOn, Open
  <2> QED
    BY <1>a, <2>1, <2>2, <2>3, TapReturnKeeps
<1>3. CASE TapDecides(t)
  <2> DEFINE pc == IF tap[t].verdict = "approve" THEN "approving" ELSE "rejecting"
             rec == [tap[t] EXCEPT !.pc = pc, !.seen = doc.slot]
  <2>1. /\ doc.active /\ ~Resolved /\ ~LockedOut(t)
        /\ UNCHANGED <<doc, card, struck, message, userVars>>
    BY <1>3 DEF TapDecides
  <2>2. tap' = [tap EXCEPT ![t] = rec]
    <3>1. tap \in [Taps -> TapRecords]
      BY <1>0 DEF AppealTypes
    <3> QED
      BY <1>3, <3>1 DEF TapDecides, TapRecords
  <2>3. /\ rec \in TapRecords /\ rec.pc \in {"approving", "rejecting"}
        /\ rec.late = tap[t].late /\ rec.by = tap[t].by /\ rec.seen = doc.slot
    BY <1>0, <1>a DEF TapRecords, BanRecords
  <2> HIDE DEF rec
  <2>4. /\ tap' \in [Taps -> TapRecords] /\ tap'[t] = rec
        /\ \A u \in Taps : u # t => tap'[u] = tap[u]
    BY <1>0, <2>2, <2>3 DEF AppealTypes
  <2>5. ~Decided /\ doc.slot # NoCard /\ doc.slot \in Cards /\ PastClaim(doc.slot)
    BY <1>a, <2>1 DEF Decided, Resolved, AppealIInv, AppealInv, BanRecords
  <2>6. TapInv(t)'
    BY <1>0, <2>1, <2>3, <2>4, <2>5 DEF TapInv, Decided, Resolved, LockedOut, PastClaim
  <2>7. AppealBanGoesOn
    BY <2>1 DEF AppealBanGoesOn
  <2> QED
    BY <1>a, <2>1, <2>4, <2>6, <2>7, TapWalks
<1>4. CASE TapTidies(t)
  <2>1. /\ ~doc.active /\ TapAt(t, "closing", {"clear", "edit"})
        /\ UNCHANGED <<doc, card, struck, message, userVars>>
    BY <1>4 DEF TapTidies
  <2>2. /\ tap' \in [Taps -> TapRecords] /\ tap'[t].pc = "closing" /\ tap'[t].late = tap[t].late
        /\ \A u \in Taps : u # t => tap'[u] = tap[u]
    BY <1>0, <2>1, TapMoves
  <2>3. TapInv(t)'
    BY <1>0, <2>1, <2>2 DEF TapInv, Decided
  <2>4. AppealBanGoesOn
    BY <2>1 DEF AppealBanGoesOn
  <2> QED
    BY <1>a, <2>1, <2>2, <2>3, <2>4, TapWalks
<1>5. CASE ApproveDeactivates(t)
  <2>1. UNCHANGED <<card, struck, message, userVars>>
    BY <1>5 DEF ApproveDeactivates
  <2>2. /\ doc' \in BanRecords /\ doc'.slot = doc.slot /\ doc'.age = doc.age
        /\ doc'.rejected = doc.rejected /\ (doc'.active => doc.active)
    BY <1>a, <1>5 DEF ApproveDeactivates, BanRecords
  <2>3. AppealBanGoesOn
    BY <2>1, <2>2 DEF AppealBanGoesOn
  <2>4. CASE TapReturns(t)
    BY <1>a, <2>1, <2>2, <2>3, <2>4, TapReturnKeeps
  <2>5. CASE TapAt(t, "closing", {"clear", "edit"}) /\ doc' = [doc EXCEPT !.active = FALSE]
    <3>1. /\ tap' \in [Taps -> TapRecords] /\ tap'[t].pc = "closing" /\ tap'[t].late = tap[t].late
          /\ \A u \in Taps : u # t => tap'[u] = tap[u]
      BY <1>0, <2>5, TapMoves
    <3>2. ~doc'.active
      BY <1>a, <2>5 DEF BanRecords
    <3>3. TapInv(t)'
      BY <1>0, <2>2, <3>1, <3>2 DEF TapInv, Decided
    <3> QED
      BY <1>a, <2>1, <2>2, <2>3, <3>1, <3>3, TapWalks
  <2> QED
    BY <1>5, <2>4, <2>5 DEF ApproveDeactivates
<1>6. CASE RejectRecords(t)
  <2>1. /\ tap[t].pc = "rejecting" /\ TapAt(t, "batch", {"clear", "edit"})
        /\ UNCHANGED <<card, message, userVars>>
        /\ \/ doc' = [doc EXCEPT !.rejected = "cooling"] /\ struck' = struck
           \/ doc' = doc /\ struck' = TRUE
    BY <1>6 DEF RejectRecords
  <2>2. doc.rejected # "over" /\ ~tap[t].late
    BY <1>0, <2>1 DEF TapInv, TapRecords
  <2>3. /\ tap' \in [Taps -> TapRecords] /\ tap'[t].pc = "batch" /\ tap'[t].late = tap[t].late
        /\ \A u \in Taps : u # t => tap'[u] = tap[u]
    BY <1>0, <2>1, TapMoves
  <2>4. /\ doc' \in BanRecords /\ doc'.slot = doc.slot /\ doc'.age = doc.age /\ doc'.active = doc.active
        /\ struck' \in BOOLEAN /\ (doc'.rejected = "cooling" \/ (doc' = doc /\ struck'))
    BY <1>a, <2>1 DEF BanRecords
  <2>5. AppealBanGoesOn
    BY <1>a, <2>1, <2>2, <2>4 DEF AppealBanGoesOn
  <2>6. TapInv(t)'
    BY <2>2, <2>3, <2>4 DEF TapInv
  <2> QED
    BY <1>a, <2>1, <2>3, <2>4, <2>5, <2>6, TapWalks
<1>7. CASE TapClears(t)
  BY <1>7, TapClearsKeeps
<1>8. CASE TapEdits(t)
  <2>1. /\ Finishing(t) /\ TapFinishes(t, "edit") /\ CardEdited(t)
        /\ UNCHANGED <<doc, struck, message, userVars>>
    BY <1>8 DEF TapEdits
  <2>2. /\ tap' \in [Taps -> TapRecords]
        /\ tap'[t].pc \in {tap[t].pc, "returned"} /\ tap'[t].late \in {tap[t].late, FALSE}
        /\ \A u \in Taps : u # t => tap'[u] = tap[u]
    BY <1>0, <2>1, TapFinishTypes
  <2>3. tap[t].pc \in {"closing", "batch"}
    BY <2>1 DEF Finishing
  <2>4. TapInv(t)'
    BY <1>0, <2>1, <2>2, <2>3 DEF TapInv, Decided
  <2>5. card' \in [Cards -> CardPlaces] /\ \A c \in Cards : card'[c] \in {card[c], "none"}
    BY <1>0, <2>1, CardEditedTypes
  <2>6. ~Open' /\ AppealBanGoesOn
    BY <1>0, <2>1, <2>3 DEF TapInv, Open, AppealBanGoesOn
  <2> QED
    BY <1>a, <2>1, <2>2, <2>4, <2>5, <2>6, TapWalks
<1> QED
  BY <1>1, <1>2, <1>3, <1>4, <1>5, <1>6, <1>7, <1>8 DEF TapStep

-----------------------------------------------------------------------------
(* Every step. *)

LEMMA AnyStep == AppealIInv /\ AppealNext => Step
<1> SUFFICES ASSUME AppealIInv, AppealNext PROVE Step
  OBVIOUS
<1>1. ASSUME NEW a \in Entries, EntryStep(a) PROVE Step
  BY <1>1, EntryStepKeeps
<1>2. ASSUME NEW m \in Messages, MessageStep(m) PROVE Step
  BY <1>2, MessageStepKeeps
<1>3. ASSUME NEW t \in Taps, TapDispatch(t) \/ TapStep(t) PROVE Step
  BY <1>3, TapDispatchKeeps, TapStepKeeps
<1> QED
  BY <1>1, <1>2, <1>3, LeaveKeeps, ClockKeeps, RestartKeeps DEF AppealNext

LEMMA AppealInitIInv == AppealParams /\ AppealInit => AppealIInv
<1> SUFFICES ASSUME AppealParams, AppealInit PROVE AppealIInv
  OBVIOUS
<1>1. AppealTypes
  BY TypesInit
<1>2. /\ doc.slot = NoCard /\ \A c \in Cards : card[c] = "none"
      /\ \A m \in Messages : message[m].pc = "unsent"
      /\ \A t \in Taps : tap[t].pc = "none" /\ ~tap[t].late
  BY DEF AppealInit, NoTap
<1> QED
  BY <1>1, <1>2 DEF AppealIInv, AppealInv, PendingIsActionable, CardInv, MessageInv, TapInv

LEMMA AppealNextKeepsIInv == AppealIInv /\ [AppealNext]_appealVars => AppealIInv'
<1> SUFFICES ASSUME AppealIInv, [AppealNext]_appealVars PROVE AppealIInv'
  OBVIOUS
<1>1. CASE AppealNext
  BY <1>1, AnyStep, StepKeepsIInv
<1>2. CASE UNCHANGED appealVars
  <2>1. AppealTypes' /\ PendingIsActionable'
    BY <1>2 DEF appealVars, userVars, AppealIInv, AppealInv, AppealTypes, PendingIsActionable
  <2> QED
    BY <1>2, <2>1 DEF appealVars, userVars, AppealIInv, AppealInv, CardInv, MessageInv, TapInv,
                      PastClaim, Open, Decided
<1> QED
  BY <1>1, <1>2

(* A card is posted by a message that waits for its claim, and no other    *)
(* step but that claim stores a review.                                    *)
LEMMA ClaimsAreUncooled ==
  ASSUME AppealIInv, [AppealNext]_appealVars
  PROVE  \A m \in Messages : message[m].pc = "claiming" /\ doc'.slot = m /\ doc.slot # m
             => message[m].early \/ doc.rejected # "cooling"
  BY DEF AppealIInv, AppealInv, MessageInv

LEMMA AppealSpecKeepsIInv == AppealParams /\ AppealSpec => []AppealIInv
  BY AppealInitIInv, AppealNextKeepsIInv, PTL DEF AppealSpec

(* The review fields of the ban document, the conversation and the cards   *)
(* keep their form, whoever acts and whatever fails.                       *)
THEOREM AppealTypeCorrect == AppealSpec => []AppealTypeOK
<1>1. AppealIInv => AppealTypeOK
  BY AppealTypesSuffice DEF AppealIInv
<1>2. AppealParams
  BY ParamsHold
<1> QED
  BY <1>1, <1>2, AppealSpecKeepsIInv, PTL

(* claim_review stores a card only where none is stored, and whoever clears *)
(* the slot takes the card along (bans_db.py): no second card is pending.  *)
THEOREM OnePendingCard == AppealSpec => []NoOrphanCard
<1>1. AppealIInv => NoOrphanCard
  BY DEF AppealIInv, AppealInv, CardInv, NoOrphanCard
<1>2. AppealParams
  BY ParamsHold
<1> QED
  BY <1>1, <1>2, AppealSpecKeepsIInv, PTL

(* A stored review can be decided: its card is in the group, unless a      *)
(* failed call (appeal_submit_flow.py, appeal_review_flow.py) cost it.     *)
THEOREM PendingCardIsLive == AppealSpec => []PendingIsActionable
<1>1. AppealIInv => PendingIsActionable
  BY DEF AppealIInv, AppealInv
<1>2. AppealParams
  BY ParamsHold
<1> QED
  BY <1>1, <1>2, AppealSpecKeepsIInv, PTL

(* A tap that on_decision dispatches after the verdict stands decides      *)
(* nothing, however the two interleave.                                    *)
THEOREM NoSecondVerdict == AppealSpec => []LateTapDecidesNothing
<1>1. AppealIInv => LateTapDecidesNothing
  BY DEF AppealIInv, AppealInv, TapInv, LateTapDecidesNothing
<1>2. AppealParams
  BY ParamsHold
<1> QED
  BY <1>1, <1>2, AppealSpecKeepsIInv, PTL

(* In the first hours of a review only the admin who banned decides it     *)
(* (the priority window of on_decision).                                   *)
THEOREM AdminFirst == AppealSpec => []PriorityWindow
<1>1. AppealIInv => PriorityWindow
  BY DEF AppealIInv, AppealInv, TapInv, PriorityWindow
<1>2. AppealParams
  BY ParamsHold
<1> QED
  BY <1>1, <1>2, AppealSpecKeepsIInv, PTL

(* No review is claimed while a rejection cools down, for a message that   *)
(* _on_message took after it (appeal_submit_flow.py).                      *)
THEOREM CooldownHolds == AppealSpec => CooldownBinds
<1>1. AppealIInv /\ [AppealNext]_appealVars => [\A m \in Messages :
          message[m].pc = "claiming" /\ doc'.slot = m /\ doc.slot # m
              => message[m].early \/ doc.rejected # "cooling"]_appealVars
  BY ClaimsAreUncooled
<1>2. AppealParams
  BY ParamsHold
<1> QED
  BY <1>1, <1>2, AppealSpecKeepsIInv, PTL DEF AppealSpec, CooldownBinds

=============================================================================
