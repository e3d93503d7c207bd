-------------------------- MODULE ModActionProofs --------------------------
(***************************************************************************)
(* Safety of the reason and proof conversation for any chats, any number   *)
(* of callbacks at a time and any number of commands; and, in the second   *)
(* part, of the mute it starts, for any chats, runs and handlers.          *)
(***************************************************************************)
EXTENDS ModAction, Mute, FiniteSetTheorems, TLAPS

Places == {"idle", "prompt", "noted", "done", "confirm", "execute", "return", "tell"}

Working == {t \in Tasks : task[t].pc # "idle"}

\* The callbacks that may leave the conversation open.
Opening == {t \in Tasks : task[t].pc \in {"prompt", "noted", "done"}}

At(pcs) == {t \in Tasks : task[t].pc \in pcs}

\* The keys of the entry of chat c are in user_data.
Has(c) == data # NoEntry /\ entered[data] = c

Typed ==
    /\ conv \in [Chats -> {"end", "reason", "proof"}]
    /\ data \in DOMAIN entered \cup {NoEntry}
    /\ executing \in BOOLEAN /\ items \in SUBSET (Entries \cup {NoEntry})
    /\ \E n \in 0..MaxEntries : entered \in [1..n -> Chats]
    /\ task \in [Tasks -> [pc : Places, chat : Chats \cup {"none"}]]
    /\ \A t \in Tasks : task[t] = Idle \/ (task[t].pc # "idle" /\ task[t].chat \in Chats)
    /\ ran \in SUBSET [entry : DOMAIN entered, proof : SUBSET (Entries \cup {NoEntry})]
    /\ cancelled \in SUBSET DOMAIN entered
    /\ mixed \in BOOLEAN

\* What a Cancel took away is not in user_data any more.
Cleared == data \notin cancelled

\* Whoever raised the flag is still to execute, or executing.
Flagged == executing => At({"confirm", "execute"}) # {}

(* As long as nothing overlapped, one chat at most is open; a callback that *)
(* may leave it open is alone and has its data; what was collected was     *)
(* sent for the entry in user_data, or for none; and when callbacks are    *)
(* about to close the chat, that entry is gone or one of them is going to  *)
(* execute it.                                                             *)
Unmixed ==
    ~mixed =>
        /\ \A c, d \in Open : c = d
        /\ \A t \in Opening : \A u \in Working : u = t
        /\ \A t \in Opening : Has(task[t].chat)
        /\ At({"prompt"}) # {} => items \subseteq {NoEntry}
        /\ \A c \in Chats : conv[c] # "end" /\ Busy(c) = {} => Has(c)
        /\ items \subseteq {data, NoEntry}
        /\ Open = {} => items \subseteq {NoEntry}
        /\ data # NoEntry /\ At({"return", "execute", "tell"}) # {} => At({"confirm"}) # {}

IInv == Typed /\ Cleared /\ Flagged /\ Unmixed

-----------------------------------------------------------------------------
LEMMA IdleFacts ==
    /\ Idle.pc = "idle" /\ Idle.chat = "none" /\ "none" \notin Chats
    /\ MaxEntries \in Nat /\ NoEntry \notin Entries /\ NoEntry = 0
  BY ModActionAssumption DEF Idle, Entries, NoEntry

(* A callback is busy in its own chat, and an idle one in none.            *)
LEMMA BusyWhere ==
  ASSUME Typed, NEW t \in Tasks
  PROVE  /\ task[t].pc = "idle" <=> task[t] = Idle
         /\ task[t].pc # "idle" =>
               /\ task[t].chat \in Chats /\ t \in Busy(task[t].chat)
               /\ task[t].chat \in Open
         /\ \A c \in Chats : t \in Busy(c) <=> (task[t].pc # "idle" /\ task[t].chat = c)
  BY IdleFacts DEF Typed, Busy, Open

LEMMA Starting ==
  ASSUME Typed, NEW t \in Tasks, NEW c \in Chats, NEW pc \in Places \ {"idle"}, Starts(t, c, pc)
  PROVE  /\ task' \in [Tasks -> [pc : Places, chat : Chats \cup {"none"}]]
         /\ \A u \in Tasks : task'[u] = Idle \/ (task'[u].pc # "idle" /\ task'[u].chat \in Chats)
         /\ task[t].pc = "idle" /\ task'[t].pc = pc /\ task'[t].chat = c
         /\ \A u \in Tasks : u # t => task'[u] = task[u]
         /\ mixed' \in BOOLEAN
         /\ ~mixed' => /\ ~mixed \/ Clean
                       /\ \A d \in Open : d = c
                       /\ Opening = {}
                       /\ pc \in {"prompt", "noted", "done"} => Working = {}
<1>1. /\ task[t] = Idle /\ task' = [task EXCEPT ![t] = [pc |-> pc, chat |-> c]]
      /\ mixed' = ((mixed /\ ~Clean) \/ Mixes(c, pc \in {"prompt", "noted", "done"}))
  BY DEF Starts
<1>2. /\ task' \in [Tasks -> [pc : Places, chat : Chats \cup {"none"}]]
      /\ \A u \in Tasks : task'[u] = Idle \/ (task'[u].pc # "idle" /\ task'[u].chat \in Chats)
      /\ task[t].pc = "idle" /\ task'[t].pc = pc /\ task'[t].chat = c
      /\ \A u \in Tasks : u # t => task'[u] = task[u]
  BY <1>1, IdleFacts DEF Typed
<1>3. mixed' \in BOOLEAN
  BY <1>1
<1>4. ASSUME ~mixed'
      PROVE  /\ ~mixed \/ Clean
             /\ \A d \in Open : d = c
             /\ Opening = {}
             /\ pc \in {"prompt", "noted", "done"} => Working = {}
  <2>1. (~mixed \/ Clean) /\ ~Mixes(c, pc \in {"prompt", "noted", "done"})
    BY <1>1, <1>4
  <2>2. /\ \A d \in Open : d = c
        /\ pc \in {"prompt", "noted", "done"} => Busy(c) = {}
        /\ \A u \in Busy(c) : task[u].pc \notin {"prompt", "noted", "done"}
    BY <2>1 DEF Mixes
  <2>3. \A u \in Tasks : task[u].pc # "idle" => u \in Busy(c)
    BY <2>2, BusyWhere
  <2> QED
    BY <2>1, <2>2, <2>3 DEF Opening, Working
<1> QED
  BY <1>2, <1>3, <1>4

LEMMA Going ==
  ASSUME Typed, NEW t \in Tasks, NEW pc \in Places \ {"idle"}, Goes(t, pc), task[t].pc # "idle"
  PROVE  /\ task' \in [Tasks -> [pc : Places, chat : Chats \cup {"none"}]]
         /\ \A u \in Tasks : task'[u] = Idle \/ (task'[u].pc # "idle" /\ task'[u].chat \in Chats)
         /\ task'[t].pc = pc /\ task'[t].chat = task[t].chat
         /\ \A u \in Tasks : u # t => task'[u] = task[u]
<1>1. task' = [task EXCEPT ![t] = [task[t] EXCEPT !.pc = pc]]
  BY DEF Goes, Typed
<1>2. task[t] \in [pc : Places, chat : Chats \cup {"none"}] /\ task[t].chat \in Chats
  BY BusyWhere DEF Typed
<1> DEFINE rec == [task[t] EXCEPT !.pc = pc]
<1>3. rec \in [pc : Places, chat : Chats \cup {"none"}] /\ rec.pc = pc /\ rec.chat = task[t].chat
  BY <1>2
<1> HIDE DEF rec
<1>4. task' = [task EXCEPT ![t] = rec]
  BY <1>1 DEF rec
<1> QED
  BY <1>2, <1>3, <1>4 DEF Typed

LEMMA Returning ==
  ASSUME Typed, NEW t \in Tasks, NEW next \in {"end", "reason", "proof"}, Returns(t, next),
         task[t].pc # "idle"
  PROVE  /\ task' \in [Tasks -> [pc : Places, chat : Chats \cup {"none"}]]
         /\ \A u \in Tasks : task'[u] = Idle \/ (task'[u].pc # "idle" /\ task'[u].chat \in Chats)
         /\ task'[t] = Idle
         /\ \A u \in Tasks : u # t => task'[u] = task[u]
         /\ conv' \in [Chats -> {"end", "reason", "proof"}]
         /\ task[t].chat \in Chats /\ conv'[task[t].chat] = next
         /\ \A c \in Chats : c # task[t].chat => conv'[c] = conv[c]
<1>1. task' = [task EXCEPT ![t] = Idle] /\ conv' = [conv EXCEPT ![task[t].chat] = next]
  BY DEF Returns
<1>2. task[t].chat \in Chats
  BY BusyWhere
<1>3. Idle \in [pc : Places, chat : Chats \cup {"none"}]
  BY DEF Idle, Places
<1> QED
  BY <1>1, <1>2, <1>3 DEF Typed

LEMMA Length ==
  ASSUME Typed
  PROVE  \E n \in 0..MaxEntries : /\ entered \in [1..n -> Chats] /\ DOMAIN entered = 1..n
                                  /\ Cardinality(DOMAIN entered) = n
<1> PICK n \in 0..MaxEntries : entered \in [1..n -> Chats]
  BY DEF Typed
<1>1. n \in Nat /\ DOMAIN entered = 1..n
  BY IdleFacts
<1>2. Cardinality(1..n) = n
  BY <1>1, FS_Interval
<1> QED
  BY <1>1, <1>2

LEMMA EntersStep ==
  ASSUME IInv, NEW t \in Tasks, NEW c \in Chats, Enters(t, c)
  PROVE  IInv'
<1> PICK n \in 0..MaxEntries : /\ entered \in [1..n -> Chats] /\ DOMAIN entered = 1..n
                               /\ Cardinality(DOMAIN entered) = n
  BY Length DEF IInv
<1>1. n \in Nat /\ n < MaxEntries
  BY IdleFacts DEF Enters
<1> DEFINE e == n + 1
<1>2. /\ entered' = [i \in 1..e |-> IF i = e THEN c ELSE entered[i]]
      /\ data' = e /\ conv[c] = "end" /\ Starts(t, c, "prompt")
      /\ UNCHANGED <<conv, executing, items, ran, cancelled>>
  BY DEF Enters
<1>3. /\ e \in 0..MaxEntries /\ entered' \in [1..e -> Chats] /\ DOMAIN entered' = 1..e
      /\ entered'[e] = c /\ e \in DOMAIN entered' /\ e \notin DOMAIN entered
      /\ DOMAIN entered \subseteq DOMAIN entered'
  BY <1>1, <1>2, IdleFacts
<1> HIDE DEF e
<1>4. Typed /\ Cleared /\ Flagged /\ Unmixed
  BY DEF IInv
<1>5. /\ task' \in [Tasks -> [pc : Places, chat : Chats \cup {"none"}]]
      /\ \A u \in Tasks : task'[u] = Idle \/ (task'[u].pc # "idle" /\ task'[u].chat \in Chats)
      /\ task[t].pc = "idle" /\ task'[t].pc = "prompt" /\ task'[t].chat = c
      /\ \A u \in Tasks : u # t => task'[u] = task[u]
      /\ mixed' \in BOOLEAN
      /\ ~mixed' => /\ ~mixed \/ Clean
                    /\ \A d \in Open : d = c
                    /\ Working = {}
  BY <1>2, <1>4, Starting DEF Places
<1>6. Typed'
  BY <1>2, <1>3, <1>4, <1>5 DEF Typed
<1>7. Cleared'
  BY <1>2, <1>3, <1>4 DEF Typed, Cleared
<1>8. Flagged'
  <2> SUFFICES ASSUME executing PROVE At({"confirm", "execute"})' # {}
    BY <1>2 DEF Flagged
  <2> PICK u \in Tasks : task[u].pc \in {"confirm", "execute"}
    BY <1>4 DEF Flagged, At
  <2> QED
    BY <1>5 DEF At
<1>9. Unmixed'
  <2> SUFFICES ASSUME ~mixed' PROVE Unmixed'
    BY DEF Unmixed
  <2>1. \A u \in Tasks : u # t => task'[u].pc = "idle" /\ task'[u] = Idle
    BY <1>4, <1>5, BusyWhere DEF Working
  <2>2. \A u \in Tasks : task[u] = Idle
    BY <1>4, <1>5, BusyWhere DEF Working
  <2>3. \A d \in Chats : Busy(d) = {}
    BY <2>2, IdleFacts DEF Busy
  <2>4. \A d \in Chats : conv[d] = "end"
    BY <1>2, <1>5, <2>3 DEF Open
  <2>5. Open = {}
    BY <2>3, <2>4 DEF Open
  <2>6. items \subseteq {NoEntry}
    BY <1>4, <1>5, <2>5 DEF Unmixed, Clean
  <2>7. \A d \in Open' : d = c
    BY <1>2, <1>5, <2>1, <2>4, IdleFacts DEF Open, Busy
  <2>8. \A u \in Opening' : u = t /\ \A v \in Working' : v = u
    BY <1>5, <2>1 DEF Opening, Working
  <2>9. Has(c)' /\ Busy(c)' # {} /\ task'[t].chat = c
    BY <1>2, <1>3, <1>5, IdleFacts, <1>1 DEF Has, Busy, e
  <2>10. At({"return", "execute", "tell"})' = {}
    BY <1>5, <2>1 DEF At
  <2>11. Open' # {}
    BY <2>9 DEF Open
  <2> QED
    BY <1>2, <2>4, <2>6, <2>7, <2>8, <2>9, <2>10, <2>11 DEF Unmixed
<1> QED
  BY <1>6, <1>7, <1>8, <1>9 DEF IInv

(* A callback that may leave the chat open is alone in it.                 *)
LEMMA Alone ==
  ASSUME Typed, Unmixed, ~mixed, NEW t \in Opening
  PROVE  /\ t \in Tasks /\ task[t].chat \in Chats /\ Has(task[t].chat)
         /\ \A u \in Tasks : u # t => task[u] = Idle
         /\ \A c \in Chats : c # task[t].chat => conv[c] = "end"
         /\ \A c \in Open : c = task[t].chat
<1>1. t \in Tasks /\ task[t].pc # "idle"
  BY DEF Opening
<1>2. task[t].chat \in Open /\ task[t].chat \in Chats
  BY <1>1, BusyWhere
<1>3. \A u \in Tasks : u # t => task[u] = Idle
  BY BusyWhere DEF Unmixed, Working
<1>4. \A c \in Open : c = task[t].chat
  BY <1>2 DEF Unmixed
<1>5. \A c \in Chats : conv[c] # "end" => c \in Open
  BY DEF Open
<1> QED
  BY <1>1, <1>2, <1>3, <1>4, <1>5 DEF Unmixed

(* After a lone callback has returned, all others are idle.                *)
LEMMA AloneReturns ==
  ASSUME IInv, NEW t \in Opening, NEW next \in {"end", "reason", "proof"}, Returns(t, next),
         UNCHANGED <<entered, mixed>>,
         data' \in {data, NoEntry}, items' \in {items, {}}, executing' \in {executing, FALSE},
         next # "end" => data' = data,
         mixed \/ (next = "end" => items' \subseteq {NoEntry}),
         UNCHANGED <<ran, cancelled>>
  PROVE  IInv'
<1>1. Typed /\ Cleared /\ Flagged /\ Unmixed /\ t \in Tasks /\ task[t].pc # "idle"
      /\ task[t].pc \in {"prompt", "noted", "done"}
  BY DEF IInv, Opening
<1>2. /\ task' \in [Tasks -> [pc : Places, chat : Chats \cup {"none"}]]
      /\ \A u \in Tasks : task'[u] = Idle \/ (task'[u].pc # "idle" /\ task'[u].chat \in Chats)
      /\ task'[t] = Idle
      /\ \A u \in Tasks : u # t => task'[u] = task[u]
      /\ conv' \in [Chats -> {"end", "reason", "proof"}]
      /\ task[t].chat \in Chats /\ conv'[task[t].chat] = next
      /\ \A c \in Chats : c # task[t].chat => conv'[c] = conv[c]
  BY <1>1, Returning
<1>3. Typed'
  BY <1>1, <1>2 DEF Typed
<1>4. Cleared'
  <2>1. NoEntry \notin cancelled
    BY <1>1, Length, IdleFacts DEF Typed
  <2> QED
    BY <1>1, <2>1 DEF Cleared
<1>5. Flagged'
  <2> SUFFICES ASSUME executing PROVE At({"confirm", "execute"})' # {}
    BY DEF Flagged
  <2> PICK u \in Tasks : task[u].pc \in {"confirm", "execute"}
    BY <1>1 DEF Flagged, At
  <2> QED
    BY <1>1, <1>2 DEF At
<1>6. Unmixed'
  <2> SUFFICES ASSUME ~mixed PROVE Unmixed'
    BY DEF Unmixed
  <2> DEFINE c == task[t].chat
  <2>1. /\ Has(c) /\ \A u \in Tasks : u # t => task[u] = Idle
        /\ \A d \in Chats : d # c => conv[d] = "end"
    BY <1>1, Alone
  <2>2. \A u \in Tasks : task'[u] = Idle
    BY <1>2, <2>1
  <2>3. \A d \in Chats : Busy(d)' = {}
    BY <2>2, IdleFacts DEF Busy
  <2>4. \A pcs : "idle" \notin pcs => At(pcs)' = {}
    BY <2>2, IdleFacts DEF At
  <2>5. Opening' = {} /\ At({"prompt"})' = {} /\ At({"return", "execute", "tell"})' = {}
    BY <2>2, IdleFacts DEF Opening, At
  <2>6. \A d \in Open' : d = c /\ next # "end"
    BY <1>2, <2>1, <2>3 DEF Open
  <2>7. c \in Open' \/ next = "end"
    BY <1>2 DEF Open
  <2>8. \A d \in Chats : conv'[d] # "end" => Has(d)'
    BY <1>2, <2>1 DEF Has
  <2>9. items' \subseteq {data', NoEntry}
    <3>1. items \subseteq {data, NoEntry}
      BY <1>1 DEF Unmixed
    <3>2. CASE next = "end"
      BY <3>2
    <3>3. CASE next # "end"
      BY <3>1, <3>3
    <3> QED
      BY <3>2, <3>3
  <2>10. Open' = {} => items' \subseteq {NoEntry}
    BY <2>7
  <2> QED
    BY <2>5, <2>6, <2>8, <2>9, <2>10 DEF Unmixed
<1> QED
  BY <1>3, <1>4, <1>5, <1>6 DEF IInv

LEMMA PromptsStep ==
  ASSUME IInv, NEW t \in Tasks, Prompts(t)
  PROVE  IInv'
<1>1. task[t].pc = "prompt" /\ UNCHANGED <<executing, items, entered, ran, cancelled, mixed>>
  BY DEF Prompts
<1>2. t \in Opening
  BY <1>1 DEF Opening
<1>3. mixed \/ items \subseteq {NoEntry}
  BY <1>1 DEF IInv, Unmixed, At
<1>4. ASSUME NEW next \in {"end", "reason", "proof"}, Returns(t, next),
             (next # "end" /\ UNCHANGED data) \/ (next = "end" /\ data' = NoEntry)
      PROVE  IInv'
  BY <1>1, <1>2, <1>3, <1>4, AloneReturns
<1> QED
  BY <1>4 DEF Prompts

LEMMA NotedStep ==
  ASSUME IInv, NEW t \in Tasks, Noted(t)
  PROVE  IInv'
<1>1. t \in Opening /\ UNCHANGED <<entered, ran, cancelled, mixed>>
  BY DEF Noted, Opening
<1>2. CASE Returns(t, "proof") /\ UNCHANGED keys
  BY <1>1, <1>2, AloneReturns DEF keys
<1>3. CASE Returns(t, "end") /\ Clear
  BY <1>1, <1>3, AloneReturns DEF Clear
<1> QED
  BY <1>2, <1>3 DEF Noted

(* What starting a callback leaves as it was.                              *)
LEMMA FlagKept ==
  ASSUME Flagged, NEW t \in Tasks, \A u \in Tasks : u # t => task'[u] = task[u],
         task[t].pc \notin {"confirm", "execute"} \/ task'[t].pc \in {"confirm", "execute"},
         executing' => executing
  PROVE  Flagged'
<1> SUFFICES ASSUME executing PROVE At({"confirm", "execute"})' # {}
  BY DEF Flagged
<1> PICK u \in Tasks : task[u].pc \in {"confirm", "execute"}
  BY DEF Flagged, At
<1> QED
  BY DEF At

LEMMA NoneCleared ==
  ASSUME Typed
  PROVE  NoEntry \notin cancelled /\ DOMAIN entered \subseteq Entries
  BY Length, IdleFacts DEF Typed, Entries

(* The first step of a reason, or of a Done, with its conversation alone.  *)
LEMMA OpeningStep ==
  ASSUME IInv, NEW t \in Tasks, NEW c \in Chats, NEW pc \in {"noted", "done"},
         conv[c] # "end", Starts(t, c, pc), UNCHANGED <<conv, keys, entered, ran, cancelled>>
  PROVE  IInv'
<1>1. Typed /\ Cleared /\ Flagged /\ Unmixed
  BY DEF IInv
<1>2. pc \in Places \ {"idle"} /\ pc \in {"prompt", "noted", "done"}
  BY DEF Places
<1>3. UNCHANGED <<data, executing, items>>
  BY DEF keys
<1>4. /\ task' \in [Tasks -> [pc : Places, chat : Chats \cup {"none"}]]
      /\ \A u \in Tasks : task'[u] = Idle \/ (task'[u].pc # "idle" /\ task'[u].chat \in Chats)
      /\ task[t].pc = "idle" /\ task'[t].pc = pc /\ task'[t].chat = c
      /\ \A u \in Tasks : u # t => task'[u] = task[u]
      /\ mixed' \in BOOLEAN
      /\ ~mixed' => /\ ~mixed \/ Clean
                    /\ \A d \in Open : d = c
                    /\ Working = {}
  BY <1>1, <1>2, Starting
<1>5. Typed'
  BY <1>1, <1>3, <1>4 DEF Typed
<1>6. Cleared'
  BY <1>1, <1>3 DEF Cleared
<1>7. Flagged'
  BY <1>1, <1>3, <1>4, FlagKept
<1>8. Unmixed'
  <2> SUFFICES ASSUME ~mixed' PROVE Unmixed'
    BY DEF Unmixed
  <2>1. c \in Open
    BY DEF Open
  <2>2. ~mixed
    BY <1>4, <2>1 DEF Clean
  <2>3. \A u \in Tasks : task[u] = Idle
    BY <1>1, <1>4, BusyWhere DEF Working
  <2>4. \A d \in Chats : Busy(d) = {}
    BY <2>3, IdleFacts DEF Busy
  <2>5. Has(c)
    BY <1>1, <2>2, <2>4 DEF Unmixed
  <2>6. \A u \in Tasks : u # t => task'[u].pc = "idle" /\ task'[u].chat = "none"
    BY <1>4, <2>3, IdleFacts
  <2>7. \A d \in Open' : d = c
    BY <1>4, <2>6, IdleFacts DEF Open, Busy
  <2>8. \A u \in Opening' : u = t /\ \A v \in Working' : v = u
    BY <2>6 DEF Opening, Working
  <2>9. Has(c)' /\ Busy(c)' # {} /\ c \in Open'
    BY <1>3, <1>4, <2>5 DEF Has, Busy, Open
  <2>10. At({"return", "execute", "tell"})' = {} /\ At({"prompt"})' = {}
    BY <1>2, <1>4, <2>6 DEF At
  <2>11. \A d \in Chats : conv'[d] # "end" => d = c
    BY <2>7 DEF Open
  <2>12. items' \subseteq {data', NoEntry}
    BY <1>1, <1>3, <2>2 DEF Unmixed
  <2> QED
    BY <1>4, <2>7, <2>8, <2>9, <2>10, <2>11, <2>12 DEF Unmixed
<1> QED
  BY <1>5, <1>6, <1>7, <1>8 DEF IInv

(* The first step of a Skip or a Cancel.                                   *)
LEMMA ClosingStep ==
  ASSUME IInv, NEW t \in Tasks, NEW c \in Chats, NEW pc \in {"confirm", "return", "tell"},
         conv[c] # "end", Starts(t, c, pc), UNCHANGED <<conv, entered, ran>>,
         cancelled' \in SUBSET DOMAIN entered,
         executing' \in BOOLEAN,
         \/ /\ UNCHANGED <<data, items, cancelled>> /\ executing'
            /\ pc = IF executing THEN "return" ELSE "confirm"
         \/ data' = NoEntry /\ items' = {} /\ ~executing'
  PROVE  IInv'
<1>1. Typed /\ Cleared /\ Flagged /\ Unmixed
  BY DEF IInv
<1>2. pc \in Places \ {"idle"} /\ pc \notin {"prompt", "noted", "done"}
  BY DEF Places
<1>3. /\ task' \in [Tasks -> [pc : Places, chat : Chats \cup {"none"}]]
      /\ \A u \in Tasks : task'[u] = Idle \/ (task'[u].pc # "idle" /\ task'[u].chat \in Chats)
      /\ task[t].pc = "idle" /\ task'[t].pc = pc /\ task'[t].chat = c
      /\ \A u \in Tasks : u # t => task'[u] = task[u]
      /\ mixed' \in BOOLEAN
      /\ ~mixed' => /\ ~mixed \/ Clean
                    /\ \A d \in Open : d = c
                    /\ Opening = {}
  BY <1>1, <1>2, Starting
<1>4. Typed'
  BY <1>1, <1>3 DEF Typed
<1>5. Cleared'
  <2>1. NoEntry \notin cancelled'
    BY <1>1, NoneCleared, IdleFacts
  <2> QED
    BY <1>1, <2>1 DEF Cleared
<1>6. Flagged'
  <2>1. CASE ~executing'
    BY <2>1 DEF Flagged
  <2>2. CASE executing' /\ executing
    BY <1>1, <1>3, <2>2, FlagKept
  <2>3. CASE executing' /\ ~executing
    BY <1>3, <2>3 DEF Flagged, At
  <2> QED
    BY <2>1, <2>2, <2>3
<1>7. Unmixed'
  <2> SUFFICES ASSUME ~mixed' PROVE Unmixed'
    BY DEF Unmixed
  <2>1. c \in Open
    BY DEF Open
  <2>2. ~mixed /\ \A d \in Open : d = c
    BY <1>3, <2>1 DEF Clean
  <2>3. Opening' = {} /\ At({"prompt"})' = {}
    BY <1>2, <1>3 DEF Opening, At
  <2>4. \A d \in Open' : d = c
    BY <1>3, <2>2 DEF Open, Busy
  <2>5. c \in Open' /\ Busy(c)' # {}
    BY <1>3 DEF Open, Busy
  <2>6. \A d \in Chats : conv'[d] # "end" => d = c
    BY <2>4 DEF Open
  <2>7. items' \subseteq {data', NoEntry}
    BY <1>1, <2>2 DEF Unmixed
  <2>8. data' # NoEntry => At({"confirm"})' # {}
    <3> SUFFICES ASSUME data' # NoEntry PROVE At({"confirm"})' # {}
      OBVIOUS
    <3>1. CASE executing
      <4>1. PICK u \in Tasks : task[u].pc \in {"confirm", "execute"}
        BY <1>1, <3>1 DEF Flagged, At
      <4>2. At({"execute"}) # {} => At({"confirm"}) # {}
        BY <1>1, <2>2 DEF Unmixed, At
      <4>3. PICK v \in Tasks : task[v].pc = "confirm"
        BY <4>1, <4>2 DEF At
      <4> QED
        BY <1>3, <4>3 DEF At
    <3>2. CASE ~executing
      BY <1>3, <3>2 DEF At
    <3> QED
      BY <3>1, <3>2
  <2> QED
    BY <2>3, <2>4, <2>5, <2>6, <2>7, <2>8 DEF Unmixed
<1> QED
  BY <1>4, <1>5, <1>6, <1>7 DEF IInv

LEMMA SkipStep ==
  ASSUME IInv, NEW t \in Tasks, NEW c \in Chats, SkipProof(t, c)
  PROVE  IInv'
<1> DEFINE pc == IF executing THEN "return" ELSE "confirm"
<1>1. pc \in {"confirm", "return", "tell"}
  OBVIOUS
<1>2. /\ conv[c] # "end" /\ executing' = TRUE /\ Starts(t, c, pc)
      /\ UNCHANGED <<conv, data, items, entered, ran, cancelled>>
  BY DEF SkipProof
<1>3. cancelled' \in SUBSET DOMAIN entered
  BY <1>2 DEF IInv, Typed
<1> HIDE DEF pc
<1> QED
  BY <1>1, <1>2, <1>3, ClosingStep DEF pc

LEMMA CancelStep ==
  ASSUME IInv, NEW t \in Tasks, NEW c \in Chats, Cancel(t, c)
  PROVE  IInv'
<1>1. /\ conv[c] # "end" /\ Starts(t, c, "tell")
      /\ data' = NoEntry /\ items' = {} /\ executing' = FALSE
      /\ UNCHANGED <<conv, entered, ran>>
      /\ cancelled' = IF data = NoEntry THEN cancelled ELSE cancelled \cup {data}
  BY DEF Cancel, Clear
<1>2. cancelled' \in SUBSET DOMAIN entered
  BY <1>1 DEF IInv, Typed
<1> QED
  BY <1>1, <1>2, ClosingStep

(* While a callback works that is to close its chat, none may leave it open. *)
LEMMA NoneOpens ==
  ASSUME Typed, Unmixed, ~mixed, NEW t \in Tasks, task[t].pc \notin {"idle", "prompt", "noted", "done"}
  PROVE  /\ Opening = {} /\ task[t].chat \in Open
         /\ \A d \in Open : d = task[t].chat
         /\ \A d \in Chats : conv[d] # "end" => d = task[t].chat
         /\ items \subseteq {data, NoEntry}
<1>1. t \in Working /\ t \notin Opening
  BY DEF Working, Opening
<1>2. Opening = {}
  BY <1>1 DEF Unmixed
<1>3. task[t].chat \in Open
  BY BusyWhere
<1>4. \A d \in Chats : conv[d] # "end" => d \in Open
  BY DEF Open
<1> QED
  BY <1>2, <1>3, <1>4 DEF Unmixed

LEMMA ToldStep ==
  ASSUME IInv, NEW t \in Tasks, Told(t)
  PROVE  IInv'
<1>1. /\ task[t].pc \in {"tell", "return"} /\ Returns(t, "end")
      /\ UNCHANGED <<data, executing, items, entered, ran, cancelled, mixed>>
  BY DEF Told, keys
<1>2. Typed /\ Cleared /\ Flagged /\ Unmixed
  BY DEF IInv
<1>3. /\ task' \in [Tasks -> [pc : Places, chat : Chats \cup {"none"}]]
      /\ \A u \in Tasks : task'[u] = Idle \/ (task'[u].pc # "idle" /\ task'[u].chat \in Chats)
      /\ task'[t] = Idle
      /\ \A u \in Tasks : u # t => task'[u] = task[u]
      /\ conv' \in [Chats -> {"end", "reason", "proof"}]
      /\ task[t].chat \in Chats /\ conv'[task[t].chat] = "end"
      /\ \A c \in Chats : c # task[t].chat => conv'[c] = conv[c]
  BY <1>1, <1>2, Returning
<1>4. Typed'
  BY <1>1, <1>2, <1>3 DEF Typed
<1>5. Cleared'
  BY <1>1, <1>2 DEF Cleared
<1>6. Flagged'
  BY <1>1, <1>2, <1>3, FlagKept
<1>7. Unmixed'
  <2> SUFFICES ASSUME ~mixed PROVE Unmixed'
    BY <1>1 DEF Unmixed
  <2>1. /\ Opening = {} /\ \A d \in Open : d = task[t].chat
        /\ \A d \in Chats : conv[d] # "end" => d = task[t].chat
        /\ items \subseteq {data, NoEntry}
    BY <1>1, <1>2, NoneOpens
  <2>2. Opening' = {} /\ At({"prompt"})' = {}
    BY <1>3, <2>1, IdleFacts DEF Opening, At
  <2>3. \A d \in Open' : d \in Open
    BY <1>3, IdleFacts DEF Open, Busy
  <2>4. \A d \in Chats : conv'[d] = "end"
    BY <1>3, <2>1
  <2>5. data # NoEntry => \E u \in Tasks : task'[u].pc = "confirm"
    <3>1. t \in At({"return", "execute", "tell"})
      BY <1>1 DEF At
    <3>2. data # NoEntry => At({"confirm"}) # {}
      BY <1>2, <3>1 DEF Unmixed
    <3> QED
      BY <1>1, <1>3, <3>2 DEF At
  <2>6. data # NoEntry => Open' # {} /\ At({"confirm"})' # {}
    BY <1>3, <1>4, <2>5, IdleFacts DEF At, Open, Busy
  <2>7. data = NoEntry => items \subseteq {NoEntry}
    BY <2>1
  <2> QED
    BY <1>1, <2>1, <2>2, <2>3, <2>4, <2>6, <2>7 DEF Unmixed
<1> QED
  BY <1>4, <1>5, <1>6, <1>7 DEF IInv

LEMMA ExecutedStep ==
  ASSUME IInv, NEW t \in Tasks, Executed(t)
  PROVE  IInv'
<1>1. /\ task[t].pc = "execute" /\ UNCHANGED <<entered, ran, cancelled>>
      /\ data' = NoEntry /\ executing' = FALSE /\ items' = {}
  BY DEF Executed, Clear
<1>2. Typed /\ Cleared /\ Flagged /\ Unmixed
  BY DEF IInv
<1>3. Cleared' /\ Flagged'
  BY <1>1, <1>2, NoneCleared DEF Cleared, Flagged
<1>4. CASE Returns(t, "end") /\ UNCHANGED mixed
  <2>1. /\ task' \in [Tasks -> [pc : Places, chat : Chats \cup {"none"}]]
        /\ \A u \in Tasks : task'[u] = Idle \/ (task'[u].pc # "idle" /\ task'[u].chat \in Chats)
        /\ task'[t] = Idle
        /\ \A u \in Tasks : u # t => task'[u] = task[u]
        /\ conv' \in [Chats -> {"end", "reason", "proof"}]
        /\ task[t].chat \in Chats /\ conv'[task[t].chat] = "end"
        /\ \A c \in Chats : c # task[t].chat => conv'[c] = conv[c]
    BY <1>1, <1>2, <1>4, Returning
  <2>2. Typed'
    BY <1>1, <1>2, <1>4, <2>1 DEF Typed
  <2>3. Unmixed'
    <3> SUFFICES ASSUME ~mixed PROVE Unmixed'
      BY <1>4 DEF Unmixed
    <3>1. /\ Opening = {} /\ \A d \in Open : d = task[t].chat
          /\ \A d \in Chats : conv[d] # "end" => d = task[t].chat
      BY <1>1, <1>2, NoneOpens
    <3>2. Opening' = {}
      BY <2>1, <3>1, IdleFacts DEF Opening
    <3>3. \A d \in Open' : d \in Open
      BY <2>1, IdleFacts DEF Open, Busy
    <3>4. \A d \in Chats : conv'[d] = "end"
      BY <2>1, <3>1
    <3> QED
      BY <1>1, <3>1, <3>2, <3>3, <3>4 DEF Unmixed
  <2> QED
    BY <1>3, <2>2, <2>3 DEF IInv
<1>5. CASE task' = [task EXCEPT ![t] = Idle] /\ mixed' = TRUE /\ UNCHANGED conv
  <2>1. Typed'
    BY <1>1, <1>2, <1>5, IdleFacts DEF Typed, Idle, Places
  <2> QED
    BY <1>3, <1>5, <2>1 DEF IInv, Unmixed
<1> QED
  BY <1>4, <1>5 DEF Executed

(* The executor takes its entry, which nobody has cancelled, with no other *)
(* entry's proof unless conversations overlapped.                          *)
LEMMA Taken ==
  ASSUME IInv, NEW t \in Tasks, Executes(t)
  PROVE  \A r \in ran' \ ran :
            r.entry \notin cancelled /\ (~mixed => r.proof \subseteq {r.entry, NoEntry})
<1>1. /\ task[t].pc = "confirm"
      /\ ran' = IF data = NoEntry THEN ran ELSE {[entry |-> data, proof |-> items]}
  BY DEF Executes
<1>2. ~mixed => items \subseteq {data, NoEntry}
  BY DEF IInv, Unmixed
<1>3. data \notin cancelled
  BY DEF IInv, Cleared
<1>4. \A r \in ran' \ ran : r.entry = data /\ r.proof = items
  BY <1>1
<1> QED
  BY <1>2, <1>3, <1>4

LEMMA ExecutesStep ==
  ASSUME IInv, NEW t \in Tasks, Executes(t)
  PROVE  IInv'
<1>1. /\ task[t].pc = "confirm" /\ data' = NoEntry /\ items' = {}
      /\ executing' \in {executing, FALSE}
      /\ ran' = IF data = NoEntry THEN ran ELSE {[entry |-> data, proof |-> items]}
      /\ Goes(t, "execute") /\ UNCHANGED <<conv, entered, cancelled, mixed>>
  BY DEF Executes
<1>2. Typed /\ Cleared /\ Flagged /\ Unmixed
  BY DEF IInv
<1>3. /\ task' \in [Tasks -> [pc : Places, chat : Chats \cup {"none"}]]
      /\ \A u \in Tasks : task'[u] = Idle \/ (task'[u].pc # "idle" /\ task'[u].chat \in Chats)
      /\ task'[t].pc = "execute" /\ task'[t].chat = task[t].chat
      /\ \A u \in Tasks : u # t => task'[u] = task[u]
  BY <1>1, <1>2, Going DEF Places
<1>4. Typed'
  <2>1. ran' \in SUBSET [entry : DOMAIN entered, proof : SUBSET (Entries \cup {NoEntry})]
    BY <1>1, <1>2 DEF Typed
  <2>2. executing' \in BOOLEAN
    BY <1>1, <1>2 DEF Typed
  <2> QED
    BY <1>1, <1>2, <1>3, <2>1, <2>2 DEF Typed
<1>5. Cleared'
  BY <1>1, <1>2, NoneCleared DEF Cleared
<1>6. Flagged'
  <2>1. executing' => executing
    BY <1>1
  <2>2. task[t].pc \notin {"confirm", "execute"} \/ task'[t].pc \in {"confirm", "execute"}
    BY <1>3
  <2> QED
    BY <1>2, <1>3, <2>1, <2>2, FlagKept
<1>7. Unmixed'
  <2> SUFFICES ASSUME ~mixed PROVE Unmixed'
    BY <1>1 DEF Unmixed
  <2>1. /\ Opening = {} /\ \A d \in Open : d = task[t].chat
        /\ \A d \in Chats : conv[d] # "end" => d = task[t].chat
    BY <1>1, <1>2, NoneOpens
  <2>2. Opening' = {}
    BY <1>3, <2>1 DEF Opening
  <2>3. \A d \in Open' : d \in Open
    BY <1>1, <1>3 DEF Open, Busy
  <2>4. \A d \in Chats : conv'[d] # "end" => Busy(d)' # {}
    BY <1>1, <1>3, <2>1 DEF Busy
  <2>5. \A d, f \in Open' : d = f
    BY <2>1, <2>3
  <2> QED
    BY <1>1, <2>2, <2>4, <2>5 DEF Unmixed
<1> QED
  BY <1>4, <1>5, <1>6, <1>7 DEF IInv

LEMMA ConfirmsStep ==
  ASSUME IInv, NEW t \in Tasks, Confirms(t)
  PROVE  IInv'
<1>1. task[t].pc = "done" /\ t \in Opening
      /\ UNCHANGED <<data, items, entered, ran, cancelled, mixed>>
  BY DEF Confirms, Opening
<1>2. Typed /\ Cleared /\ Flagged /\ Unmixed
  BY DEF IInv
<1>3. CASE Returns(t, "proof") /\ UNCHANGED executing
  BY <1>1, <1>3, AloneReturns
<1>4. CASE executing' = TRUE /\ Goes(t, IF executing THEN "return" ELSE "confirm") /\ UNCHANGED conv
  <2> DEFINE pc == IF executing THEN "return" ELSE "confirm"
  <2>1. pc \in Places \ {"idle"} /\ pc \in {"return", "confirm"}
    BY DEF Places
  <2>2. Goes(t, pc)
    BY <1>4
  <2> HIDE DEF pc
  <2>3. /\ task' \in [Tasks -> [pc : Places, chat : Chats \cup {"none"}]]
        /\ \A u \in Tasks : task'[u] = Idle \/ (task'[u].pc # "idle" /\ task'[u].chat \in Chats)
        /\ task'[t].pc = pc /\ task'[t].chat = task[t].chat
        /\ \A u \in Tasks : u # t => task'[u] = task[u]
    BY <1>1, <1>2, <2>1, <2>2, Going
  <2>4. Typed'
    BY <1>1, <1>2, <1>4, <2>3 DEF Typed
  <2>5. Cleared'
    BY <1>1, <1>2 DEF Cleared
  <2>6. Flagged'
    <3>1. CASE executing
      BY <1>1, <1>2, <2>3, <3>1, FlagKept
    <3>2. CASE ~executing
      BY <2>3, <3>2 DEF Flagged, At, pc
    <3> QED
      BY <3>1, <3>2
  <2>7. Unmixed'
    <3> SUFFICES ASSUME ~mixed PROVE Unmixed'
      BY <1>1 DEF Unmixed
    <3> DEFINE c == task[t].chat
    <3>1. /\ c \in Chats /\ \A u \in Tasks : u # t => task[u] = Idle
          /\ \A d \in Chats : d # c => conv[d] = "end"
          /\ \A d \in Open : d = c
      BY <1>1, <1>2, Alone
    <3>2. ~executing /\ pc = "confirm"
      <4>1. At({"confirm", "execute"}) = {}
        BY <1>1, <3>1, IdleFacts DEF At
      <4> QED
        BY <1>2, <4>1 DEF Flagged, pc
    <3>3. Opening' = {} /\ At({"prompt"})' = {} /\ At({"return", "execute", "tell"})' = {}
      BY <2>3, <3>1, <3>2, IdleFacts DEF Opening, At
    <3>4. \A d \in Open' : d \in Open
      BY <1>4, <2>3 DEF Open, Busy
    <3>5. \A d \in Chats : d = c => Busy(d)' # {} /\ d \in Open'
      BY <2>3, <3>1 DEF Busy, Open
    <3>6. items \subseteq {data, NoEntry}
      BY <1>2 DEF Unmixed
    <3>7. \A d \in Chats : conv'[d] # "end" => Busy(d)' # {}
      BY <1>4, <3>1, <3>5
    <3>8. \A d, f \in Open' : d = f
      BY <3>1, <3>4
    <3>9. Open' # {}
      BY <3>1, <3>5
    <3> QED
      BY <1>1, <3>3, <3>6, <3>7, <3>8, <3>9 DEF Unmixed
  <2> QED
    BY <2>4, <2>5, <2>6, <2>7 DEF IInv
<1> QED
  BY <1>1, <1>3, <1>4 DEF Confirms

LEMMA ProofStep ==
  ASSUME IInv, NEW c \in Chats, Proof(c)
  PROVE  IInv'
<1>1. /\ conv[c] = "proof" /\ mixed' = (mixed \/ Mixes(c, FALSE))
      /\ UNCHANGED <<data, executing, entered, task, ran, cancelled>>
      /\ \/ executing /\ conv' = [conv EXCEPT ![c] = "end"] /\ items' = items
         \/ ~executing /\ conv' = conv /\ items' = items \cup {data}
  BY DEF Proof
<1>2. Typed /\ Cleared /\ Flagged /\ Unmixed
  BY DEF IInv
<1>3. Typed'
  <2>1. items' \in SUBSET (Entries \cup {NoEntry})
    BY <1>1, <1>2, NoneCleared DEF Typed
  <2>2. mixed' \in BOOLEAN
    BY <1>1
  <2> QED
    BY <1>1, <1>2, <2>1, <2>2 DEF Typed
<1>4. Cleared'
  BY <1>1, <1>2 DEF Cleared
<1>5. Flagged' /\ \A pcs : At(pcs)' = At(pcs)
  BY <1>1, <1>2 DEF Flagged, At
<1>6. Unmixed'
  <2> SUFFICES ASSUME ~mixed' PROVE Unmixed'
    BY DEF Unmixed
  <2>1. ~mixed /\ ~Mixes(c, FALSE)
    BY <1>1
  <2>2. /\ \A d \in Open : d = c
        /\ \A u \in Busy(c) : task[u].pc \notin {"prompt", "noted", "done"}
    BY <2>1 DEF Mixes
  <2>3. \A u \in Tasks : task[u].pc # "idle" => u \in Busy(c)
    BY <1>2, <2>2, BusyWhere
  <2>4. Opening' = {} /\ At({"prompt"})' = {}
    BY <1>1, <2>2, <2>3 DEF Opening, At
  <2>5. \A d \in Chats : Busy(d)' = Busy(d)
    BY <1>1 DEF Busy
  <2>6. /\ items \subseteq {data, NoEntry}
        /\ \A d \in Chats : conv[d] # "end" /\ Busy(d) = {} => Has(d)
        /\ data # NoEntry /\ At({"return", "execute", "tell"}) # {} => At({"confirm"}) # {}
    BY <1>2, <2>1 DEF Unmixed
  <2>7. \A d \in Chats : conv'[d] # "end" => conv[d] # "end"
    BY <1>1, <1>2 DEF Typed
  <2>8. \A d \in Open' : d \in Open
    BY <2>5, <2>7 DEF Open
  <2>9. items' \subseteq {data', NoEntry}
    BY <1>1, <2>6
  <2>10. Open' = {} => items' \subseteq {NoEntry}
    <3>1. CASE ~executing
      BY <1>1, <3>1 DEF Open
    <3>2. CASE executing
      <4>1. At({"confirm", "execute"}) # {}
        BY <1>2, <3>2 DEF Flagged
      <4>2. PICK u \in Tasks : task[u].pc \in {"confirm", "execute"}
        BY <4>1 DEF At
      <4>3. u \in Busy(c)'
        BY <2>3, <2>5, <4>2
      <4> QED
        BY <4>3 DEF Open
    <3> QED
      BY <3>1, <3>2
  <2>11. \A d \in Chats : conv'[d] # "end" /\ Busy(d)' = {} => Has(d)'
    BY <1>1, <2>5, <2>6, <2>7 DEF Has
  <2> QED
    BY <1>1, <1>5, <2>2, <2>4, <2>6, <2>8, <2>9, <2>10, <2>11 DEF Unmixed
<1> QED
  BY <1>3, <1>4, <1>5, <1>6 DEF IInv

LEMMA Quiet ==
  ASSUME \A c \in Chats : conv[c] = "end", \A t \in Tasks : task[t] = Idle, items = {}, ~executing
  PROVE  Flagged /\ Unmixed
<1>1. Open = {} /\ Opening = {}
  BY IdleFacts DEF Open, Busy, Opening
<1>2. At({"prompt"}) = {} /\ At({"return", "execute", "tell"}) = {}
  BY IdleFacts DEF At
<1> QED
  BY <1>1, <1>2 DEF Flagged, Unmixed

LEMMA RestartStep ==
  ASSUME IInv, Restart
  PROVE  IInv'
<1>1. /\ conv' = [c \in Chats |-> "end"] /\ task' = [t \in Tasks |-> Idle]
      /\ data' = NoEntry /\ executing' = FALSE /\ items' = {}
      /\ UNCHANGED <<entered, ran, cancelled, mixed>>
  BY DEF Restart, Clear
<1>2. Typed'
  BY <1>1, IdleFacts DEF IInv, Typed, Idle, Places
<1>3. Cleared'
  BY <1>1, NoneCleared DEF IInv, Cleared
<1>4. Flagged' /\ Unmixed'
  <2>1. Open' = {} /\ Opening' = {}
    BY <1>1, IdleFacts DEF Open, Busy, Opening
  <2>2. At({"prompt"})' = {} /\ At({"return", "execute", "tell"})' = {}
    BY <1>1, IdleFacts DEF At
  <2> QED
    BY <1>1, <2>1, <2>2 DEF Flagged, Unmixed
<1> QED
  BY <1>2, <1>3, <1>4 DEF IInv

LEMMA Initially == Init => IInv
<1> SUFFICES ASSUME Init PROVE IInv
  OBVIOUS
<1>1. entered = <<>> /\ DOMAIN entered = {} /\ 0 \in 0..MaxEntries /\ entered \in [1..0 -> Chats]
  BY IdleFacts DEF Init
<1>2. Typed
  BY <1>1, IdleFacts DEF Init, Typed, Idle, Places
<1>3. Cleared
  BY DEF Init, Cleared
<1>4. Flagged /\ Unmixed
  BY Quiet DEF Init
<1> QED
  BY <1>2, <1>3, <1>4 DEF IInv

LEMMA Inductive == IInv /\ [Next]_vars => IInv'
<1> SUFFICES ASSUME IInv, [Next]_vars PROVE IInv'
  OBVIOUS
<1>1. ASSUME NEW t \in Tasks, NEW c \in Chats,
             Enters(t, c) \/ Reason(t, c) \/ Done(t, c) \/ SkipProof(t, c) \/ Cancel(t, c)
      PROVE  IInv'
  <2>1. CASE Enters(t, c)
    BY <2>1, EntersStep
  <2>2. CASE Reason(t, c)
    BY <2>2, OpeningStep DEF Reason
  <2>3. CASE Done(t, c)
    BY <2>3, OpeningStep DEF Done
  <2>4. CASE SkipProof(t, c)
    BY <2>4, SkipStep
  <2>5. CASE Cancel(t, c)
    BY <2>5, CancelStep
  <2> QED
    BY <1>1, <2>1, <2>2, <2>3, <2>4, <2>5
<1>2. ASSUME NEW t \in Tasks,
             \/ Prompts(t) \/ Noted(t) \/ Confirms(t)
             \/ Executes(t) \/ Executed(t) \/ Told(t)
      PROVE  IInv'
  BY <1>2, PromptsStep, NotedStep, ConfirmsStep, ExecutesStep, ExecutedStep, ToldStep
<1>3. ASSUME NEW c \in Chats, Proof(c) PROVE IInv'
  BY <1>3, ProofStep
<1>4. CASE Restart
  BY <1>4, RestartStep
<1>5. CASE UNCHANGED vars
  <2>1. UNCHANGED <<conv, data, executing, items, entered, task, ran, cancelled, mixed>>
    BY <1>5 DEF vars, keys
  <2> QED
    BY <2>1 DEF IInv, Typed, Cleared, Flagged, Unmixed, Open, Opening, Working, At, Has, Busy
<1> QED
  BY <1>1, <1>2, <1>3, <1>4, <1>5 DEF Next

LEMMA Holds == Spec => []IInv
  BY Initially, Inductive, PTL DEF Spec

(* Only the executor hands on an entry, and it hands on what it took.      *)
LEMMA Handed ==
  IInv /\ [Next]_vars =>
     \A r \in ran' \ ran :
        r.entry \notin cancelled /\ (~mixed => r.proof \subseteq {r.entry, NoEntry})
<1> SUFFICES ASSUME IInv, [Next]_vars, ran' # ran
             PROVE  \A r \in ran' \ ran :
                       r.entry \notin cancelled /\ (~mixed => r.proof \subseteq {r.entry, NoEntry})
  OBVIOUS
<1>1. \E t \in Tasks : Executes(t)
  BY DEF Next, vars, Enters, Reason, Done, SkipProof, Cancel, Prompts, Noted, Confirms,
         Executed, Told, Proof, Restart
<1> QED
  BY <1>1, Taken

-----------------------------------------------------------------------------
(* The conversation, what it keeps and what it has done keep their types.  *)
THEOREM TypeCorrect == Spec => []TypeOK
<1>1. IInv => TypeOK
  <2> SUFFICES ASSUME IInv PROVE TypeOK
    OBVIOUS
  <2>1. DOMAIN entered \subseteq Entries
    BY NoneCleared DEF IInv
  <2> QED
    BY <2>1 DEF IInv, Typed, TypeOK, Places
<1> QED
  BY <1>1, Holds, PTL

(* Whatever a Cancel or a command took away is never executed, whichever   *)
(* way it races a Done or a Skip.                                          *)
THEOREM CancelsHold == Spec => CancelHolds
<1>1. IInv /\ [Next]_vars => [\A r \in ran' \ ran : r.entry \notin cancelled]_vars
  BY Handed
<1> QED
  BY <1>1, Holds, PTL DEF Spec, CancelHolds

(* What is executed comes with no proof that was sent for another entry,   *)
(* unless conversations overlapped: with its own, and with what came when  *)
(* a Cancel had taken the last entry away and had not returned.            *)
THEOREM ProofsMatch == Spec => ProofIsItsOwn
<1>1. IInv /\ [Next]_vars =>
         [\A r \in ran' \ ran : ~mixed => r.proof \subseteq {r.entry, NoEntry}]_vars
  BY Handed
<1> QED
  BY <1>1, Holds, PTL DEF Spec, ProofIsItsOwn

(* A chat that waits has its entry in user_data, unless callbacks          *)
(* overlapped or an executor raised.                                       *)
THEOREM DataIsThere == Spec => []ConversationHasItsData
<1>1. IInv => ConversationHasItsData
  BY DEF IInv, Unmixed, Has, ConversationHasItsData
<1> QED
  BY <1>1, Holds, PTL
-----------------------------------------------------------------------------
(* The mute of one user (Mute.tla), which this conversation starts: the    *)
(* two modules share no variable, each is proved by itself.                *)

(* What the proofs use of the assumptions on the constants.                *)
Named ==
    /\ Primary \cap Groups = {}
    /\ "none" \notin Untils /\ "forever" \notin Mutes
    /\ "joined" \notin Untils /\ "idle" \notin Untils /\ "unread" \notin Untils

LEMMA NamedHolds == Named
  BY MuteAssumption DEF Named, Untils

MuteRecords ==
    {r \in [pc : {"unsent", "listed", "set", "fanout", "ended"},
            until : Untils \cup {"none"}, groups : SUBSET Groups, todo : SUBSET AllChats] :
       /\ r.pc \notin {"unsent", "ended"} => r.until \in Untils
       /\ r.todo # {} => r.pc = "fanout"}
UnmuteRecords ==
    {r \in [pc : {"unsent", "holding", "fanout", "ended"},
            todo : SUBSET AllChats, left : SUBSET AllChats] :
       r.todo # {} => r.pc = "fanout"}
ConnectRecords ==
    {r \in [answer : Untils \cup {"idle", "unread", "none"}, added : BOOLEAN] :
       r.added => r.answer # "idle"}

RowTypes ==
    /\ Named
    /\ row \in Untils \cup {"none"} /\ past \subseteq Mutes
    /\ listed \subseteq Groups /\ inside \subseteq AllChats
    /\ missed \subseteq AllChats /\ raced \in BOOLEAN
ChatTypes ==
    /\ quiet \in [AllChats -> Untils \cup {"none"}]
    /\ stuck \subseteq AllChats /\ outlived \subseteq AllChats
    /\ unmute \in [Unmutes -> UnmuteRecords]
RunTypes ==
    /\ mute \in [Mutes -> MuteRecords]
    /\ join \in [AllChats -> Untils \cup {"none", "joined"}]
    /\ connect \in [Groups -> ConnectRecords]
MuteTypes == RowTypes /\ ChatTypes /\ RunTypes

\* A run that has written the row and what it has yet to do for a chat.
Acting(m) == mute[m].pc \in {"set", "fanout"}
Pending(m, c) ==
    \/ mute[m].pc = "set" /\ c \in Primary \cup mute[m].groups
    \/ mute[m].pc = "fanout" /\ c \in mute[m].todo

(* A run's own deadline does not pass before the run has written it.       *)
Unwritten == \A m \in Mutes :
    /\ mute[m].pc \in {"unsent", "listed"} => m \notin past
    /\ mute[m].pc = "listed" => mute[m].until \in {m, "forever"}

(* An unmute knows every restricted chat it will not have freed.           *)
LeftKnown == \A u \in Unmutes :
    unmute[u].pc = "fanout" => QuietChats \subseteq unmute[u].todo \cup unmute[u].left

(* Unless the row was changed under somebody, whoever acts acts on the row. *)
ActsOnRow == ~raced =>
    /\ \A m \in Mutes : Acting(m) => mute[m].until = row
    /\ \A c \in AllChats : join[c] \in Untils => join[c] = row
    /\ \A g \in Groups : connect[g].answer \in Untils => connect[g].answer = row

\* Nobody is to look at the chat any more; a connect has nothing to replay.
Calm(c) ==
    /\ InFederation(c) /\ c \in inside \ outlived /\ join[c] = "none"
    /\ c \in Groups => \/ connect[c] = NoConnect
                       \/ connect[c].added /\ connect[c].answer = "none"

Settled(c) ==
    \/ quiet[c] = Found
    \/ c \in missed
    \/ \E m \in Mutes : Pending(m, c)
    \/ quiet[c] = "none" /\ UnmutesActing # {}

(* A chat that nobody will look at is restricted as the row says, or has a *)
(* run that will see to it.                                                *)
CalmIsSettled == Found # "none" /\ ~raced => \A c \in AllChats : Calm(c) => Settled(c)

MuteInv == Unwritten /\ LeftKnown /\ ActsOnRow /\ RecordBacksMutes /\ CalmIsSettled

MuteIInv == MuteTypes /\ MuteInv

-----------------------------------------------------------------------------
(* Types, and what the steps do to one run or one chat. *)

LEMMA TypesSuffice == MuteTypes => MuteTypeOK
  BY DEF MuteTypes, RowTypes, ChatTypes, RunTypes, MuteTypeOK, MuteRecords, UnmuteRecords,
         ConnectRecords

LEMMA Constants ==
  /\ Unsent \in MuteRecords /\ Unsent.pc = "unsent" /\ Unsent.until = "none" /\ Unsent.todo = {}
  /\ Ended \in MuteRecords /\ Ended.pc = "ended" /\ Ended.until = "none" /\ Ended.todo = {}
  /\ UnsentUnmute \in UnmuteRecords /\ UnsentUnmute.pc = "unsent"
  /\ EndedUnmute \in UnmuteRecords /\ EndedUnmute.pc = "ended"
  /\ NoConnect \in ConnectRecords /\ NoConnect.answer = "idle" /\ ~NoConnect.added
  BY DEF Unsent, Ended, UnsentUnmute, EndedUnmute, NoConnect, MuteRecords,
         UnmuteRecords,
         ConnectRecords

LEMMA TypesInit == Named /\ MuteInit => MuteTypes
<1> SUFFICES ASSUME Named, MuteInit PROVE MuteTypes
  OBVIOUS
<1>1. RowTypes
  BY DEF MuteInit, RowTypes
<1>2. ChatTypes /\ RunTypes
  BY Constants DEF MuteInit, ChatTypes, RunTypes
<1> QED
  BY <1>1, <1>2 DEF MuteTypes

LEMMA FoundType ==
  ASSUME MuteTypes
  PROVE  /\ Found \in {"none", row}
         /\ Found # "none" => row \notin past /\ row \in Untils
  BY DEF MuteTypes, RowTypes, Found

(* A restriction that lands, or one that does not.                         *)
Lands(c, until) ==
    /\ \A d \in AllChats : d # c => quiet'[d] = quiet[d]
    /\ until \in past => quiet'[c] = "forever" /\ outlived' = outlived \cup {c}
    /\ until \notin past => quiet'[c] = until /\ outlived' = outlived \ {c}
    /\ missed' = missed \ {c} /\ stuck' = stuck \ {c}
    /\ \A u \in Unmutes : /\ unmute'[u].pc = unmute[u].pc /\ unmute'[u].todo = unmute[u].todo
                          /\ unmute[u].left \subseteq unmute'[u].left
                          /\ u \in UnmutesActing => c \in unmute'[u].left

Misses(c) == missed' = missed \cup ({c} \cap inside) /\ UNCHANGED <<quiet, unmute, stuck, outlived>>

LEMMA RestrictSplits ==
  ASSUME MuteTypes, NEW c \in AllChats, NEW until \in Untils, Restricts(c, until)
  PROVE  /\ ChatTypes' /\ missed' \subseteq AllChats
         /\ Lands(c, until) \/ Misses(c)
<1>1. CASE Misses(c)
  BY <1>1 DEF MuteTypes, RowTypes, ChatTypes, Misses
<1>2. CASE /\ quiet' = [quiet EXCEPT ![c] = IF until \in past THEN "forever" ELSE until]
           /\ outlived' = IF until \in past THEN outlived \cup {c} ELSE outlived \ {c}
           /\ missed' = missed \ {c} /\ stuck' = stuck \ {c} /\ Touches(c)
  <2> DEFINE rec(u) == IF u \in UnmutesActing THEN [unmute[u] EXCEPT !.left = unmute[u].left \cup {c}]
                                              ELSE unmute[u]
  <2>1. quiet' \in [AllChats -> Untils \cup {"none"}]
    BY <1>2 DEF MuteTypes, ChatTypes, Untils
  <2>2. unmute' = [u \in Unmutes |-> rec(u)]
    BY <1>2 DEF Touches
  <2>3. ASSUME NEW u \in Unmutes
        PROVE  /\ rec(u) \in UnmuteRecords /\ rec(u).pc = unmute[u].pc /\ rec(u).todo = unmute[u].todo
               /\ unmute[u].left \subseteq rec(u).left /\ (u \in UnmutesActing => c \in rec(u).left)
    <3>1. unmute[u] \in UnmuteRecords
      BY DEF MuteTypes, ChatTypes
    <3> QED
      BY <3>1 DEF UnmuteRecords
  <2> HIDE DEF rec
  <2>4. unmute' \in [Unmutes -> UnmuteRecords] /\ \A u \in Unmutes : unmute'[u] = rec(u)
    BY <2>2, <2>3
  <2>5. ChatTypes' /\ missed' \subseteq AllChats
    BY <1>2, <2>1, <2>4 DEF MuteTypes, RowTypes, ChatTypes
  <2>6. /\ \A d \in AllChats : d # c => quiet'[d] = quiet[d]
        /\ until \in past => quiet'[c] = "forever" /\ outlived' = outlived \cup {c}
        /\ until \notin past => quiet'[c] = until /\ outlived' = outlived \ {c}
    BY <1>2 DEF MuteTypes, ChatTypes
  <2> QED
    BY <1>2, <2>3, <2>4, <2>5, <2>6 DEF Lands
<1> QED
  BY <1>1, <1>2 DEF Restricts, Misses

-----------------------------------------------------------------------------
(* Parts of the invariant that a step leaves alone. *)

LEMMA UnwrittenStays ==
  ASSUME MuteIInv, UNCHANGED <<mute, past>>
  PROVE  Unwritten'
  BY DEF MuteIInv, MuteInv, Unwritten

LEMMA LeftStays ==
  ASSUME MuteIInv, UNCHANGED <<quiet, unmute>>
  PROVE  LeftKnown' /\ QuietChats' = QuietChats /\ UnmutesActing' = UnmutesActing
  BY DEF MuteIInv, MuteInv, LeftKnown, QuietChats, UnmutesActing

LEMMA ActsStays ==
  ASSUME MuteIInv, UNCHANGED <<row, raced, mute, join, connect>>
  PROVE  ActsOnRow'
  BY DEF MuteIInv, MuteInv, ActsOnRow, Acting

LEMMA BackStays ==
  ASSUME MuteIInv, UNCHANGED <<row, past, raced, quiet, stuck, outlived>>
  PROVE  RecordBacksMutes'
  BY DEF MuteIInv, MuteInv, RecordBacksMutes, Found, QuietChats

(* Nothing changes for a chat but that more of it may be missed.           *)
LEMMA CalmStays ==
  ASSUME MuteIInv, UNCHANGED <<row, past, raced>>,
         \A c \in AllChats :
            Found # "none" /\ Calm(c)' => Settled(c)' \/ (Calm(c) /\ (Settled(c) => Settled(c)'))
  PROVE  CalmIsSettled'
  BY DEF MuteIInv, MuteInv, CalmIsSettled, Found

\* The other chats are as they were.
OnlyAt(c) ==
    \A d \in AllChats : d # c =>
        quiet'[d] = quiet[d] /\ (d \in missed => d \in missed') /\ (d \in outlived' <=> d \in outlived)

(* After a restriction: the chat is as the row says, or missed, or empty.  *)
LEMMA RestrictKeeps ==
  ASSUME MuteIInv, NEW c \in AllChats, NEW until \in Untils, Lands(c, until) \/ Misses(c),
         ChatTypes', ~raced => until = row, UNCHANGED <<row, past, inside, raced>>
  PROVE  /\ LeftKnown' /\ RecordBacksMutes' /\ UnmutesActing' = UnmutesActing
         /\ OnlyAt(c)
         /\ Found # "none" /\ ~raced => quiet'[c] = Found \/ c \in missed' \/ c \notin inside
<1>0. MuteTypes /\ LeftKnown /\ RecordBacksMutes
  BY DEF MuteIInv, MuteInv
<1>1. CASE Misses(c)
  <2>1. LeftKnown' /\ UnmutesActing' = UnmutesActing
    BY <1>1, LeftStays DEF Misses
  <2>2. RecordBacksMutes'
    BY <1>1, BackStays DEF Misses
  <2> QED
    BY <1>1, <2>1, <2>2 DEF Misses, OnlyAt
<1>2. CASE Lands(c, until)
  <2>1. UnmutesActing' = UnmutesActing
    BY <1>2 DEF Lands, UnmutesActing
  <2>2. \A d \in AllChats : d # c => (d \in QuietChats' <=> d \in QuietChats)
    BY <1>2 DEF Lands, QuietChats
  <2>3. LeftKnown'
    <3> SUFFICES ASSUME NEW u \in Unmutes, unmute'[u].pc = "fanout", NEW d \in AllChats, d \in QuietChats'
                 PROVE  d \in unmute'[u].todo \cup unmute'[u].left
      BY DEF LeftKnown, QuietChats
    <3>1. unmute[u].pc = "fanout" /\ u \in UnmutesActing
      BY <1>2 DEF Lands, UnmutesActing
    <3>2. CASE d = c
      BY <1>2, <3>1, <3>2 DEF Lands
    <3>3. CASE d # c
      BY <1>0, <1>2, <2>2, <3>1, <3>3 DEF Lands, LeftKnown
    <3> QED
      BY <3>2, <3>3
  <2>4. RecordBacksMutes'
    <3> SUFFICES ASSUME Found' = "none", ~raced, NEW d \in AllChats, d \in QuietChats'
                 PROVE  d \in stuck' \cup outlived'
      BY DEF RecordBacksMutes, QuietChats
    <3>1. CASE d = c
      <4>1. until \in past
        BY <1>0 DEF Found, MuteTypes, RowTypes, Named
      <4> QED
        BY <1>2, <3>1, <4>1 DEF Lands
    <3>2. CASE d # c
      <4>1. d \in stuck \cup outlived
        BY <1>0, <2>2, <3>2 DEF RecordBacksMutes, Found
      <4> QED
        BY <1>2, <3>2, <4>1 DEF Lands
    <3> QED
      BY <3>1, <3>2
  <2>5. Found # "none" /\ ~raced => quiet'[c] = Found
    BY <1>0, <1>2 DEF Lands, Found
  <2> QED
    BY <1>2, <2>1, <2>3, <2>4, <2>5 DEF Lands, OnlyAt
<1> QED
  BY <1>1, <1>2

-----------------------------------------------------------------------------
(* The runs of _execute_mute. *)

MuteMoved(m, rec) ==
    /\ rec \in MuteRecords /\ mute'[m] = rec
    /\ mute' \in [Mutes -> MuteRecords]
    /\ \A n \in Mutes : n # m => mute'[n] = mute[n]

LEMMA MuteMoves ==
  ASSUME MuteTypes, NEW m \in Mutes, NEW rec \in MuteRecords, mute' = [mute EXCEPT ![m] = rec]
  PROVE  MuteMoved(m, rec)
  BY DEF MuteTypes, RunTypes, MuteMoved

\* Whether the row was changed under another handler that acts on it.
AnyOther(m) == MutesActing \ {m} # {} \/ UnmutesActing # {} \/ OthersActing

LEMMA OthersAct == OthersActing \in BOOLEAN
  BY DEF OthersActing

LEMMA MuteReadsKeeps ==
  ASSUME MuteIInv, NEW m \in Mutes, MuteReads(m)
  PROVE  MuteIInv'
<1>0. MuteTypes
  BY DEF MuteIInv
<1>1. PICK until \in {m, "forever"} :
        mute' = [mute EXCEPT ![m] = [Unsent EXCEPT !.pc = "listed", !.until = until, !.groups = listed]]
  BY DEF MuteReads
<1> DEFINE rec == [Unsent EXCEPT !.pc = "listed", !.until = until, !.groups = listed]
<1>2. rec \in MuteRecords /\ rec.pc = "listed" /\ rec.until = until
  BY <1>0 DEF Unsent, MuteRecords, MuteTypes, RowTypes, Untils
<1>3. mute' = [mute EXCEPT ![m] = rec]
  BY <1>1
<1> HIDE DEF rec
<1>4. MuteMoved(m, rec)
  BY <1>0, <1>2, <1>3, MuteMoves
<1>5. /\ mute[m].pc = "unsent"
      /\ UNCHANGED <<row, past, listed, inside, quiet, unmute, join, connect, histories>>
  BY DEF MuteReads
<1>6. MuteTypes'
  BY <1>0, <1>4, <1>5 DEF MuteMoved, MuteTypes, RowTypes, ChatTypes, RunTypes, histories
<1>7. Unwritten'
  BY <1>2, <1>4, <1>5 DEF MuteMoved, MuteIInv, MuteInv, Unwritten
<1>8. LeftKnown' /\ UnmutesActing' = UnmutesActing
  BY <1>5, LeftStays
<1>9. ActsOnRow'
  BY <1>2, <1>4, <1>5 DEF MuteMoved, MuteIInv, MuteInv, ActsOnRow, Acting, histories
<1>10. RecordBacksMutes'
  BY <1>5, BackStays DEF histories
<1>11. ASSUME NEW c \in AllChats
       PROVE  (Calm(c)' => Calm(c)) /\ (Settled(c) => Settled(c)')
  <2>1. \A n \in Mutes : Pending(n, c) => Pending(n, c)'
    BY <1>4, <1>5 DEF MuteMoved, Pending
  <2> QED
    BY <1>5, <1>8, <2>1 DEF Calm, Settled, Found, InFederation, histories
<1>12. CalmIsSettled'
  BY <1>5, <1>11, CalmStays DEF histories
<1> QED
  BY <1>6, <1>7, <1>8, <1>9, <1>10, <1>12 DEF MuteIInv, MuteInv

(* The row is written: those on the list are to be done, those connected   *)
(* behind it are missed, and nobody else acts unless the write is a race.  *)
LEMMA MuteSetsKeeps ==
  ASSUME MuteIInv, NEW m \in Mutes, MuteSets(m)
  PROVE  MuteIInv'
<1>0. MuteTypes
  BY DEF MuteIInv
<1> DEFINE rec == [mute[m] EXCEPT !.pc = "set"]
<1>1. /\ mute[m].pc = "listed" /\ row' = mute[m].until /\ missed' = Behind(m)
      /\ raced' = AnyOther(m)
      /\ UNCHANGED <<past, listed, inside, quiet, unmute, join, connect, stuck, outlived>>
  BY DEF MuteSets, RacesMute, AnyOther
<1>2. /\ rec \in MuteRecords /\ rec.pc = "set" /\ rec.until = mute[m].until
      /\ rec.groups = mute[m].groups
  BY <1>0, <1>1 DEF MuteTypes, RunTypes, MuteRecords
<1>3. mute' = [mute EXCEPT ![m] = rec]
  BY <1>0 DEF MuteSets, MuteTypes, RunTypes
<1> HIDE DEF rec
<1>4. MuteMoved(m, rec)
  BY <1>0, <1>2, <1>3, MuteMoves
<1>5. mute[m].until \in {m, "forever"} /\ m \notin past /\ mute[m].until \in Untils
  BY <1>1 DEF MuteIInv, MuteInv, Unwritten, Untils
<1>6. Found' = row' /\ row' # "none" /\ row' \in Untils
  BY <1>0, <1>1, <1>5 DEF Found, MuteTypes, RowTypes, Named
<1>7. MuteTypes'
  <2>1. RowTypes'
    BY <1>0, <1>1, <1>6, OthersAct DEF MuteTypes, RowTypes, Behind, AllChats, AnyOther
  <2>2. ChatTypes' /\ RunTypes'
    BY <1>0, <1>1, <1>4 DEF MuteTypes, ChatTypes, RunTypes, MuteMoved
  <2> QED
    BY <2>1, <2>2 DEF MuteTypes
<1>8. Unwritten'
  BY <1>1, <1>2, <1>4 DEF MuteMoved, MuteIInv, MuteInv, Unwritten
<1>9. LeftKnown'
  BY <1>1, LeftStays
<1>10. ActsOnRow'
  <2> SUFFICES ASSUME ~raced' PROVE ActsOnRow'
    BY DEF ActsOnRow
  <2>1. ~OthersActing /\ \A n \in Mutes : n # m => ~Acting(n)
    BY <1>1 DEF AnyOther, MutesActing, Acting
  <2>2. \A n \in Mutes : Acting(n)' => n = m
    BY <1>4, <2>1 DEF MuteMoved, Acting
  <2>3. mute'[m].until = row'
    BY <1>1, <1>2, <1>4 DEF MuteMoved
  <2> QED
    BY <1>1, <2>1, <2>2, <2>3 DEF ActsOnRow, OthersActing
<1>11. RecordBacksMutes'
  BY <1>6 DEF RecordBacksMutes
<1>12. ASSUME NEW c \in AllChats, Calm(c)' PROVE Settled(c)'
  <2>1. c \in Primary \cup listed
    BY <1>1, <1>12 DEF Calm, InFederation
  <2>2. CASE c \in Behind(m)
    BY <1>1, <2>2 DEF Settled
  <2>3. CASE c \in Primary \cup mute[m].groups
    <3>1. Pending(m, c)'
      BY <1>2, <1>4, <2>3 DEF MuteMoved, Pending
    <3> QED
      BY <3>1 DEF Settled
  <2> QED
    BY <2>1, <2>2, <2>3 DEF Behind
<1>13. CalmIsSettled'
  BY <1>12 DEF CalmIsSettled
<1> QED
  BY <1>7, <1>8, <1>9, <1>10, <1>11, <1>13 DEF MuteIInv, MuteInv

(* A run that is over at once: what it had to do counts as missed.         *)
LEMMA MuteGivesUp ==
  ASSUME MuteIInv, NEW m \in Mutes, mute' = [mute EXCEPT ![m] = Ended],
         UNCHANGED <<row, past, listed, inside, quiet, unmute, join, connect, stuck, raced, outlived>>,
         missed \subseteq missed', missed' \subseteq AllChats,
         \A c \in AllChats : Pending(m, c) => c \in missed'
  PROVE  MuteIInv'
<1>0. MuteTypes
  BY DEF MuteIInv
<1>1. MuteMoved(m, Ended)
  BY <1>0, Constants, MuteMoves
<1>2. MuteTypes'
  BY <1>0, <1>1 DEF MuteMoved, MuteTypes, RowTypes, ChatTypes, RunTypes
<1>3. Unwritten'
  BY <1>1, Constants DEF MuteMoved, MuteIInv, MuteInv, Unwritten
<1>4. LeftKnown' /\ UnmutesActing' = UnmutesActing
  BY LeftStays
<1>5. ActsOnRow'
  BY <1>1, Constants DEF MuteMoved, MuteIInv, MuteInv, ActsOnRow, Acting
<1>6. RecordBacksMutes'
  BY BackStays
<1>7. ASSUME NEW c \in AllChats
      PROVE  (Calm(c)' => Calm(c)) /\ (Settled(c) => Settled(c)')
  <2>1. \A n \in Mutes : n # m /\ Pending(n, c) => Pending(n, c)'
    BY <1>1 DEF MuteMoved, Pending
  <2> QED
    BY <1>4, <2>1 DEF Calm, Settled, Found, InFederation
<1>8. CalmIsSettled'
  BY <1>7, CalmStays
<1> QED
  BY <1>2, <1>3, <1>4, <1>5, <1>6, <1>8 DEF MuteIInv, MuteInv

(* The row is written or deleted by a run that ends with it.               *)
LEMMA MuteEndsOnRow ==
  ASSUME MuteIInv, NEW m \in Mutes, mute' = [mute EXCEPT ![m] = Ended],
         UNCHANGED <<past, listed, inside, quiet, unmute, join, connect, outlived>>,
         raced' = AnyOther(m), stuck' \subseteq AllChats, missed' \subseteq AllChats,
         \/ row' = "none" /\ QuietChats \subseteq stuck'
         \/ row' \in Untils \ past /\ missed' = AllChats
  PROVE  MuteIInv'
<1>0. MuteTypes
  BY DEF MuteIInv
<1>1. MuteMoved(m, Ended)
  BY <1>0, Constants, MuteMoves
<1>2. MuteTypes'
  <2>1. RowTypes'
    BY <1>0, OthersAct DEF MuteTypes, RowTypes, AnyOther
  <2> QED
    BY <1>0, <1>1, <2>1 DEF MuteMoved, MuteTypes, ChatTypes, RunTypes
<1>3. Unwritten'
  BY <1>1, Constants DEF MuteMoved, MuteIInv, MuteInv, Unwritten
<1>4. LeftKnown' /\ QuietChats' = QuietChats
  BY LeftStays
<1>5. ActsOnRow'
  <2> SUFFICES ASSUME ~raced' PROVE ActsOnRow'
    BY DEF ActsOnRow
  <2>1. ~OthersActing /\ \A n \in Mutes : n # m => ~Acting(n)
    BY DEF AnyOther, MutesActing, Acting
  <2>2. \A n \in Mutes : ~Acting(n)'
    BY <1>1, <2>1, Constants DEF MuteMoved, Acting
  <2> QED
    BY <2>1, <2>2 DEF ActsOnRow, OthersActing
<1>6. RecordBacksMutes' /\ CalmIsSettled'
  <2>1. CASE row' = "none" /\ QuietChats \subseteq stuck'
    <3>1. Found' = "none"
      BY <2>1 DEF Found
    <3> QED
      BY <1>4, <2>1, <3>1 DEF RecordBacksMutes, CalmIsSettled
  <2>2. CASE row' \in Untils \ past /\ missed' = AllChats
    <3>1. Found' # "none"
      BY <1>0, <2>2 DEF Found, MuteTypes, RowTypes, Named
    <3> QED
      BY <2>2, <3>1 DEF RecordBacksMutes, CalmIsSettled, Settled
  <2> QED
    BY <2>1, <2>2
<1> QED
  BY <1>2, <1>3, <1>4, <1>5, <1>6 DEF MuteIInv, MuteInv

LEMMA MuteSetFailsKeeps ==
  ASSUME MuteIInv, NEW m \in Mutes, MuteSetFails(m)
  PROVE  MuteIInv'
<1>0. MuteTypes
  BY DEF MuteIInv
<1>1. /\ mute[m].pc = "listed" /\ mute' = [mute EXCEPT ![m] = Ended]
      /\ UNCHANGED <<past, listed, inside, quiet, unmute, join, connect, stuck, outlived>>
  BY DEF MuteSetFails
<1>2. CASE UNCHANGED <<row, missed, raced>>
  <2>1. \A c \in AllChats : ~Pending(m, c)
    BY <1>1 DEF Pending
  <2> QED
    BY <1>0, <1>1, <1>2, <2>1, MuteGivesUp DEF MuteTypes, RowTypes
<1>3. CASE row' = mute[m].until /\ missed' = AllChats /\ RacesMute(m)
  <2>1. mute[m].until \in Untils \ past
    BY <1>0, <1>1 DEF MuteIInv, MuteInv, Unwritten, Untils, MuteTypes, RowTypes, Named
  <2>2. stuck' \subseteq AllChats /\ raced' = AnyOther(m)
    BY <1>0, <1>1, <1>3 DEF MuteTypes, ChatTypes, RacesMute, AnyOther
  <2> QED
    BY <1>1, <1>3, <2>1, <2>2, MuteEndsOnRow
<1> QED
  BY <1>2, <1>3 DEF MuteSetFails

LEMMA MuteLogsKeeps ==
  ASSUME MuteIInv, NEW m \in Mutes, MuteLogs(m)
  PROVE  MuteIInv'
<1>0. MuteTypes
  BY DEF MuteIInv
<1> DEFINE rec == [mute[m] EXCEPT !.pc = "fanout", !.todo = Primary \cup mute[m].groups]
<1>1. /\ mute[m].pc = "set"
      /\ UNCHANGED <<row, past, listed, inside, quiet, unmute, join, connect, histories>>
  BY DEF MuteLogs
<1>2. /\ rec \in MuteRecords /\ rec.pc = "fanout" /\ rec.until = mute[m].until
      /\ rec.todo = Primary \cup mute[m].groups
  BY <1>0, <1>1 DEF MuteTypes, RunTypes, MuteRecords, AllChats
<1>3. mute' = [mute EXCEPT ![m] = rec]
  BY <1>0 DEF MuteLogs, MuteTypes, RunTypes, MuteRecords
<1> HIDE DEF rec
<1>4. MuteMoved(m, rec)
  BY <1>0, <1>2, <1>3, MuteMoves
<1>5. MuteTypes'
  BY <1>0, <1>1, <1>4 DEF MuteMoved, MuteTypes, RowTypes, ChatTypes, RunTypes, histories
<1>6. Unwritten'
  BY <1>1, <1>2, <1>4 DEF MuteMoved, MuteIInv, MuteInv, Unwritten
<1>7. LeftKnown' /\ UnmutesActing' = UnmutesActing
  BY <1>1, LeftStays
<1>8. ActsOnRow'
  BY <1>1, <1>2, <1>4 DEF MuteMoved, MuteIInv, MuteInv, ActsOnRow, Acting, histories
<1>9. RecordBacksMutes'
  BY <1>1, BackStays DEF histories
<1>10. ASSUME NEW c \in AllChats
       PROVE  (Calm(c)' => Calm(c)) /\ (Settled(c) => Settled(c)')
  <2>1. \A n \in Mutes : Pending(n, c) => Pending(n, c)'
    BY <1>1, <1>2, <1>4 DEF MuteMoved, Pending
  <2> QED
    BY <1>1, <1>7, <2>1 DEF Calm, Settled, Found, InFederation, histories
<1>11. CalmIsSettled'
  BY <1>1, <1>10, CalmStays DEF histories
<1> QED
  BY <1>5, <1>6, <1>7, <1>8, <1>9, <1>11 DEF MuteIInv, MuteInv

LEMMA MuteLogFailsKeeps ==
  ASSUME MuteIInv, NEW m \in Mutes, MuteLogFails(m)
  PROVE  MuteIInv'
<1>0. MuteTypes
  BY DEF MuteIInv
<1>1. /\ mute[m].pc = "set" /\ mute' = [mute EXCEPT ![m] = Ended]
      /\ UNCHANGED <<past, listed, inside, quiet, unmute, join, connect, outlived>>
  BY DEF MuteLogFails
<1>2. CASE row' = "none" /\ stuck' = stuck \cup QuietChats /\ missed' = {} /\ RacesMute(m)
  <2>1. stuck' \subseteq AllChats /\ raced' = AnyOther(m)
    BY <1>0, <1>2 DEF MuteTypes, ChatTypes, QuietChats, RacesMute, AnyOther
  <2> QED
    BY <1>1, <1>2, <2>1, MuteEndsOnRow
<1>3. CASE missed' = AllChats /\ UNCHANGED <<row, stuck, raced>>
  BY <1>0, <1>1, <1>3, MuteGivesUp DEF MuteTypes, RowTypes
<1> QED
  BY <1>2, <1>3 DEF MuteLogFails

LEMMA MuteDiesKeeps ==
  ASSUME MuteIInv, NEW m \in Mutes, MuteDies(m)
  PROVE  MuteIInv'
<1>0. MuteTypes /\ mute[m] \in MuteRecords
  BY DEF MuteIInv, MuteTypes, RunTypes
<1>1. /\ mute' = [mute EXCEPT ![m] = Ended]
      /\ missed' = missed \cup (IF mute[m].pc = "set" THEN AllChats ELSE mute[m].todo)
      /\ UNCHANGED <<row, past, listed, inside, quiet, unmute, join, connect, stuck, raced, outlived>>
  BY DEF MuteDies
<1>2. missed \subseteq missed' /\ missed' \subseteq AllChats
  BY <1>0, <1>1 DEF MuteTypes, RowTypes, MuteRecords
<1>3. \A c \in AllChats : Pending(m, c) => c \in missed'
  BY <1>1 DEF Pending
<1> QED
  BY <1>1, <1>2, <1>3, MuteGivesUp

(* A chat is muted, or missed; the others still have what they had.        *)
LEMMA MuteEnforcesKeeps ==
  ASSUME MuteIInv, NEW m \in Mutes, MuteEnforces(m)
  PROVE  MuteIInv'
<1>0. MuteTypes /\ mute[m] \in MuteRecords
  BY DEF MuteIInv, MuteTypes, RunTypes
<1>1. PICK c \in mute[m].todo :
        /\ Restricts(c, mute[m].until)
        /\ mute' = [mute EXCEPT ![m] =
                      IF mute[m].todo = {c} THEN Ended
                      ELSE [mute[m] EXCEPT !.todo = mute[m].todo \ {c}]]
        /\ UNCHANGED <<row, past, listed, inside, join, connect, raced>>
  BY DEF MuteEnforces
<1> DEFINE rec == IF mute[m].todo = {c} THEN Ended
                  ELSE [mute[m] EXCEPT !.todo = mute[m].todo \ {c}]
<1>2. c \in AllChats /\ mute[m].pc = "fanout" /\ mute[m].until \in Untils
  BY <1>0 DEF MuteRecords
<1>3. /\ rec \in MuteRecords /\ rec.pc \in {"fanout", "ended"}
      /\ rec.pc = "fanout" => rec.until = mute[m].until
      /\ \A d \in mute[m].todo : d # c => rec.pc = "fanout" /\ d \in rec.todo
  BY <1>0, <1>2, Constants DEF MuteRecords
<1>4. mute' = [mute EXCEPT ![m] = rec]
  BY <1>1
<1> HIDE DEF rec
<1>5. MuteMoved(m, rec)
  BY <1>0, <1>3, <1>4, MuteMoves
<1>6. ~raced => mute[m].until = row
  BY <1>2 DEF MuteIInv, MuteInv, ActsOnRow, Acting
<1>7. ChatTypes' /\ missed' \subseteq AllChats /\ (Lands(c, mute[m].until) \/ Misses(c))
  BY <1>0, <1>1, <1>2, RestrictSplits
<1>8. /\ LeftKnown' /\ RecordBacksMutes' /\ UnmutesActing' = UnmutesActing
      /\ OnlyAt(c)
      /\ Found # "none" /\ ~raced => quiet'[c] = Found \/ c \in missed' \/ c \notin inside
  BY <1>1, <1>2, <1>6, <1>7, RestrictKeeps
<1>9. MuteTypes'
  BY <1>0, <1>1, <1>5, <1>7 DEF MuteMoved, MuteTypes, RowTypes, RunTypes
<1>10. Unwritten'
  BY <1>1, <1>3, <1>5 DEF MuteMoved, MuteIInv, MuteInv, Unwritten
<1>11. ActsOnRow'
  <2> SUFFICES ASSUME ~raced PROVE ActsOnRow'
    BY <1>1 DEF ActsOnRow
  <2>1. \A n \in Mutes : Acting(n)' => mute'[n].until = row
    BY <1>2, <1>3, <1>5, <1>6 DEF MuteMoved, MuteIInv, MuteInv, ActsOnRow, Acting
  <2> QED
    BY <1>1, <2>1 DEF MuteIInv, MuteInv, ActsOnRow
<1>12. ASSUME NEW d \in AllChats, Found # "none", ~raced, Calm(d)' PROVE Settled(d)'
  <2>1. CASE d = c
    BY <1>1, <1>8, <1>12, <2>1 DEF Calm, Settled, Found
  <2>2. CASE d # c
    <3>1. Calm(d)
      BY <1>1, <1>8, <1>12, <2>2 DEF OnlyAt, Calm, InFederation
    <3>2. Settled(d)
      BY <1>12, <3>1 DEF MuteIInv, MuteInv, CalmIsSettled
    <3>3. \A n \in Mutes : Pending(n, d) => Pending(n, d)'
      BY <1>2, <1>3, <1>5, <2>2 DEF MuteMoved, Pending
    <3> QED
      BY <1>1, <1>8, <2>2, <3>2, <3>3 DEF OnlyAt, Settled, Found
  <2> QED
    BY <2>1, <2>2
<1>13. CalmIsSettled'
  BY <1>1, <1>12 DEF CalmIsSettled, Found
<1> QED
  BY <1>8, <1>9, <1>10, <1>11, <1>13 DEF MuteIInv, MuteInv

-----------------------------------------------------------------------------
(* The runs of execute_unmute. *)

UnmuteMoved(u, rec) ==
    /\ unmute'[u] = rec /\ unmute' \in [Unmutes -> UnmuteRecords]
    /\ \A v \in Unmutes : v # u => unmute'[v] = unmute[v]

LEMMA UnmuteMoves ==
  ASSUME MuteTypes, NEW u \in Unmutes, NEW rec \in UnmuteRecords, unmute' = [unmute EXCEPT ![u] = rec]
  PROVE  UnmuteMoved(u, rec)
  BY DEF MuteTypes, ChatTypes, UnmuteMoved

(* An unmute gets on, and frees no chat yet.                               *)
LEMMA UnmuteGetsOn ==
  ASSUME MuteIInv, NEW u \in Unmutes, NEW rec \in UnmuteRecords, unmute' = [unmute EXCEPT ![u] = rec],
         UNCHANGED <<row, past, listed, inside, quiet, mute, join, connect, histories>>,
         rec.pc \in {"holding", "fanout"},
         rec.pc = "fanout" => QuietChats \subseteq rec.todo \cup rec.left
  PROVE  MuteIInv'
<1>0. MuteTypes
  BY DEF MuteIInv
<1>1. UnmuteMoved(u, rec)
  BY <1>0, UnmuteMoves
<1>2. MuteTypes'
  BY <1>0, <1>1 DEF UnmuteMoved, MuteTypes, RowTypes, ChatTypes, RunTypes, histories
<1>3. QuietChats' = QuietChats /\ UnmutesActing' # {}
  BY <1>1 DEF UnmuteMoved, QuietChats, UnmutesActing
<1>4. LeftKnown'
  BY <1>1, <1>3 DEF UnmuteMoved, MuteIInv, MuteInv, LeftKnown
<1>5. Unwritten' /\ ActsOnRow' /\ RecordBacksMutes'
  BY UnwrittenStays, ActsStays, BackStays DEF histories
<1>6. ASSUME NEW c \in AllChats
      PROVE  (Calm(c)' => Calm(c)) /\ (Settled(c) => Settled(c)')
  BY <1>3 DEF Calm, Settled, Found, InFederation, Pending, histories
<1>7. CalmIsSettled'
  BY <1>6, CalmStays DEF histories
<1> QED
  BY <1>2, <1>4, <1>5, <1>7 DEF MuteIInv, MuteInv

LEMMA UnmuteReadsKeeps ==
  ASSUME MuteIInv, NEW u \in Unmutes, UnmuteReads(u)
  PROVE  MuteIInv'
<1> DEFINE rec == [unmute[u] EXCEPT !.pc = "holding"]
<1>0. unmute[u] \in UnmuteRecords
  BY DEF MuteIInv, MuteTypes, ChatTypes
<1>1. /\ unmute[u].pc = "unsent" /\ unmute' = [unmute EXCEPT ![u] = rec]
      /\ UNCHANGED <<row, past, listed, inside, quiet, mute, join, connect, histories>>
  BY DEF UnmuteReads, MuteIInv, MuteTypes, ChatTypes
<1>2. rec \in UnmuteRecords /\ rec.pc = "holding"
  BY <1>0, <1>1 DEF UnmuteRecords
<1> HIDE DEF rec
<1> QED
  BY <1>1, <1>2, UnmuteGetsOn

LEMMA UnmuteListsKeeps ==
  ASSUME MuteIInv, NEW u \in Unmutes, UnmuteLists(u)
  PROVE  MuteIInv'
<1> DEFINE todo == Primary \cup listed
           rec == [pc |-> "fanout", todo |-> todo, left |-> unmute[u].left \cup (QuietChats \ todo)]
<1>0. unmute[u] \in UnmuteRecords /\ listed \subseteq Groups
  BY DEF MuteIInv, MuteTypes, RowTypes, ChatTypes
<1>1. /\ unmute' = [unmute EXCEPT ![u] = rec]
      /\ UNCHANGED <<row, past, listed, inside, quiet, mute, join, connect, histories>>
  BY DEF UnmuteLists
<1>2. rec \in UnmuteRecords /\ rec.pc = "fanout" /\ QuietChats \subseteq rec.todo \cup rec.left
  BY <1>0 DEF UnmuteRecords, QuietChats, AllChats
<1> HIDE DEF rec
<1> QED
  BY <1>1, <1>2, UnmuteGetsOn

(* The chat is free, or the unmute keeps in mind that it is not.           *)
LEMMA UnmuteFreesKeeps ==
  ASSUME MuteIInv, NEW u \in Unmutes, UnmuteFrees(u)
  PROVE  MuteIInv'
<1>0. MuteTypes /\ unmute[u] \in UnmuteRecords
  BY DEF MuteIInv, MuteTypes, ChatTypes
<1>1. PICK c \in unmute[u].todo :
        /\ \/ /\ quiet' = [quiet EXCEPT ![c] = "none"]
              /\ outlived' = outlived \ {c} /\ stuck' = stuck \ {c}
              /\ unmute' = [unmute EXCEPT ![u].todo = @ \ {c}, ![u].left = @ \ {c}]
           \/ /\ unmute' = [unmute EXCEPT ![u].todo = @ \ {c}, ![u].left = @ \cup ({c} \cap QuietChats)]
              /\ UNCHANGED <<quiet, outlived, stuck>>
        /\ UNCHANGED <<row, past, listed, inside, mute, join, connect, missed, raced>>
  BY DEF UnmuteFrees
<1>2. c \in AllChats /\ unmute[u].pc = "fanout"
  BY <1>0 DEF UnmuteRecords
<1>3. ASSUME NEW left \in SUBSET AllChats,
             unmute[u].left \ {c} \subseteq left, c \in QuietChats' => c \in left,
             unmute' = [unmute EXCEPT ![u] = [@ EXCEPT !.todo = unmute[u].todo \ {c}, !.left = left]],
             \A d \in AllChats : d # c => quiet'[d] = quiet[d]
      PROVE  /\ unmute' \in [Unmutes -> UnmuteRecords] /\ LeftKnown' /\ UnmutesActing' # {}
  <2> DEFINE rec == [unmute[u] EXCEPT !.todo = unmute[u].todo \ {c}, !.left = left]
  <2>1. unmute' = [unmute EXCEPT ![u] = rec]
    BY <1>3
  <2>2. /\ rec \in UnmuteRecords /\ rec.pc = "fanout"
        /\ rec.todo = unmute[u].todo \ {c} /\ rec.left = left
    BY <1>0, <1>2 DEF UnmuteRecords
  <2> HIDE DEF rec
  <2>3. UnmuteMoved(u, rec)
    BY <1>0, <2>1, <2>2, UnmuteMoves
  <2>4. UnmutesActing' # {}
    BY <2>2, <2>3 DEF UnmuteMoved, UnmutesActing
  <2>5. ASSUME NEW v \in Unmutes, unmute'[v].pc = "fanout", NEW d \in AllChats, d \in QuietChats'
        PROVE  d \in unmute'[v].todo \cup unmute'[v].left
    <3>1. d # c => d \in QuietChats
      BY <1>3, <2>5 DEF QuietChats
    <3>2. CASE v = u
      BY <1>2, <1>3, <2>2, <2>3, <2>5, <3>1, <3>2 DEF UnmuteMoved, MuteIInv, MuteInv, LeftKnown
    <3>3. CASE v # u
      <4>1. d \in QuietChats
        BY <1>1, <1>2, <2>5, <3>1 DEF QuietChats, MuteIInv, MuteTypes, ChatTypes
      <4> QED
        BY <2>3, <2>5, <3>3, <4>1 DEF UnmuteMoved, MuteIInv, MuteInv, LeftKnown
    <3> QED
      BY <3>2, <3>3
  <2> QED
    BY <2>3, <2>4, <2>5 DEF UnmuteMoved, LeftKnown, QuietChats
<1>4. ActsOnRow' /\ Unwritten'
  BY <1>1, ActsStays, UnwrittenStays
<1>5. CASE /\ quiet' = [quiet EXCEPT ![c] = "none"]
           /\ outlived' = outlived \ {c} /\ stuck' = stuck \ {c}
           /\ unmute' = [unmute EXCEPT ![u].todo = @ \ {c}, ![u].left = @ \ {c}]
  <2>1. /\ \A d \in AllChats : d # c => quiet'[d] = quiet[d]
        /\ quiet'[c] = "none" /\ quiet' \in [AllChats -> Untils \cup {"none"}]
    BY <1>0, <1>2, <1>5 DEF MuteTypes, ChatTypes
  <2>2. unmute' = [unmute EXCEPT ![u] = [@ EXCEPT !.todo = unmute[u].todo \ {c},
                                                  !.left = unmute[u].left \ {c}]]
    BY <1>0, <1>5 DEF MuteTypes, ChatTypes
  <2>3. unmute' \in [Unmutes -> UnmuteRecords] /\ LeftKnown' /\ UnmutesActing' # {}
    <3>1. unmute[u].left \ {c} \in SUBSET AllChats /\ c \notin QuietChats'
      BY <1>0, <2>1 DEF UnmuteRecords, QuietChats
    <3> QED
      BY <1>3, <2>1, <2>2, <3>1
  <2>4. MuteTypes'
    BY <1>0, <1>1, <1>5, <2>1, <2>3 DEF MuteTypes, RowTypes, ChatTypes, RunTypes
  <2>5. RecordBacksMutes'
    BY <1>1, <1>5, <2>1 DEF MuteIInv, MuteInv, RecordBacksMutes, Found, QuietChats
  <2>6. ASSUME NEW d \in AllChats, Found # "none", Calm(d)'
        PROVE  Settled(d)' \/ (Calm(d) /\ (Settled(d) => Settled(d)'))
    <3>1. CASE d = c
      BY <2>1, <2>3, <3>1 DEF Settled
    <3>2. CASE d # c
      BY <1>1, <1>5, <2>1, <2>3, <2>6, <3>2 DEF Calm, Settled, Found, InFederation, Pending
    <3> QED
      BY <3>1, <3>2
  <2>7. CalmIsSettled'
    BY <1>1, <2>6, CalmStays
  <2> QED
    BY <1>4, <2>3, <2>4, <2>5, <2>7 DEF MuteIInv, MuteInv
<1>6. CASE /\ unmute' = [unmute EXCEPT ![u].todo = @ \ {c}, ![u].left = @ \cup ({c} \cap QuietChats)]
           /\ UNCHANGED <<quiet, outlived, stuck>>
  <2>1. QuietChats' = QuietChats
    BY <1>6 DEF QuietChats
  <2>2. unmute' = [unmute EXCEPT ![u] = [@ EXCEPT !.todo = unmute[u].todo \ {c},
                                                  !.left = unmute[u].left \cup ({c} \cap QuietChats)]]
    BY <1>0, <1>6 DEF MuteTypes, ChatTypes
  <2>3. unmute' \in [Unmutes -> UnmuteRecords] /\ LeftKnown' /\ UnmutesActing' # {}
    <3>1. unmute[u].left \cup ({c} \cap QuietChats) \in SUBSET AllChats
      BY <1>0, <1>2 DEF UnmuteRecords
    <3> QED
      BY <1>3, <1>6, <2>1, <2>2, <3>1
  <2>4. MuteTypes'
    BY <1>0, <1>1, <1>6, <2>3 DEF MuteTypes, RowTypes, ChatTypes, RunTypes
  <2>5. RecordBacksMutes'
    BY <1>1, <1>6, BackStays
  <2>6. ASSUME NEW d \in AllChats
        PROVE  (Calm(d)' => Calm(d)) /\ (Settled(d) => Settled(d)')
    BY <1>1, <1>6, <2>3 DEF Calm, Settled, Found, InFederation, Pending
  <2>7. CalmIsSettled'
    BY <1>1, <2>6, CalmStays
  <2> QED
    BY <1>4, <2>3, <2>4, <2>5, <2>7 DEF MuteIInv, MuteInv
<1> QED
  BY <1>1, <1>5, <1>6

LEMMA UnmuteEnds ==
  ASSUME MuteTypes, LeftKnown, NEW u \in Unmutes,
         unmute' = [unmute EXCEPT ![u] = EndedUnmute], quiet' = quiet
  PROVE  unmute' \in [Unmutes -> UnmuteRecords] /\ LeftKnown' /\ QuietChats' = QuietChats
<1>1. UnmuteMoved(u, EndedUnmute)
  BY Constants, UnmuteMoves
<1>2. QuietChats' = QuietChats
  BY DEF QuietChats
<1> QED
  BY <1>1, <1>2, Constants DEF UnmuteMoved, LeftKnown

(* The row goes: what the run has not freed stays restricted, and known.   *)
LEMMA UnmuteClearsKeeps ==
  ASSUME MuteIInv, NEW u \in Unmutes, UnmuteClears(u)
  PROVE  MuteIInv'
<1>0. MuteTypes /\ LeftKnown
  BY DEF MuteIInv, MuteInv
<1>1. /\ unmute[u].pc = "fanout" /\ unmute[u].todo = {} /\ row' = "none"
      /\ unmute' = [unmute EXCEPT ![u] = EndedUnmute]
      /\ stuck' = stuck \cup (QuietChats \cap unmute[u].left) /\ missed' = {}
      /\ UNCHANGED <<past, listed, inside, quiet, mute, join, connect, outlived>>
  BY DEF UnmuteClears
<1>2. raced' = (MutesActing # {} \/ UnmutesActing \ {u} # {} \/ OthersActing)
  BY DEF UnmuteClears, RacesUnmute
<1>3. unmute' \in [Unmutes -> UnmuteRecords] /\ LeftKnown' /\ QuietChats' = QuietChats
  BY <1>0, <1>1, UnmuteEnds
<1>4. MuteTypes'
  <2>1. RowTypes'
    BY <1>0, <1>1, <1>2, OthersAct DEF MuteTypes, RowTypes
  <2> QED
    BY <1>0, <1>1, <1>3, <2>1 DEF MuteTypes, ChatTypes, RunTypes, QuietChats
<1>5. Unwritten'
  BY <1>1, UnwrittenStays
<1>6. ActsOnRow'
  BY <1>1, <1>2 DEF ActsOnRow, Acting, MutesActing, OthersActing
<1>7. Found' = "none"
  BY <1>1 DEF Found
<1>8. QuietChats \subseteq unmute[u].left
  BY <1>0, <1>1 DEF LeftKnown
<1>9. RecordBacksMutes' /\ CalmIsSettled'
  BY <1>1, <1>3, <1>7, <1>8 DEF RecordBacksMutes, CalmIsSettled
<1> QED
  BY <1>3, <1>4, <1>5, <1>6, <1>9 DEF MuteIInv, MuteInv

LEMMA UnmuteDiesKeeps ==
  ASSUME MuteIInv, NEW u \in Unmutes, UnmuteDies(u)
  PROVE  MuteIInv'
<1>0. MuteTypes /\ LeftKnown
  BY DEF MuteIInv, MuteInv
<1>1. /\ unmute' = [unmute EXCEPT ![u] = EndedUnmute] /\ missed' = AllChats
      /\ UNCHANGED <<row, past, listed, inside, quiet, mute, join, connect, stuck, raced, outlived>>
  BY DEF UnmuteDies
<1>2. unmute' \in [Unmutes -> UnmuteRecords] /\ LeftKnown'
  BY <1>0, <1>1, UnmuteEnds
<1>3. MuteTypes'
  BY <1>0, <1>1, <1>2 DEF MuteTypes, RowTypes, ChatTypes, RunTypes
<1>4. Unwritten' /\ ActsOnRow' /\ RecordBacksMutes'
  BY <1>1, UnwrittenStays, ActsStays, BackStays
<1>5. CalmIsSettled'
  BY <1>1 DEF CalmIsSettled, Settled
<1> QED
  BY <1>2, <1>3, <1>4, <1>5 DEF MuteIInv, MuteInv

-----------------------------------------------------------------------------
(* The user comes and goes. *)

JoinMoved(c, a) ==
    /\ join'[c] = a /\ join' \in [AllChats -> Untils \cup {"none", "joined"}]
    /\ \A d \in AllChats : d # c => join'[d] = join[d]

LEMMA JoinMoves ==
  ASSUME MuteTypes, NEW c \in AllChats, NEW a \in Untils \cup {"none", "joined"},
         join' = [join EXCEPT ![c] = a]
  PROVE  JoinMoved(c, a)
  BY DEF MuteTypes, RunTypes, JoinMoved

(* A join that restricts nobody: the chat is looked at, or needs no look.  *)
LEMMA JoinGetsOn ==
  ASSUME MuteIInv, NEW c \in AllChats, NEW a \in Untils \cup {"none", "joined"},
         join' = [join EXCEPT ![c] = a], a \in Untils => a = row,
         UNCHANGED <<row, past, listed, quiet, mute, unmute, connect, stuck, raced, outlived>>,
         inside' \subseteq inside \cup {c}, missed \subseteq missed', missed' \subseteq AllChats,
         Found # "none" /\ a = "none" => c \in missed' \/ ~InFederation(c)
  PROVE  MuteIInv'
<1>0. MuteTypes
  BY DEF MuteIInv
<1>1. JoinMoved(c, a)
  BY <1>0, JoinMoves
<1>2. MuteTypes'
  BY <1>0, <1>1 DEF JoinMoved, MuteTypes, RowTypes, ChatTypes, RunTypes
<1>3. Unwritten' /\ LeftKnown' /\ UnmutesActing' = UnmutesActing /\ RecordBacksMutes'
  BY UnwrittenStays, LeftStays, BackStays
<1>4. ActsOnRow'
  BY <1>1 DEF JoinMoved, MuteIInv, MuteInv, ActsOnRow, Acting
<1>5. ASSUME NEW d \in AllChats, Found # "none", Calm(d)'
      PROVE  Settled(d)' \/ (Calm(d) /\ (Settled(d) => Settled(d)'))
  <2>1. CASE d = c
    BY <1>1, <1>5, <2>1 DEF JoinMoved, Calm, Settled, InFederation
  <2>2. CASE d # c
    BY <1>1, <1>3, <1>5, <2>2 DEF JoinMoved, Calm, Settled, Found, InFederation, Pending
  <2> QED
    BY <2>1, <2>2
<1>6. CalmIsSettled'
  BY <1>5, CalmStays
<1> QED
  BY <1>2, <1>3, <1>4, <1>6 DEF MuteIInv, MuteInv

LEMMA UserJoinsKeeps ==
  ASSUME MuteIInv, NEW c \in AllChats, UserJoins(c)
  PROVE  MuteIInv'
<1>1. "joined" \notin Untils /\ "joined" # "none" /\ missed \subseteq AllChats
  BY DEF MuteIInv, MuteTypes, RowTypes, Named
<1> QED
  BY <1>1, JoinGetsOn DEF UserJoins, histories

LEMMA UserLeavesKeeps ==
  ASSUME MuteIInv, NEW c \in AllChats, UserLeaves(c)
  PROVE  MuteIInv'
<1>0. MuteTypes /\ UNCHANGED <<row, past, listed, quiet, mute, unmute, join, connect, histories>>
  BY DEF MuteIInv, UserLeaves
<1>1. inside' = inside \ {c}
  BY DEF UserLeaves
<1>2. MuteTypes'
  BY <1>0, <1>1 DEF MuteTypes, RowTypes, ChatTypes, RunTypes, histories
<1>3. Unwritten' /\ LeftKnown' /\ UnmutesActing' = UnmutesActing /\ ActsOnRow' /\ RecordBacksMutes'
  BY <1>0, UnwrittenStays, LeftStays, ActsStays, BackStays DEF histories
<1>4. ASSUME NEW d \in AllChats
      PROVE  (Calm(d)' => Calm(d)) /\ (Settled(d) => Settled(d)')
  BY <1>0, <1>1, <1>3 DEF Calm, Settled, Found, InFederation, Pending, histories
<1>5. CalmIsSettled'
  BY <1>0, <1>4, CalmStays DEF histories
<1> QED
  BY <1>2, <1>3, <1>5 DEF MuteIInv, MuteInv

LEMMA JoinReadsKeeps ==
  ASSUME MuteIInv, NEW c \in AllChats, JoinReads(c)
  PROVE  MuteIInv'
<1> DEFINE a == IF InFederation(c) THEN Found ELSE "none"
<1>0. MuteTypes /\ missed \subseteq AllChats /\ inside \subseteq AllChats
  BY DEF MuteIInv, MuteTypes, RowTypes
<1>1. a \in Untils \cup {"none"} /\ (a \in Untils => a = row)
  BY <1>0, FoundType DEF MuteTypes, RowTypes, Named
<1>2. Found # "none" /\ a = "none" => ~InFederation(c)
  OBVIOUS
<1>3. /\ join' = [join EXCEPT ![c] = a]
      /\ UNCHANGED <<row, past, listed, inside, quiet, mute, unmute, connect, histories>>
  BY DEF JoinReads
<1> HIDE DEF a
<1> QED
  BY <1>0, <1>1, <1>2, <1>3, JoinGetsOn DEF histories

LEMMA JoinDiesKeeps ==
  ASSUME MuteIInv, NEW c \in AllChats, JoinDies(c)
  PROVE  MuteIInv'
<1>1. missed \subseteq AllChats /\ "none" \notin Untils
  BY DEF MuteIInv, MuteTypes, RowTypes, Named
<1>2. /\ join' = [join EXCEPT ![c] = "none"]
      /\ missed' = IF Found = "none" THEN missed ELSE missed \cup {c}
      /\ UNCHANGED <<row, past, listed, inside, quiet, mute, unmute, connect, stuck, raced, outlived>>
  BY DEF JoinDies
<1> QED
  BY <1>1, <1>2, JoinGetsOn

(* The chat is restricted as the row says, or it counts as missed.         *)
LEMMA JoinEnforcesKeeps ==
  ASSUME MuteIInv, NEW c \in AllChats, JoinEnforces(c)
  PROVE  MuteIInv'
<1>0. MuteTypes
  BY DEF MuteIInv
<1>1. /\ join[c] \in Untils /\ Restricts(c, join[c]) /\ join' = [join EXCEPT ![c] = "none"]
      /\ UNCHANGED <<row, past, listed, inside, mute, connect, raced>>
  BY DEF JoinEnforces
<1>2. ChatTypes' /\ missed' \subseteq AllChats /\ (Lands(c, join[c]) \/ Misses(c))
  BY <1>0, <1>1, RestrictSplits
<1>3. ~raced => join[c] = row
  BY <1>1 DEF MuteIInv, MuteInv, ActsOnRow
<1>4. /\ LeftKnown' /\ RecordBacksMutes' /\ UnmutesActing' = UnmutesActing
      /\ OnlyAt(c)
      /\ Found # "none" /\ ~raced => quiet'[c] = Found \/ c \in missed' \/ c \notin inside
  BY <1>1, <1>2, <1>3, RestrictKeeps
<1>5. JoinMoved(c, "none")
  BY <1>0, <1>1, JoinMoves
<1>6. MuteTypes'
  BY <1>0, <1>1, <1>2, <1>5 DEF JoinMoved, MuteTypes, RowTypes, RunTypes
<1>7. Unwritten'
  BY <1>1, UnwrittenStays
<1>8. ActsOnRow'
  BY <1>0, <1>1, <1>5 DEF JoinMoved, MuteIInv, MuteInv, ActsOnRow, Acting, MuteTypes, RowTypes,
                          Named
<1>9. ASSUME NEW d \in AllChats, Found # "none", ~raced, Calm(d)' PROVE Settled(d)'
  <2>1. CASE d = c
    BY <1>1, <1>4, <1>9, <2>1 DEF Calm, Settled, Found
  <2>2. CASE d # c
    <3>1. Calm(d)
      BY <1>1, <1>4, <1>5, <1>9, <2>2 DEF JoinMoved, OnlyAt, Calm, InFederation
    <3>2. Settled(d)
      BY <1>9, <3>1 DEF MuteIInv, MuteInv, CalmIsSettled
    <3> QED
      BY <1>1, <1>4, <2>2, <3>2 DEF OnlyAt, Settled, Found, Pending
  <2> QED
    BY <2>1, <2>2
<1>10. CalmIsSettled'
  BY <1>1, <1>9 DEF CalmIsSettled, Found
<1> QED
  BY <1>4, <1>6, <1>7, <1>8, <1>10 DEF MuteIInv, MuteInv

-----------------------------------------------------------------------------
(* Groups connect and leave. *)

ConnectMoved(g, rec) ==
    /\ connect'[g] = rec /\ connect' \in [Groups -> ConnectRecords]
    /\ \A h \in Groups : h # g => connect'[h] = connect[h]

LEMMA ConnectMoves ==
  ASSUME MuteTypes, NEW g \in Groups, NEW rec \in ConnectRecords, connect' = [connect EXCEPT ![g] = rec]
  PROVE  ConnectMoved(g, rec)
  BY DEF MuteTypes, RunTypes, ConnectMoved

(* A connect that restricts nobody: it has a look to take, or the group    *)
(* counts as missed, or it is out, or it is as it was.                     *)
LEMMA ConnectGetsOn ==
  ASSUME MuteIInv, NEW g \in Groups, NEW rec \in ConnectRecords, connect' = [connect EXCEPT ![g] = rec],
         rec.answer \in Untils => rec.answer = row \/ rec.answer = connect[g].answer,
         UNCHANGED <<row, past, inside, quiet, mute, unmute, join, stuck, raced, outlived>>,
         listed' \subseteq Groups, listed \ {g} = listed' \ {g},
         missed \subseteq missed', missed' \subseteq AllChats,
         Found # "none" /\ Calm(g)' => g \in missed' \/ Calm(g)
  PROVE  MuteIInv'
<1>0. MuteTypes /\ g \in AllChats /\ g \notin Primary
  BY DEF MuteIInv, MuteTypes, RowTypes, Named, AllChats
<1>1. ConnectMoved(g, rec)
  BY <1>0, ConnectMoves
<1>2. MuteTypes'
  BY <1>0, <1>1 DEF ConnectMoved, MuteTypes, RowTypes, ChatTypes, RunTypes
<1>3. Unwritten' /\ LeftKnown' /\ UnmutesActing' = UnmutesActing /\ RecordBacksMutes'
  BY UnwrittenStays, LeftStays, BackStays
<1>4. ActsOnRow'
  BY <1>1 DEF ConnectMoved, MuteIInv, MuteInv, ActsOnRow, Acting
<1>5. ASSUME NEW d \in AllChats, Found # "none", Calm(d)'
      PROVE  Settled(d)' \/ (Calm(d) /\ (Settled(d) => Settled(d)'))
  <2>1. Settled(d) => Settled(d)'
    BY <1>3 DEF Settled, Found, Pending
  <2>2. CASE d = g
    BY <1>5, <2>1, <2>2 DEF Settled
  <2>3. CASE d # g
    <3>1. InFederation(d)
      BY <1>5, <2>3 DEF Calm, InFederation
    <3> QED
      BY <1>1, <1>5, <2>1, <2>3, <3>1 DEF ConnectMoved, Calm
  <2> QED
    BY <2>2, <2>3
<1>6. CalmIsSettled'
  BY <1>5, CalmStays
<1> QED
  BY <1>2, <1>3, <1>4, <1>6 DEF MuteIInv, MuteInv

LEMMA ConnectStartsKeeps ==
  ASSUME MuteIInv, NEW g \in Groups, ConnectStarts(g)
  PROVE  MuteIInv'
<1> DEFINE rec == [connect[g] EXCEPT !.answer = "unread"]
<1>0. /\ connect \in [Groups -> ConnectRecords] /\ g \notin Primary /\ "unread" \notin Untils
      /\ listed \subseteq Groups /\ missed \subseteq AllChats
  BY DEF MuteIInv, MuteTypes, RowTypes, RunTypes, Named
<1>1. /\ g \notin listed /\ UNCHANGED <<row, past, listed, inside, quiet, mute, unmute, join, histories>>
      /\ connect' = [connect EXCEPT ![g] = rec]
  BY <1>0 DEF ConnectStarts
<1>2. rec \in ConnectRecords /\ rec.answer = "unread"
  BY <1>0 DEF ConnectRecords
<1> HIDE DEF rec
<1>3. ~Calm(g)'
  BY <1>0, <1>1 DEF Calm, InFederation
<1> QED
  BY <1>0, <1>1, <1>2, <1>3, ConnectGetsOn DEF histories

LEMMA ConnectReadsKeeps ==
  ASSUME MuteIInv, NEW g \in Groups, ConnectReads(g)
  PROVE  MuteIInv'
<1>0. /\ MuteTypes /\ g \in AllChats
      /\ connect \in [Groups -> ConnectRecords] /\ connect[g] \in ConnectRecords
      /\ listed \subseteq Groups /\ missed \subseteq AllChats
  BY DEF MuteIInv, MuteTypes, RowTypes, RunTypes, Named, AllChats
<1>1. UNCHANGED <<row, past, listed, inside, quiet, mute, unmute, join, stuck, raced, outlived>>
  BY DEF ConnectReads
<1>2. ASSUME NEW a \in {Found, "none"}, connect' = [connect EXCEPT ![g].answer = a],
             missed \subseteq missed', missed' \subseteq AllChats, a # Found => g \in missed'
      PROVE  MuteIInv'
  <2> DEFINE rec == [connect[g] EXCEPT !.answer = a]
  <2>1. connect' = [connect EXCEPT ![g] = rec]
    BY <1>2
  <2>2. a \in Untils \cup {"none"} /\ (a \in Untils => a = row) /\ a # "idle"
    BY <1>0, <1>2, FoundType DEF MuteTypes, RowTypes, Named
  <2>3. rec \in ConnectRecords /\ rec.answer = a
    BY <1>0, <2>2 DEF ConnectRecords
  <2> HIDE DEF rec
  <2>4. ConnectMoved(g, rec)
    BY <1>0, <2>1, <2>3, ConnectMoves
  <2>5. Calm(g)' => a = "none"
    BY <2>2, <2>3, <2>4, Constants DEF ConnectMoved, Calm
  <2> QED
    BY <1>0, <1>1, <1>2, <2>1, <2>2, <2>3, <2>5, ConnectGetsOn
<1>3. CASE connect' = [connect EXCEPT ![g].answer = Found] /\ UNCHANGED missed
  BY <1>0, <1>2, <1>3
<1>4. CASE connect' = [connect EXCEPT ![g].answer = "none"] /\ missed' = missed \cup {g}
  BY <1>0, <1>2, <1>4
<1> QED
  BY <1>3, <1>4 DEF ConnectReads

LEMMA ConnectAddsKeeps ==
  ASSUME MuteIInv, NEW g \in Groups, ConnectAdds(g)
  PROVE  MuteIInv'
<1> DEFINE rec == [connect[g] EXCEPT !.added = TRUE]
<1>0. /\ MuteTypes /\ g \in AllChats
      /\ connect \in [Groups -> ConnectRecords] /\ connect[g] \in ConnectRecords
      /\ listed \subseteq Groups /\ missed \subseteq AllChats
  BY DEF MuteIInv, MuteTypes, RowTypes, RunTypes, Named, AllChats
<1>1. /\ connect[g].answer # "idle" /\ listed' = listed \cup {g}
      /\ connect' = [connect EXCEPT ![g] = rec]
      /\ missed' = missed \cup (IF connect[g].answer \in {"unread", Found} THEN {} ELSE {g})
      /\ UNCHANGED <<row, past, inside, quiet, mute, unmute, join, stuck, raced, outlived>>
  BY <1>0 DEF ConnectAdds
<1>2. rec \in ConnectRecords /\ rec.answer = connect[g].answer
  BY <1>0, <1>1 DEF ConnectRecords
<1> HIDE DEF rec
<1>3. ConnectMoved(g, rec)
  BY <1>0, <1>1, <1>2, ConnectMoves
<1>4. Found # "none" /\ Calm(g)' => g \in missed'
  BY <1>1, <1>2, <1>3, Constants DEF ConnectMoved, Calm
<1> QED
  BY <1>0, <1>1, <1>2, <1>4, ConnectGetsOn

LEMMA ConnectDiesKeeps ==
  ASSUME MuteIInv, NEW g \in Groups, ConnectDies(g)
  PROVE  MuteIInv'
<1>0. /\ g \in AllChats /\ listed \subseteq Groups /\ missed \subseteq AllChats /\ "idle" \notin Untils
  BY DEF MuteIInv, MuteTypes, RowTypes, Named, AllChats
<1>1. /\ connect' = [connect EXCEPT ![g] = NoConnect] /\ missed' = missed \cup {g}
      /\ UNCHANGED <<row, past, listed, inside, quiet, mute, unmute, join, stuck, raced, outlived>>
  BY DEF ConnectDies
<1> QED
  BY <1>0, <1>1, Constants, ConnectGetsOn

LEMMA DisconnectsKeeps ==
  ASSUME MuteIInv, NEW g \in Groups, Disconnects(g)
  PROVE  MuteIInv'
<1>0. /\ connect \in [Groups -> ConnectRecords] /\ g \notin Primary
      /\ listed \subseteq Groups /\ missed \subseteq AllChats
  BY DEF MuteIInv, MuteTypes, RowTypes, RunTypes, Named
<1>1. /\ connect' = [connect EXCEPT ![g] = connect[g]] /\ listed' = listed \ {g}
      /\ UNCHANGED <<row, past, inside, quiet, mute, unmute, join, histories>>
  BY <1>0 DEF Disconnects
<1>2. ~Calm(g)'
  BY <1>0, <1>1 DEF Calm, InFederation
<1> QED
  BY <1>0, <1>1, <1>2, ConnectGetsOn DEF histories

(* The replay applies what was read; with nothing to apply, nothing was    *)
(* missing, or the chat counts as missed already.                          *)
LEMMA ConnectReplaysKeeps ==
  ASSUME MuteIInv, NEW g \in Groups, ConnectReplays(g)
  PROVE  MuteIInv'
<1>0. /\ MuteTypes /\ g \in AllChats /\ connect[g] \in ConnectRecords /\ "idle" \notin Untils
      /\ listed \subseteq Groups /\ missed \subseteq AllChats
  BY DEF MuteIInv, MuteTypes, RowTypes, RunTypes, Named, AllChats
<1>1. /\ connect[g].added /\ connect[g].answer # "unread"
      /\ connect' = [connect EXCEPT ![g] = NoConnect]
      /\ UNCHANGED <<row, past, listed, inside, mute, join, raced>>
  BY DEF ConnectReplays
<1>2. CASE connect[g].answer = "none" /\ UNCHANGED <<quiet, unmute, missed, stuck, outlived>>
  <2>1. Calm(g)' => Calm(g)
    BY <1>1, <1>2 DEF Calm, InFederation
  <2> QED
    BY <1>0, <1>1, <1>2, <2>1, Constants, ConnectGetsOn
<1>3. CASE connect[g].answer # "none" /\ Restricts(g, connect[g].answer)
  <2>1. connect[g].answer \in Untils
    BY <1>0, <1>1, <1>3 DEF ConnectRecords
  <2>2. ChatTypes' /\ missed' \subseteq AllChats /\ (Lands(g, connect[g].answer) \/ Misses(g))
    BY <1>0, <1>3, <2>1, RestrictSplits
  <2>3. ~raced => connect[g].answer = row
    BY <2>1 DEF MuteIInv, MuteInv, ActsOnRow
  <2>4. /\ LeftKnown' /\ RecordBacksMutes' /\ UnmutesActing' = UnmutesActing
        /\ OnlyAt(g)
        /\ Found # "none" /\ ~raced => quiet'[g] = Found \/ g \in missed' \/ g \notin inside
    BY <1>0, <1>1, <2>1, <2>2, <2>3, RestrictKeeps
  <2>5. ConnectMoved(g, NoConnect)
    BY <1>0, <1>1, ConnectMoves, Constants
  <2>6. MuteTypes'
    BY <1>0, <1>1, <2>2, <2>5 DEF ConnectMoved, MuteTypes, RowTypes, RunTypes
  <2>7. Unwritten'
    BY <1>1, UnwrittenStays
  <2>8. ActsOnRow'
    BY <1>0, <1>1, <2>5, Constants DEF ConnectMoved, MuteIInv, MuteInv, ActsOnRow, Acting
  <2>9. ASSUME NEW d \in AllChats, Found # "none", ~raced, Calm(d)' PROVE Settled(d)'
    <3>1. CASE d = g
      BY <1>1, <2>4, <2>9, <3>1 DEF Calm, Settled, Found
    <3>2. CASE d # g
      <4>1. Calm(d)
        BY <1>1, <2>4, <2>5, <2>9, <3>2 DEF ConnectMoved, OnlyAt, Calm, InFederation
      <4>2. Settled(d)
        BY <2>9, <4>1 DEF MuteIInv, MuteInv, CalmIsSettled
      <4> QED
        BY <1>1, <2>4, <3>2, <4>2 DEF OnlyAt, Settled, Found, Pending
    <3> QED
      BY <3>1, <3>2
  <2>10. CalmIsSettled'
    BY <1>1, <2>9 DEF CalmIsSettled, Found
  <2> QED
    BY <2>4, <2>6, <2>7, <2>8, <2>10 DEF MuteIInv, MuteInv
<1> QED
  BY <1>2, <1>3 DEF ConnectReplays

-----------------------------------------------------------------------------
(* A deadline passes.  When it is the row's, every chat that is still      *)
(* restricted is one that the row was never matched to.                    *)
LEMMA DeadlinePassesKeeps ==
  ASSUME MuteIInv, NEW m \in Mutes, DeadlinePasses(m)
  PROVE  MuteIInv'
<1>0. MuteTypes /\ m \in Untils /\ m # "none"
  BY DEF MuteIInv, MuteTypes, RowTypes, Named, Untils
<1>1. /\ m \notin past /\ mute[m].pc \notin {"unsent", "listed"} /\ past' = past \cup {m}
      /\ quiet' = [c \in AllChats |-> IF quiet[c] = m THEN "none" ELSE quiet[c]]
      /\ stuck' = {c \in AllChats : quiet'[c] # "none" /\ c \in stuck} \cup
           {c \in QuietChats : row = m /\ (MutesActing # {} \/ ~Reached(c))}
      /\ UNCHANGED <<row, listed, inside, mute, unmute, join, connect, missed, raced, outlived>>
  BY DEF DeadlinePasses
<1>2. \A c \in AllChats : quiet'[c] = IF quiet[c] = m THEN "none" ELSE quiet[c]
  BY <1>1
<1>3. MuteTypes'
  <2>1. quiet' \in [AllChats -> Untils \cup {"none"}]
    BY <1>0, <1>1 DEF MuteTypes, ChatTypes
  <2>2. stuck' \subseteq AllChats
    BY <1>1 DEF QuietChats
  <2> QED
    BY <1>0, <1>1, <2>1, <2>2 DEF MuteTypes, RowTypes, ChatTypes, RunTypes
<1>4. Unwritten'
  BY <1>1 DEF MuteIInv, MuteInv, Unwritten
<1>5. QuietChats' \subseteq QuietChats
  BY <1>2 DEF QuietChats
<1>6. LeftKnown'
  BY <1>1, <1>5 DEF MuteIInv, MuteInv, LeftKnown
<1>7. ActsOnRow'
  BY <1>1, ActsStays
<1>8. RecordBacksMutes'
  <2> SUFFICES ASSUME Found' = "none", ~raced, NEW c \in AllChats, c \in QuietChats'
               PROVE  c \in stuck' \cup outlived
    BY <1>1 DEF RecordBacksMutes, QuietChats
  <2>1. c \in QuietChats /\ quiet[c] # m /\ quiet'[c] # "none" /\ quiet[c] # "none"
    BY <1>0, <1>2, <1>5 DEF QuietChats
  <2>2. CASE row # m
    <3>1. Found = "none"
      BY <1>1, <2>2 DEF Found
    <3>2. c \in stuck \cup outlived
      BY <2>1, <3>1 DEF MuteIInv, MuteInv, RecordBacksMutes
    <3> QED
      BY <1>1, <2>1, <3>2
  <2>3. CASE row = m /\ (MutesActing # {} \/ ~Reached(c))
    BY <1>1, <2>1, <2>3
  <2>4. CASE row = m /\ MutesActing = {} /\ Reached(c) /\ c \notin outlived
    <3>1. Found = m /\ Found # "none"
      BY <1>0, <1>1, <2>4 DEF Found
    <3>2. Calm(c) /\ c \notin missed
      BY <2>4 DEF Reached, Calm
    <3>3. Settled(c)
      BY <3>1, <3>2 DEF MuteIInv, MuteInv, CalmIsSettled
    <3>4. \A n \in Mutes : ~Pending(n, c)
      BY <2>4 DEF MutesActing, Pending
    <3> QED
      BY <2>1, <3>1, <3>2, <3>3, <3>4 DEF Settled
  <2> QED
    BY <2>2, <2>3, <2>4
<1>9. ASSUME Found' # "none", ~raced, NEW c \in AllChats, Calm(c)' PROVE Settled(c)'
  <2>1. row # m /\ Found' = Found
    BY <1>1, <1>9 DEF Found
  <2>2. Settled(c)
    BY <1>1, <1>9, <2>1 DEF MuteIInv, MuteInv, CalmIsSettled, Calm, InFederation
  <2>3. Found # m
    BY <1>9, <2>1 DEF Found
  <2> QED
    BY <1>0, <1>1, <1>2, <2>1, <2>2, <2>3 DEF Settled, Pending, UnmutesActing
<1>10. CalmIsSettled'
  BY <1>1, <1>9 DEF CalmIsSettled
<1> QED
  BY <1>3, <1>4, <1>6, <1>7, <1>8, <1>10 DEF MuteIInv, MuteInv

-----------------------------------------------------------------------------
(* The invariant, and what it gives.                                       *)

LEMMA InitIInv == Named /\ MuteInit => MuteIInv
<1> SUFFICES ASSUME Named, MuteInit PROVE MuteIInv
  OBVIOUS
<1>1. MuteTypes
  BY TypesInit
<1>2. /\ row = "none" /\ past = {} /\ QuietChats = {} /\ Found = "none"
      /\ \A m \in Mutes : mute[m] = Unsent
      /\ \A u \in Unmutes : unmute[u] = UnsentUnmute
      /\ \A c \in AllChats : join[c] = "none"
      /\ \A g \in Groups : connect[g] = NoConnect
  BY DEF MuteInit, QuietChats, Found
<1>3. Unwritten /\ LeftKnown /\ RecordBacksMutes /\ CalmIsSettled
  BY <1>2, Constants DEF Unwritten, LeftKnown, RecordBacksMutes, CalmIsSettled
<1>4. ActsOnRow
  BY <1>2, Constants DEF ActsOnRow, Acting, Named
<1> QED
  BY <1>1, <1>3, <1>4 DEF MuteIInv, MuteInv

LEMMA StutterKeeps ==
  ASSUME MuteIInv, UNCHANGED muteVars
  PROVE  MuteIInv'
<1>1. MuteTypes'
  BY DEF MuteIInv, MuteTypes, RowTypes, ChatTypes, RunTypes, muteVars, histories
<1>2. Unwritten' /\ LeftKnown' /\ UnmutesActing' = UnmutesActing /\ ActsOnRow' /\ RecordBacksMutes'
  BY UnwrittenStays, LeftStays, ActsStays, BackStays DEF muteVars, histories
<1>3. CalmIsSettled'
  BY <1>2, CalmStays DEF muteVars, histories, Calm, Settled, Found, InFederation, Pending
<1> QED
  BY <1>1, <1>2, <1>3 DEF MuteIInv, MuteInv

LEMMA StepKeepsIInv == MuteIInv /\ [MuteNext]_muteVars => MuteIInv'
<1> SUFFICES ASSUME MuteIInv, [MuteNext]_muteVars PROVE MuteIInv'
  OBVIOUS
<1>1. CASE \E m \in Mutes :
             \/ MuteReads(m) \/ MuteSets(m) \/ MuteSetFails(m) \/ MuteLogs(m)
             \/ MuteLogFails(m) \/ MuteEnforces(m) \/ MuteDies(m) \/ DeadlinePasses(m)
  BY <1>1, MuteReadsKeeps, MuteSetsKeeps, MuteSetFailsKeeps, MuteLogsKeeps, MuteLogFailsKeeps,
     MuteEnforcesKeeps, MuteDiesKeeps, DeadlinePassesKeeps
<1>2. CASE \E u \in Unmutes :
             \/ UnmuteReads(u) \/ UnmuteLists(u) \/ UnmuteFrees(u) \/ UnmuteClears(u)
             \/ UnmuteDies(u)
  BY <1>2, UnmuteReadsKeeps, UnmuteListsKeeps, UnmuteFreesKeeps, UnmuteClearsKeeps, UnmuteDiesKeeps
<1>3. CASE \E c \in AllChats :
             \/ UserJoins(c) \/ UserLeaves(c) \/ JoinReads(c) \/ JoinEnforces(c) \/ JoinDies(c)
  BY <1>3, UserJoinsKeeps, UserLeavesKeeps, JoinReadsKeeps, JoinEnforcesKeeps, JoinDiesKeeps
<1>4. CASE \E g \in Groups :
             \/ ConnectStarts(g) \/ ConnectReads(g) \/ ConnectAdds(g) \/ ConnectReplays(g)
             \/ ConnectDies(g) \/ Disconnects(g)
  BY <1>4, ConnectStartsKeeps, ConnectReadsKeeps, ConnectAddsKeeps, ConnectReplaysKeeps,
     ConnectDiesKeeps, DisconnectsKeeps
<1>5. CASE UNCHANGED muteVars
  BY <1>5, StutterKeeps
<1> QED
  BY <1>1, <1>2, <1>3, <1>4, <1>5 DEF MuteNext

(* When nobody is at it, a chat that is reached is calm and settled.       *)
LEMMA IInvMutes == MuteIInv => RecordBacksMutes /\ MutedEverywhere
<1> SUFFICES ASSUME MuteIInv PROVE RecordBacksMutes /\ MutedEverywhere
  OBVIOUS
<1>1. ASSUME Found # "none", ~raced, MutesActing = {}, UnmutesActing = {},
             NEW c \in AllChats \ outlived, Reached(c)
      PROVE  quiet[c] = Found
  <2>1. Calm(c) /\ c \notin missed
    BY <1>1 DEF Reached, Calm
  <2>2. Settled(c)
    BY <1>1, <2>1 DEF MuteIInv, MuteInv, CalmIsSettled
  <2>3. \A n \in Mutes : ~Pending(n, c)
    BY <1>1 DEF MutesActing, Pending
  <2> QED
    BY <1>1, <2>1, <2>2, <2>3 DEF Settled
<1> QED
  BY <1>1 DEF MuteIInv, MuteInv, RecordBacksMutes, MutedEverywhere

LEMMA MuteInductive ==
  ASSUME Named
  PROVE  MuteSpec => []MuteIInv
  BY InitIInv, StepKeepsIInv, PTL DEF MuteSpec

(* The row, the runs and the chats stay what muting_flow.py, greeting.py   *)
(* and connected_flow.py take them for.                                    *)
THEOREM MuteTypeCorrect == MuteSpec => []MuteTypeOK
<1>1. Named
  BY NamedHolds
<1>2. MuteIInv => MuteTypeOK
  BY TypesSuffice DEF MuteIInv
<1> QED
  BY <1>1, <1>2, MuteInductive, PTL

(* However the runs of _execute_mute and execute_unmute, the joins and the *)
(* replays interleave and fail, no chat is left restricted without a row   *)
(* that /tcunmute finds, but for those RecordBacksMutes excuses.           *)
THEOREM MutesAreBacked == MuteSpec => []RecordBacksMutes
<1>1. Named
  BY NamedHolds
<1> QED
  BY <1>1, MuteInductive, IInvMutes, PTL

(* Once every run that wrote or read the row has ended, the user is        *)
(* restricted, for as long as the row says, in every chat of the federation *)
(* that the fan-out, a join (greeting.py) or a replay (complete_join) got to. *)
THEOREM MutesReachEverywhere == MuteSpec => []MutedEverywhere
<1>1. Named
  BY NamedHolds
<1> QED
  BY <1>1, MuteInductive, IInvMutes, PTL

=============================================================================
