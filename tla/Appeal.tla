------------------------------- MODULE Appeal -------------------------------
(***************************************************************************)
(* The appeal of one ban: the submission conversation of the banned user   *)
(* (workflows/appeal_submit_flow.py), the decisions of the staff           *)
(* (workflows/appeal_review_flow.py) and the review fields of the ban      *)
(* document (database/bans_db.py).                                         *)
(*                                                                         *)
(* Handlers are tasks that interleave at their awaits.  A database call    *)
(* may fail before or after it took effect; an edit or a deletion of a     *)
(* card may fail.  Hours pass in the steps the code tells apart: 12 h and  *)
(* 72 h of a review, 24 h of a rejection.  A reply to the user is not a    *)
(* step of its own.  What an approval does in the chats is FedBan's unban. *)
(***************************************************************************)
EXTENDS Naturals, FiniteSets

CONSTANTS
    MaxEntries,     \* bound: deep links the user opens
    MaxMessages,    \* bound: messages the user sends
    MaxTaps,        \* bound: taps on review cards
    MaxInFlight,    \* bound: the handlers that run at the same time
    Reviewers,      \* founders and admins
    BanAdmin,       \* the admin_user_id of the ban
    Routed          \* the buttons whose callback data the handler's pattern matches:
                    \* both by the documents, "approve" as keyboards.py builds them

Verdicts == {"approve", "reject"}

ASSUME AppealAssumption ==
    {MaxEntries, MaxMessages, MaxTaps, MaxInFlight} \subseteq Nat
ASSUME ReviewersAssumption == BanAdmin \in Reviewers /\ Routed \subseteq Verdicts

Entries == 1..MaxEntries
Messages == 1..MaxMessages
Taps == 1..MaxTaps

\* A review card is named by the message that posted it.
Cards == Messages
NoCard == 0

VARIABLES
    doc,        \* the ban: is_active, review_message_id, the ages of review and rejection
    conv,       \* PTB's state of the conversation
    keys,       \* whether user_data holds the appeal_* keys
    entry,      \* _on_entry of each deep link
    message,    \* _on_message of each message
    card,       \* the review cards in the main group
    tap,        \* on_decision of each tap
    leaving,    \* a cancel or fallback handler is in flight (bound: one)
    struck      \* history: a failed call cost a pending review its card

userVars == <<conv, keys, entry, leaving>>

appealVars == <<doc, conv, keys, entry, message, card, tap, leaving, struck>>

AppealTypeOK ==
    /\ doc \in [active : BOOLEAN, slot : Cards \cup {NoCard},
                age : {"locked", "open", "stale"}, rejected : {"never", "cooling", "over"}]
    /\ doc.slot = NoCard => doc.age = "locked"
    /\ conv \in {"none", "waiting"}
    /\ keys \in BOOLEAN /\ leaving \in BOOLEAN /\ struck \in BOOLEAN
    /\ entry \in [Entries ->
            {"unsent", "reading", "clearing", "cleaning", "prompting", "returned"}]
    /\ message \in [Messages ->
            [pc : {"unsent", "reading", "fetching", "clearing", "cleaning", "gated", "claiming",
                   "discarding", "undelivered", "ending", "returned"},
             early : BOOLEAN]]
    /\ card \in [Cards -> {"none", "posted", "claimed", "loose"}]
    /\ tap \in [Taps ->
            [pc : {"none", "tapped", "approving", "rejecting", "closing", "batch", "returned"},
             by : Reviewers, verdict : Verdicts, card : Cards \cup {NoCard},
             seen : Cards \cup {NoCard}, todo : SUBSET {"clear", "edit"}, late : BOOLEAN]]

NoTap == [pc |-> "none", by |-> BanAdmin, verdict |-> "approve",
          card |-> NoCard, seen |-> NoCard, todo |-> {}, late |-> FALSE]

AppealInit ==
    /\ doc = [active |-> TRUE, slot |-> NoCard, age |-> "locked", rejected |-> "never"]
    /\ conv = "none" /\ keys = FALSE /\ leaving = FALSE /\ struck = FALSE
    /\ entry = [a \in Entries |-> "unsent"]
    /\ message = [m \in Messages |-> [pc |-> "unsent", early |-> FALSE]]
    /\ card = [c \in Cards |-> "none"]
    /\ tap = [t \in Taps |-> NoTap]

-----------------------------------------------------------------------------
\* The bound on concurrency is looked at when an update is dispatched.
Room ==
    MaxInFlight > Cardinality({a \in Entries : entry[a] \notin {"unsent", "returned"}})
                  + Cardinality({m \in Messages : message[m].pc \notin {"unsent", "returned"}})
                  + Cardinality({t \in Taps : tap[t].pc \notin {"none", "returned"}})
                  + (IF leaving THEN 1 ELSE 0)

(* The review fields of the ban document. *)

Live(c) == card[c] # "none"

CardAfterClaim(m) == [card EXCEPT ![m] = IF @ = "posted" THEN "claimed" ELSE @]

\* set_review.
SlotOverwritten(m) ==
    /\ doc' = [doc EXCEPT !.slot = m, !.age = "locked"]
    /\ card' = CardAfterClaim(m)

(* set_review_if_absent, when no review is stored. *)
SlotTaken(m) ==
    /\ doc.slot = NoCard
    /\ doc' = [doc EXCEPT !.slot = m, !.age = "locked"]
    /\ card' = CardAfterClaim(m)

(* clear_review: whatever review is stored by now. *)
ReviewCleared ==
    /\ doc' = [doc EXCEPT !.slot = NoCard, !.age = "locked"]
    /\ card' = [c \in Cards |->
                  IF c = doc.slot /\ card[c] = "claimed" THEN "loose" ELSE card[c]]

(* _is_stale_review and _cooldown_remaining_h, over the record just read.  *)
(* A handler refuses, passes, or first clears a stale review: then it      *)
(* refuses ("cleaning") or passes ("clearing").                            *)
StaleReview == doc.slot # NoCard /\ doc.age = "stale"

Gates ==
    CASE ~doc.active -> "refused"
      [] doc.active /\ doc.slot # NoCard /\ ~StaleReview -> "refused"
      [] doc.active /\ StaleReview ->
            IF doc.rejected = "cooling" THEN "cleaning" ELSE "clearing"
      [] doc.active /\ doc.slot = NoCard ->
            IF doc.rejected = "cooling" THEN "refused" ELSE "passed"

-----------------------------------------------------------------------------
(* _on_entry and _start.  Any reader may find the database unreachable.    *)

EntryDispatch(a) ==
    /\ Room /\ entry[a] = "unsent"
    /\ \A b \in Entries : b < a => entry[b] # "unsent"
    /\ conv = "none"
    /\ entry' = [entry EXCEPT ![a] = "reading"]
    /\ UNCHANGED <<doc, conv, keys, message, card, tap, leaving, struck>>

EntryRefused(a) ==
    /\ entry' = [entry EXCEPT ![a] = "returned"]
    /\ conv' = "none"
    /\ UNCHANGED keys

(* The keys are set without an await after the last gate. *)
EntryPasses(a) ==
    /\ entry' = [entry EXCEPT ![a] = "prompting"]
    /\ keys' = TRUE
    /\ UNCHANGED conv

EntryReads(a) ==
    /\ entry[a] = "reading"
    /\ \/ EntryRefused(a)
       \/ Gates = "passed" /\ EntryPasses(a)
       \/ /\ Gates \in {"clearing", "cleaning"}
          /\ entry' = [entry EXCEPT ![a] = Gates]
          /\ UNCHANGED <<conv, keys>>
    /\ UNCHANGED <<doc, message, card, tap, leaving, struck>>

(* A failed clear, landed or not, ends the conversation. *)
EntryClears(a) ==
    /\ entry[a] \in {"clearing", "cleaning"}
    /\ \/ EntryRefused(a) /\ (ReviewCleared \/ UNCHANGED <<doc, card>>)
       \/ entry[a] = "clearing" /\ EntryPasses(a) /\ ReviewCleared
    /\ UNCHANGED <<message, tap, leaving, struck>>

(* The instructions are sent; if they cannot be, the keys are popped.      *)
EntryReturns(a) ==
    /\ entry[a] = "prompting"
    /\ entry' = [entry EXCEPT ![a] = "returned"]
    /\ \/ conv' = "waiting" /\ UNCHANGED keys
       \/ conv' = "none" /\ keys' = FALSE
    /\ UNCHANGED <<doc, message, card, tap, leaving, struck>>

(* _on_cancel and _end: the keys first, PTB's state on return. *)
Leave ==
    /\ Room /\ conv = "waiting" /\ ~leaving
    /\ leaving' = TRUE
    /\ keys' = FALSE
    /\ UNCHANGED <<doc, conv, entry, message, card, tap, struck>>

LeaveReturns ==
    /\ leaving
    /\ leaving' = FALSE
    /\ conv' = "none"
    /\ UNCHANGED <<doc, keys, entry, message, card, tap, struck>>

-----------------------------------------------------------------------------
(* _on_message. *)

MessageDispatch(m) ==
    /\ Room /\ message[m].pc = "unsent"
    /\ \A n \in Messages : n < m => message[n].pc # "unsent"
    /\ conv = "waiting"
    /\ message' = [message EXCEPT ![m] =
                     [pc |-> "reading", early |-> doc.rejected # "cooling"]]
    /\ UNCHANGED <<doc, conv, keys, entry, card, tap, leaving, struck>>

\* The history of a message that returned no longer matters.
MessageReturned == [pc |-> "returned", early |-> FALSE]

MessageAt(m, pc) ==
    message' = [message EXCEPT ![m] =
                  IF pc = "returned" THEN MessageReturned ELSE [@ EXCEPT !.pc = pc]]

(* No #appeal tag, too long, or no reference to the ban's log message.     *)
MessageStays(m) ==
    /\ message[m].pc \in {"reading", "gated"}
    /\ MessageAt(m, "returned")
    /\ conv' = "waiting"
    /\ UNCHANGED <<doc, keys, entry, card, tap, leaving, struck>>

MessageTakesKeys(m) ==
    /\ message[m].pc = "reading"
    /\ \/ keys /\ MessageAt(m, "fetching") /\ UNCHANGED conv
       \/ ~keys /\ MessageAt(m, "returned") /\ conv' = "none"
    /\ UNCHANGED <<doc, keys, entry, card, tap, leaving, struck>>

MessageSkipsCooldown(m) ==
    /\ message[m].pc = "fetching"
    /\ \/ MessageAt(m, "ending")
       \/ doc.active /\ doc.slot = NoCard /\ MessageAt(m, "gated")
       \/ doc.active /\ StaleReview /\ MessageAt(m, "clearing")
    /\ UNCHANGED <<doc, conv, keys, entry, card, tap, leaving, struck>>

(* The gates again, over a fresh record. *)
MessageReads(m) ==
    /\ message[m].pc = "fetching"
    /\ \/ MessageAt(m, "ending")
       \/ Gates = "passed" /\ MessageAt(m, "gated")
       \/ Gates \in {"clearing", "cleaning"} /\ MessageAt(m, Gates)
    /\ UNCHANGED <<doc, conv, keys, entry, card, tap, leaving, struck>>

MessageClears(m) ==
    /\ message[m].pc \in {"clearing", "cleaning"}
    /\ \/ MessageAt(m, "ending") /\ (ReviewCleared \/ UNCHANGED <<doc, card>>)
       \/ message[m].pc = "clearing" /\ MessageAt(m, "gated") /\ ReviewCleared
    /\ UNCHANGED <<conv, keys, entry, tap, leaving, struck>>

(* The forward, then the review card and the log message.  A card whose    *)
(* send is reported as failed may be there all the same; the log message   *)
(* decides only whether the user is told of a failure.                     *)
MessagePosts(m) ==
    /\ message[m].pc = "gated"
    /\ \/ card' = [card EXCEPT ![m] = "posted"] /\ MessageAt(m, "claiming")
       \/ /\ card' \in {card, [card EXCEPT ![m] = "loose"]}
          /\ \E pc \in {"ending", "undelivered"} : MessageAt(m, pc)
    /\ UNCHANGED <<doc, conv, keys, entry, tap, leaving, struck>>

(* The claim: won, won without knowing it, lost, or failed. *)
MessageClaims(m) ==
    /\ message[m].pc = "claiming"
    /\ \/ SlotTaken(m) /\ (MessageAt(m, "ending") \/ MessageAt(m, "discarding"))
       \/ MessageAt(m, "discarding") /\ UNCHANGED <<doc, card>>
    /\ UNCHANGED <<conv, keys, entry, tap, leaving, struck>>

(* The loser deletes its own card, best-effort. *)
MessageDiscards(m) ==
    /\ message[m].pc = "discarding"
    /\ MessageAt(m, "ending")
    /\ \/ card' = [card EXCEPT ![m] = "none"]
       \/ card' = [card EXCEPT ![m] = IF @ = "posted" THEN "loose" ELSE @]
    /\ struck' = (struck \/ doc.slot = m)
    /\ UNCHANGED <<doc, conv, keys, entry, tap, leaving>>

MessageEnds(m) ==
    /\ message[m].pc = "ending"
    /\ MessageAt(m, "returned")
    /\ keys' = FALSE
    /\ conv' = "none"
    /\ UNCHANGED <<doc, entry, card, tap, leaving, struck>>

(* Neither the card nor the log message: the user may send it again. *)
MessageUndelivered(m) ==
    /\ message[m].pc = "undelivered"
    /\ MessageAt(m, "returned")
    /\ conv' = "waiting"
    /\ UNCHANGED <<doc, keys, entry, card, tap, leaving, struck>>

-----------------------------------------------------------------------------
(* on_decision. *)

\* A verdict is on record, or the ban was lifted.
Decided == ~doc.active \/ doc.rejected # "never"

TapDispatch(t) ==
    /\ Room /\ tap[t].pc = "none"
    /\ \A u \in Taps : u < t => tap[u].pc # "none"
    /\ \E r \in Reviewers, v \in Verdicts, c \in Cards :
          /\ Live(c)
          /\ tap' = [tap EXCEPT ![t] = [@ EXCEPT !.pc = "tapped", !.by = r, !.verdict = v,
                                                 !.card = c, !.late = Decided]]
    /\ UNCHANGED <<doc, card, struck, message, userVars>>

Handled(t) == tap[t].verdict \in Routed

NobodyLockedOut(t) == FALSE

(* reviewer_locked_out. *)
LockedOut(t) == tap[t].by # BanAdmin /\ doc.age = "locked"

TapAt(t, pc, todo) == tap' = [tap EXCEPT ![t].pc = pc, ![t].todo = todo]

TapReturns(t) == tap' = [tap EXCEPT ![t] = [NoTap EXCEPT !.pc = "returned"]]

(* The card of the tap, edited or not: without a keyboard it is closed.    *)
CardEdited(t) ==
    card' \in {card, [card EXCEPT ![tap[t].card] = "none"]}

TurnedAwayOnCard(t) ==
    /\ tap[t].pc = "tapped" /\ Handled(t)
    /\ TapReturns(t)
    /\ CardEdited(t)
    /\ UNCHANGED <<doc, struck, message, userVars>>

(* Not staff, or the role cannot be read. *)
TapTurnedAway(t) ==
    /\ tap[t].pc = "tapped" /\ Handled(t)
    /\ TapReturns(t)
    /\ UNCHANGED <<doc, card, struck, message, userVars>>

(* get_ban failed: the card is edited into "not found". *)
TapLosesBan(t) ==
    /\ tap[t].pc = "tapped" /\ Handled(t)
    /\ TapReturns(t)
    /\ CardEdited(t)
    /\ struck' = (struck \/ card' # card)
    /\ UNCHANGED <<doc, message, userVars>>

SlotEmpty == doc.slot = NoCard

(* The guard against a second decision. *)
Resolved == doc.rejected # "never" \/ doc.slot = NoCard

TapDecides(t) ==
    /\ tap[t].pc = "tapped" /\ Handled(t)
    /\ doc.active /\ ~Resolved /\ ~LockedOut(t)
    /\ tap' = [tap EXCEPT ![t].pc = IF tap[t].verdict = "approve" THEN "approving" ELSE "rejecting",
                          ![t].seen = doc.slot]
    /\ UNCHANGED <<doc, card, struck, message, userVars>>

TapStandsDown(t) ==
    /\ tap[t].pc = "tapped" /\ Handled(t)
    /\ IF doc.active THEN Resolved \/ LockedOut(t) ELSE doc.slot = NoCard
    /\ TapReturns(t)
    /\ UNCHANGED <<doc, card, struck, message, userVars>>

(* A lifted ban that still carries a review: clear it, then edit the card. *)
TapTidies(t) ==
    /\ tap[t].pc = "tapped" /\ Handled(t)
    /\ ~doc.active /\ doc.slot # NoCard
    /\ TapAt(t, "closing", {"clear", "edit"})
    /\ UNCHANGED <<doc, card, struck, message, userVars>>

(* _approve_appeal.  A failed read of the groups or a failed deactivation  *)
(* leaves the card alone; that one may have landed.                        *)
ApproveDeactivates(t) ==
    /\ tap[t].pc = "approving"
    /\ \/ TapAt(t, "closing", {"clear", "edit"})
          /\ doc' = [doc EXCEPT !.active = FALSE]
       \/ TapReturns(t) /\ doc' \in {doc, [doc EXCEPT !.active = FALSE]}
    /\ UNCHANGED <<card, struck, message, userVars>>

(* _reject_appeal.  A failed set_rejected_by, landed or not, goes on.      *)
RejectRecords(t) ==
    /\ tap[t].pc = "rejecting"
    /\ TapAt(t, "batch", {"clear", "edit"})
    /\ \/ doc' = [doc EXCEPT !.rejected = "cooling"] /\ UNCHANGED struck
       \/ doc' = doc /\ struck' = TRUE
    /\ UNCHANGED <<card, message, userVars>>

Finishing(t) == tap[t].pc \in {"closing", "batch"}

TapFinishes(t, step) ==
    IF tap[t].todo = {step} THEN TapReturns(t) ELSE TapAt(t, tap[t].pc, tap[t].todo \ {step})

\* The last steps of a verdict; a gather runs them in any order.
TapClears(t) ==
    /\ Finishing(t) /\ "clear" \in tap[t].todo
    /\ TapFinishes(t, "clear")
    /\ ReviewCleared \/ UNCHANGED <<doc, card>>
    /\ UNCHANGED <<struck, message, userVars>>

TapEdits(t) ==
    /\ Finishing(t) /\ "edit" \in tap[t].todo
    /\ tap[t].pc = "closing" => "clear" \notin tap[t].todo
    /\ TapFinishes(t, "edit")
    /\ CardEdited(t)
    /\ UNCHANGED <<doc, struck, message, userVars>>

-----------------------------------------------------------------------------
(* Around the appeal. *)

(* execute_unban, by hand: it never touches the review fields. *)
LiftedByHand ==
    /\ doc.active
    /\ doc' = [doc EXCEPT !.active = FALSE]
    /\ UNCHANGED <<card, tap, struck, message, userVars>>

(* The clock.  No handler runs for the 24 h of a cooldown.                 *)
ReviewAges ==
    /\ doc.slot # NoCard /\ doc.age # "stale"
    /\ doc' = [doc EXCEPT !.age = IF @ = "locked" THEN "open" ELSE "stale"]
    /\ UNCHANGED <<card, tap, struck, message, userVars>>

CooldownEnds ==
    /\ doc.rejected = "cooling"
    /\ \A t \in Taps : tap[t].pc # "rejecting"
    /\ doc' = [doc EXCEPT !.rejected = "over"]
    /\ UNCHANGED <<card, tap, struck, message, userVars>>

(* The process stops: tasks, conversations and user_data are gone. *)
Restart ==
    /\ conv' = "none" /\ keys' = FALSE /\ leaving' = FALSE
    /\ entry' = [a \in Entries |-> IF entry[a] = "unsent" THEN "unsent" ELSE "returned"]
    /\ message' = [m \in Messages |->
         IF message[m].pc = "unsent" THEN message[m] ELSE MessageReturned]
    /\ card' = [c \in Cards |-> IF card[c] = "posted" THEN "loose" ELSE card[c]]
    /\ tap' = [t \in Taps |->
         IF tap[t].pc = "none" THEN NoTap ELSE [NoTap EXCEPT !.pc = "returned"]]
    /\ UNCHANGED <<doc, struck>>

EntryStep(a) ==
    EntryDispatch(a) \/ EntryReads(a) \/ EntryClears(a) \/ EntryReturns(a)

MessageStep(m) ==
    \/ MessageDispatch(m) \/ MessageStays(m) \/ MessageTakesKeys(m) \/ MessageReads(m)
    \/ MessageClears(m) \/ MessagePosts(m) \/ MessageClaims(m) \/ MessageDiscards(m)
    \/ MessageEnds(m) \/ MessageUndelivered(m)

TapStep(t) ==
    \/ TapTurnedAway(t) \/ TapLosesBan(t) \/ TapDecides(t) \/ TapStandsDown(t) \/ TapTidies(t)
    \/ ApproveDeactivates(t) \/ RejectRecords(t) \/ TapClears(t) \/ TapEdits(t)

AppealNext ==
    \/ \E a \in Entries : EntryStep(a)
    \/ Leave \/ LeaveReturns
    \/ \E m \in Messages : MessageStep(m)
    \/ \E t \in Taps : TapDispatch(t) \/ TapStep(t)
    \/ LiftedByHand \/ ReviewAges \/ CooldownEnds
    \/ Restart

AppealSpec == AppealInit /\ [][AppealNext]_appealVars

-----------------------------------------------------------------------------
(* A card that holds the claim is the one the ban document names, and a    *)
(* posted card without a claim has a handler that will claim or delete it: *)
(* concurrent submissions leave one pending review                         *)
(* (appeal_submit_flow.py:524-570).                                        *)
NoOrphanCard ==
    \A c \in Cards :
        /\ card[c] = "claimed" => doc.slot = c
        /\ card[c] = "posted" => message[c].pc \in {"claiming", "discarding"}

(* A pending review of an active ban can be decided: its own card is live, *)
(* whatever taps that decide nothing, cancelled or racing handlers did,    *)
(* unless a failed call struck it.                                         *)
PendingIsActionable ==
    doc.active /\ doc.rejected = "never" /\ doc.slot # NoCard /\ ~struck
        => card[doc.slot] = "claimed"

(* A tap sent after a verdict landed, or after the ban was lifted, never   *)
(* decides (appeal_review_flow.py:216-229); its read may be much older     *)
(* than its answer only in taps that overlap the first.                    *)
LateTapDecidesNothing ==
    \A t \in Taps : tap[t].late => tap[t].pc \notin {"approving", "rejecting", "batch"}

(* In the first 12 hours of a review only the banning admin decides: while *)
(* the review a tap has read is still the stored one, a decision under way *)
(* is the admin's or the window is over.                                   *)
PriorityWindow ==
    \A t \in Taps :
        /\ tap[t].pc \in {"approving", "rejecting"}
        /\ tap[t].by # BanAdmin
        /\ tap[t].seen = doc.slot
        => doc.age # "locked"

(* A message sent during the cooldown never becomes a pending review       *)
(* during the cooldown, however old its conversation is.                   *)
CooldownBinds ==
    [][\A m \in Messages :
          message[m].pc = "claiming" /\ doc'.slot = m /\ doc.slot # m
              => message[m].early \/ doc.rejected # "cooling"]_appealVars
=============================================================================
