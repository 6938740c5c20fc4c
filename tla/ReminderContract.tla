------------------------- MODULE ReminderContract -------------------------
(***************************************************************************)
(* What the daily saved-post reminder promises, without WorkManager,       *)
(* workers, retries or crashes: a ledger with one entry per local date.    *)
(*                                                                         *)
(* A date's post is chosen once and then stays the same, it may be shown   *)
(* again as long as the delivery is not recorded, a delivery is recorded   *)
(* only for a post that was shown, and nothing is shown after that.  Only  *)
(* the user, by changing the reminder time, reopens a date.                *)
(***************************************************************************)
EXTENDS Naturals

CONSTANTS
    Posts,      \* the posts that can be chosen
    Days,       \* the local dates
    None        \* no post

VARIABLES
    chosen,     \* chosen[d]: the post selected for d, or None
    recorded,   \* recorded[d]: the delivery of d has been recorded
    shown,      \* shown[d]: every post the user was notified of on d
    reopened    \* reopened[d]: the user changed the reminder time on d

vars == <<chosen, recorded, shown, reopened>>

TypeOK ==
    /\ chosen \in [Days -> Posts \cup {None}]
    /\ recorded \in [Days -> BOOLEAN]
    /\ shown \in [Days -> SUBSET Posts]
    /\ reopened \in [Days -> BOOLEAN]

Init ==
    /\ chosen = [d \in Days |-> None]
    /\ recorded = [d \in Days |-> FALSE]
    /\ shown = [d \in Days |-> {}]
    /\ reopened = [d \in Days |-> FALSE]

Choose(d, p) ==
    /\ chosen[d] = None
    /\ chosen' = [chosen EXCEPT ![d] = p]
    /\ UNCHANGED <<recorded, shown, reopened>>

Show(d, p) ==
    /\ (chosen[d] = p /\ ~recorded[d]) \/ reopened[d]
    /\ shown' = [shown EXCEPT ![d] = @ \cup {p}]
    /\ UNCHANGED <<chosen, recorded, reopened>>

Record(d) ==
    /\ chosen[d] \in shown[d]
    /\ recorded' = [recorded EXCEPT ![d] = TRUE]
    /\ UNCHANGED <<chosen, shown, reopened>>

Reopen(d) ==
    /\ chosen' = [chosen EXCEPT ![d] = None]
    /\ recorded' = [recorded EXCEPT ![d] = FALSE]
    /\ reopened' = [reopened EXCEPT ![d] = TRUE]
    /\ UNCHANGED shown

Next ==
    \E d \in Days :
        \/ \E p \in Posts : Choose(d, p) \/ Show(d, p)
        \/ Record(d)
        \/ Reopen(d)

Spec == Init /\ [][Next]_vars

-----------------------------------------------------------------------------
(***************************************************************************)
(* Unless the user reopened a date, all its notifications are of one post. *)
(***************************************************************************)
OnePostPerDay ==
    \A d \in Days : ~reopened[d] => \A p, q \in shown[d] : p = q

(* A date is recorded as delivered only if its post was really shown.      *)
RecordedWasShown ==
    \A d \in Days : recorded[d] => chosen[d] \in shown[d]
=============================================================================
