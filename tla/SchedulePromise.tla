--------------------------- MODULE SchedulePromise ---------------------------
(***************************************************************************)
(* What the calendar promises the owner about a scheduled post, without    *)
(* leases, requests or reconciliation: which statuses can follow each      *)
(* other, which of them are claims about Telegram, and that no message is  *)
(* handed to Telegram twice (docs/publishing.md, "Schedule a draft" and    *)
(* "Change a schedule").                                                   *)
(***************************************************************************)
EXTENDS Naturals

CONSTANTS Posts, Parts, PostOf

VARIABLES
  shown,    \* the status the calendar shows for each post
  handed,   \* how often each message was handed to Telegram
  out       \* the messages Telegram published

vars == <<shown, handed, out>>

PartsOf(p) == {x \in Parts : PostOf[x] = p}
AllHanded(p) == \A x \in PartsOf(p) : handed[x] > 0
Untouched(p) == \A x \in PartsOf(p) : handed[x] = 0
AllOut(p) == PartsOf(p) \subseteq out

Init ==
  /\ shown = [p \in Posts |-> "absent"]
  /\ handed = [x \in Parts |-> 0]
  /\ out = {}

\* The owner's decisions
Asks(p, s) ==
  \/ shown[p] = "absent" /\ s = "queued"
  \/ shown[p] = "queued" /\ s = "cancelled"
  \/ shown[p] = "failed" /\ s = "queued"
  \/ shown[p] = "scheduled" /\ s \in {"updating", "cancelling"}
  \/ shown[p] = "needs_review" /\ s = "cancelling" /\ AllHanded(p)
  \/ shown[p] = "needs_review" /\ s = "cancelled"

\* What the worker reports
Reports(p, s) ==
  \/ shown[p] = "queued" /\ s = "transferring"
  \/ shown[p] = "transferring" /\ s = "scheduled" /\ AllHanded(p)
  \/ shown[p] = "transferring" /\ s = "failed" /\ Untouched(p)
  \/ shown[p] = "updating" /\ s = "scheduled"
  \/ shown[p] = "cancelling" /\ s = "cancelled"
  \/ shown[p] \in {"transferring", "updating", "cancelling", "scheduled"}
       /\ s = "needs_review"

\* What is learnt from Telegram
Observes(p, s) ==
  /\ shown[p] \in {"scheduled", "needs_review"}
  /\ \/ s = "scheduled" /\ AllHanded(p)
     \/ s = "published" /\ AllOut(p)
     \/ s = "cancelled"

Show ==
  /\ \E p \in Posts : shown'[p] # shown[p]
  /\ DOMAIN shown' = Posts
  /\ \A p \in Posts : \/ shown'[p] = shown[p] \/ Asks(p, shown'[p])
                      \/ Reports(p, shown'[p]) \/ Observes(p, shown'[p])
  /\ UNCHANGED <<handed, out>>

\* Messages go to Telegram once, and never behind a post that is shown as not
\* yet transferred or as safe to retry.
HandOver(S) ==
  /\ \A x \in S : /\ handed[x] = 0
                  /\ shown[PostOf[x]] \notin {"absent", "queued", "failed"}
  /\ handed' = [x \in Parts |-> IF x \in S THEN 1 ELSE handed[x]]
  /\ UNCHANGED <<shown, out>>

Publish(S) ==
  /\ \A x \in S : handed[x] > 0
  /\ out' = out \cup S
  /\ UNCHANGED <<shown, handed>>

Next == Show \/ \E S \in SUBSET Parts : HandOver(S) \/ Publish(S)

Spec == Init /\ [][Next]_vars
=============================================================================
