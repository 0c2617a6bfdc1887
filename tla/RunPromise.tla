------------------------------ MODULE RunPromise ------------------------------
(***************************************************************************)
(* What Studio promises the owner about the runs of a conversation,        *)
(* without tasks, leases, slots, watchdogs or processes: a message is      *)
(* carried out by one run at a time and answered once, a run that was      *)
(* asked to stop before it started does not start, how a run that started  *)
(* ended is final, and what its stream reported last is true of it.        *)
(***************************************************************************)
CONSTANTS Runs, Conversations, None

VARIABLES
  shown,    \* the status each run is shown with
  place,    \* the conversation it belongs to
  wanted,   \* the message it carries out
  begun,    \* the runs that a worker took
  asked,    \* the runs the owner asked to cancel
  told      \* the final events each run's stream reported

vars == <<shown, place, wanted, begun, asked, told>>

Active == {"queued", "running"}
Dropped == {"failed", "cancelled"}

\* Only a run that no worker took may show another end than before; one that
\* was interrupted may still come to the end of its own.
Open(r) ==
  \/ shown[r] \in Active \cup {"interrupted"}
  \/ shown[r] \in Dropped /\ r \notin begun

Init ==
  /\ shown = [r \in Runs |-> "new"]
  /\ place = [r \in Runs |-> None]
  /\ wanted = [r \in Runs |-> None]
  /\ begun = {}
  /\ asked = {}
  /\ told = [r \in Runs |-> {}]

Shows(r, status) == shown' = [shown EXCEPT ![r] = status]

-----------------------------------------------------------------------------
(* The owner *)

\* A message is new, or the last run that carried it out failed; none of its
\* runs can still answer it, and the conversation has nothing else to do.
Accept(r, c, m) ==
  /\ shown[r] = "new"
  /\ \A s \in Runs : /\ place[s] = c => shown[s] \notin Active
                     /\ wanted[s] = m => place[s] = c /\ shown[s] \in Dropped
  /\ m = r \/ \E s \in Runs : wanted[s] = m /\ shown[s] = "failed"
  /\ Shows(r, "queued")
  /\ place' = [place EXCEPT ![r] = c]
  /\ wanted' = [wanted EXCEPT ![r] = m]
  /\ UNCHANGED <<begun, asked, told>>

Ask(r) ==
  /\ shown[r] \in Active
  /\ asked' = asked \cup {r}
  /\ UNCHANGED <<shown, place, wanted, begun, told>>

\* A conversation goes with all its runs, when none of them is at work.
Forget(c) ==
  LET S == {r \in Runs : place[r] = c}
  IN  /\ \A r \in S : shown[r] \notin Active
      /\ shown' = [r \in Runs |-> IF r \in S THEN "gone" ELSE shown[r]]
      /\ place' = [r \in Runs |-> IF r \in S THEN None ELSE place[r]]
      /\ wanted' = [r \in Runs |-> IF r \in S THEN None ELSE wanted[r]]
      /\ begun' = begun \ S
      /\ asked' = asked \ S
      /\ UNCHANGED told

-----------------------------------------------------------------------------
(* Whoever carries the runs out *)

Start(r) ==
  /\ shown[r] = "queued" /\ r \notin asked
  /\ Shows(r, "running")
  /\ begun' = begun \cup {r}
  /\ UNCHANGED <<place, wanted, asked, told>>

\* An answer, and whether the stream could report it.
Succeed(r) ==
  /\ Open(r) /\ r \in begun /\ told[r] = {}
  /\ Shows(r, "succeeded")
  /\ told' \in {told, [told EXCEPT ![r] = {"finished"}]}
  /\ UNCHANGED <<place, wanted, begun, asked>>

Fail(r) ==
  /\ Open(r)
  /\ Shows(r, "failed")
  /\ UNCHANGED <<place, wanted, begun, asked, told>>

Cancel(r) ==
  /\ Open(r) /\ r \in asked
  /\ Shows(r, "cancelled")
  /\ UNCHANGED <<place, wanted, begun, asked, told>>

\* The work of some runs was lost.
Interrupt(S) ==
  /\ \A r \in S : shown[r] \in Active
  /\ shown' = [r \in Runs |-> IF r \in S THEN "interrupted" ELSE shown[r]]
  /\ UNCHANGED <<place, wanted, begun, asked, told>>

\* The stream ends without an answer, for a run that will have none.
Report(r) ==
  /\ shown[r] \in Dropped \cup {"interrupted", "running"}
  /\ "finished" \notin told[r]
  /\ told' = [told EXCEPT ![r] = {"error"}]
  /\ UNCHANGED <<shown, place, wanted, begun, asked>>

Next ==
  \/ \E S \in SUBSET Runs : Interrupt(S)
  \/ \E r \in Runs :
       \/ \E c \in Conversations, m \in Runs : Accept(r, c, m)
       \/ Ask(r) \/ Start(r) \/ Succeed(r) \/ Fail(r) \/ Cancel(r) \/ Report(r)
  \/ \E c \in Conversations : Forget(c)

Spec == Init /\ [][Next]_vars
=============================================================================
