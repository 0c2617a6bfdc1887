---------------------------- MODULE ScheduleTime ----------------------------
(***************************************************************************)
(* The time of one post: what the owner enters in a dialog, what instant   *)
(* that is, and how much of it is left when the post goes to Telegram.     *)
(*                                                                         *)
(* Wall and Resolve are zoneinfo: what the clocks of a zone show, and the  *)
(* instant it takes a local time for.  An instant stands for half a minute *)
(* or more; the second between photos and text is less than that.          *)
(* Cancellation, leases and reconciliation are in PublishingQueue.         *)
(***************************************************************************)
EXTENDS Integers

CONSTANTS Horizon,    \* the last instant that is looked at
          Zones,
          Walls,      \* local times
          Wall,       \* what the clocks of each zone show at each instant
          Resolve,    \* datetime.astimezone(UTC), by zone, local time and fold
          Lead,       \* MIN_LEAD_SECONDS
          Year,       \* MAX_LEAD_DAYS
          Patience,   \* the timeout in mutate
          Unset

Instants == 0..Horizon
Folds == {"first", "second"}

\* A local time that clocks show is taken for the first, or the last, instant at
\* which they do; one that they skip may be taken for anything.
ASSUME ScheduleTimeAssumption ==
  /\ Horizon \in Nat /\ Lead \in Nat /\ Year \in Nat /\ Patience \in Nat
  /\ Patience < Lead
  /\ Wall \in [Zones -> [Instants -> Walls]]
  /\ Resolve \in [Zones -> [Walls -> [Folds -> Instants]]]
  /\ \A z \in Zones : \A t \in Instants :
       LET taken == Resolve[z][Wall[z][t]]
       IN  /\ taken["first"] <= t /\ t <= taken["second"]
           /\ \A f \in Folds : Wall[z][taken[f]] = Wall[z][t]

VARIABLES clock,     \* now, for the web and the worker
          form,      \* the dialog
          due,       \* the post's row, with the times that were asked for
          transfer,  \* the worker on it
          reached    \* the request that reached Telegram last

timeVars == <<clock, form, due, transfer, reached>>

Form == [date : Walls, zone : Zones, fold : Folds \cup {Unset}, asks : BOOLEAN]
Moment == [at : Instants, zone : Zones, date : Walls, fold : Folds \cup {Unset}]
Due == [status : {"queued", "transferring", "updating", "scheduled", "failed",
                  "needs_review"},
        time : Moment, next : Moment \cup {Unset}]
Transfer == [pc : {"upload", "look", "waiting", "lost"},
             act : {"schedule", "update"}, at : Instants, since : Instants]
Arrival == [act : {"schedule", "update"}, at : Instants, when : Instants,
            late : BOOLEAN]

ASSUME UnsetAssumption ==
  /\ Unset \notin Folds
  /\ Unset \notin Moment /\ Unset \notin Due
  /\ Unset \notin Transfer /\ Unset \notin Arrival

TimeTypeOK ==
  /\ clock \in Instants
  /\ form \in Form
  /\ due \in Due \cup {Unset}
  /\ transfer \in Transfer \cup {Unset}
  /\ reached \in Arrival \cup {Unset}

TimeInit ==
  /\ clock = 0
  /\ form \in [date : Walls, zone : Zones, fold : {Unset}, asks : {FALSE}]
  /\ due = Unset /\ transfer = Unset /\ reached = Unset

-----------------------------------------------------------------------------
(* The dialog *)

SetDate(date) ==
  /\ form' = [form EXCEPT !.date = date]
  /\ UNCHANGED <<clock, due, transfer, reached>>

SetZone(zone) ==
  /\ form' = [form EXCEPT !.zone = zone, !.fold = Unset]
  /\ UNCHANGED <<clock, due, transfer, reached>>

\* Offered once the server has found that the time occurs twice.
SetFold(fold) ==
  /\ form.asks
  /\ form' = [form EXCEPT !.fold = fold]
  /\ UNCHANGED <<clock, due, transfer, reached>>

\* Edit / reschedule: the fields are those of the post; the occurrence stays, in a
\* dialog that was open before.
EditAgain(anew) ==
  /\ due # Unset /\ due.status \in {"failed", "scheduled"}
  /\ form' = [date |-> Wall[due.time.zone][due.time.at], zone |-> due.time.zone,
              fold |-> IF anew THEN Unset ELSE form.fold,
              asks |-> ~anew /\ form.asks]
  /\ UNCHANGED <<clock, due, transfer, reached>>

-----------------------------------------------------------------------------
(* The server: local_to_utc, and the row *)

\* Variant: what is shown at the instant is not compared with what was asked
Candidates_Unchecked(zone, date) == {Resolve[zone][date][fold] : fold \in Folds}

Candidates(zone, date) ==
  {t \in {Resolve[zone][date][fold] : fold \in Folds} : Wall[zone][t] = date}

Twice(zone, date) == \E s, t \in Candidates(zone, date) : s # t

\* validate_future
Ahead(t) == clock + Lead <= t /\ t <= clock + Year

Asked(f) ==
  [at |-> Resolve[f.zone][f.date][IF f.fold = Unset THEN "first" ELSE f.fold],
   zone |-> f.zone, date |-> f.date, fold |-> f.fold]

Undecided(f) == Twice(f.zone, f.date) /\ f.fold = Unset

\* The first dialog closes once there is a post, and later ones are new.
ConfirmTime ==
  /\ due # Unset => due.status \in {"failed", "scheduled"}
  /\ IF /\ Candidates(form.zone, form.date) # {}
        /\ ~Undecided(form) /\ Ahead(Asked(form).at)
     THEN due' = IF due # Unset /\ due.status = "scheduled"
                 THEN [due EXCEPT !.status = "updating", !.next = Asked(form)]
                 ELSE [status |-> "queued", time |-> Asked(form), next |-> Unset]
     ELSE UNCHANGED due
  /\ form' = [form EXCEPT !.asks = Undecided(form),
                          !.fold = IF due = Unset /\ due' # Unset THEN Unset ELSE @]
  /\ UNCHANGED <<clock, transfer, reached>>

-----------------------------------------------------------------------------
(* The worker *)

Ends(status) ==
  /\ due' = [due EXCEPT !.status = status, !.next = Unset]
  /\ transfer' = Unset

\* process, up to its first call that may change something in Telegram.
BeginTransfer ==
  /\ transfer = Unset /\ due # Unset /\ due.status \in {"queued", "updating"}
  /\ LET update == due.status = "updating"
         at == IF update THEN due.next.at ELSE due.time.at
     IN  IF Ahead(at)
         THEN /\ transfer' = [pc |-> IF update THEN "look" ELSE "upload",
                              act |-> IF update THEN "update" ELSE "schedule",
                              at |-> at, since |-> clock]
              /\ due' = IF update THEN due ELSE [due EXCEPT !.status = "transferring"]
         ELSE Ends(IF update THEN "needs_review" ELSE "failed")
  /\ UNCHANGED <<clock, form, reached>>

Leaves == transfer' = [transfer EXCEPT !.pc = "waiting", !.since = clock]

\* Variant: the time is not looked at again after the uploads
SubmitPost_Unchecked ==
  /\ transfer # Unset /\ transfer.pc = "upload"
  /\ Leaves
  /\ UNCHANGED <<clock, form, due, reached>>

\* send_photos, after the uploads, and send_text
SubmitPost ==
  /\ transfer # Unset /\ transfer.pc = "upload"
  /\ IF Ahead(transfer.at) THEN Leaves /\ UNCHANGED due ELSE Ends("needs_review")
  /\ UNCHANGED <<clock, form, reached>>

\* edit: the time was checked before the history was asked for, which has no
\* message any more whose time has come.
SubmitEdit ==
  /\ transfer # Unset /\ transfer.pc = "look"
  /\ IF clock < due.time.at THEN Leaves /\ UNCHANGED due ELSE Ends("needs_review")
  /\ UNCHANGED <<clock, form, reached>>

Arrived(late) ==
  reached' = [act |-> transfer.act, at |-> transfer.at, when |-> clock, late |-> late]

\* Telegram has taken it, and its answer is a row that is scheduled.
Arrive ==
  /\ transfer # Unset /\ transfer.pc = "waiting"
  /\ Arrived(FALSE)
  /\ due' = [status |-> "scheduled", next |-> Unset,
             time |-> IF due.next # Unset THEN due.next ELSE due.time]
  /\ transfer' = Unset
  /\ UNCHANGED <<clock, form>>

\* A call fails, or the process ends; of a request that has left, as when mutate
\* gives up, nobody knows what becomes of it.
GiveUp ==
  /\ transfer # Unset /\ transfer.pc # "lost"
  /\ transfer' = IF transfer.pc = "waiting" THEN [transfer EXCEPT !.pc = "lost"]
                                          ELSE Unset
  /\ due' = [due EXCEPT !.status = "needs_review", !.next = Unset]
  /\ UNCHANGED <<clock, form, reached>>

Straggle ==
  /\ transfer # Unset /\ transfer.pc = "lost"
  /\ Arrived(TRUE)
  /\ transfer' = Unset
  /\ UNCHANGED <<clock, form, due>>

\* Time goes on under everything but a call whose timeout has come.
Pass ==
  /\ clock < Horizon
  /\ transfer # Unset /\ transfer.pc = "waiting" => clock - transfer.since < Patience
  /\ clock' = clock + 1
  /\ UNCHANGED <<form, due, transfer, reached>>

TimeNext ==
  \/ \E date \in Walls : SetDate(date)
  \/ \E zone \in Zones : SetZone(zone)
  \/ \E fold \in Folds \cup {Unset} : SetFold(fold)
  \/ \E anew \in BOOLEAN : EditAgain(anew)
  \/ ConfirmTime
  \/ BeginTransfer \/ SubmitPost \/ SubmitEdit \/ Arrive \/ GiveUp \/ Straggle
  \/ Pass

TimeSpec == TimeInit /\ [][TimeNext]_timeVars

-----------------------------------------------------------------------------
(* The clocks of its zone show the time a post is due as the owner entered *)
(* it; and where they show it twice, the owner's choice says which is      *)
(* meant (local_to_utc).                                                   *)
Meant(moment) ==
  /\ Wall[moment.zone][moment.at] = moment.date
  /\ \A t \in Instants :
       Wall[moment.zone][t] = moment.date =>
         IF moment.fold = "first" THEN moment.at <= t
         ELSE IF moment.fold = "second" THEN t <= moment.at ELSE t = moment.at

DueIsMeant ==
  due # Unset => Meant(due.time) /\ (due.next # Unset => Meant(due.next))

(* A post that reaches Telegram while the worker still waits is ahead of   *)
(* its time, so that Telegram schedules and does not publish it: however   *)
(* long the queue and the uploads took (docs/publishing.md, telegram.py:94). *)
NothingIsSentNow ==
  reached # Unset /\ reached.act = "schedule" /\ ~reached.late =>
    reached.when < reached.at
=============================================================================
