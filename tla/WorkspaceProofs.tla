---------------------------- MODULE WorkspaceProofs ----------------------------
(***************************************************************************)
(* The parts of a workspace together: in MCWorkspace they share one Next,  *)
(* which takes a step of one part, or of the connection and its references, *)
(* and leaves the others alone.  So each part keeps its own specification, *)
(* and what is proved of a part holds in the whole, for every value of the *)
(* constants.                                                              *)
(*                                                                         *)
(* Only the references share state with another part.  A step of the       *)
(* connection without them is a step with them as long as they are not     *)
(* used: no run reads one and no request for one is open (Untouched).      *)
(*                                                                         *)
(* The time of a post has no module of proofs of its own and comes first.  *)
(***************************************************************************)
EXTENDS MCWorkspace, DraftsProofs, ConnectionsProofs, ResearchProofs,
        ProfilesProofs

-----------------------------------------------------------------------------
(* The time of a post: Underway says how much of it is left to a transfer  *)
(* whose request is on its way.                                            *)

\* A transfer under way: what the row has of it, and how much time is left.
Underway ==
  transfer # Unset =>
    /\ due # Unset
    /\ transfer.pc = "lost" => due.status = "needs_review"
    /\ transfer.pc # "lost" =>
         due.status = IF transfer.act = "update" THEN "updating" ELSE "transferring"
    /\ transfer.pc = "waiting" =>
         /\ clock - transfer.since <= Patience
         /\ transfer.act = "schedule" => transfer.since + Lead <= transfer.at
    /\ transfer.pc = "upload" => transfer.act = "schedule"
    /\ transfer.pc = "look" => transfer.act = "update"

\* An update has a time to come.
Upcoming == due # Unset => (due.next # Unset <=> due.status = "updating")

TimeInv ==
  /\ TimeTypeOK /\ DueIsMeant /\ NothingIsSentNow
  /\ Underway /\ Upcoming

LEMMA TimeNumbers ==
  /\ Horizon \in Nat /\ Lead \in Nat /\ Year \in Nat /\ Patience \in Nat
  /\ Patience < Lead
  /\ Instants \subseteq Nat
BY ScheduleTimeAssumption DEF Instants

\* local_to_utc: whatever passes its checks is what was meant.
LEMMA LocalToUtc ==
  ASSUME NEW f \in Form, Candidates(f.zone, f.date) # {}, ~Undecided(f)
  PROVE  Asked(f) \in Moment /\ Meant(Asked(f))
<1> DEFINE taken == Resolve[f.zone][f.date]
<1>1. /\ f.zone \in Zones /\ f.date \in Walls /\ f.fold \in Folds \cup {Unset}
      /\ taken \in [Folds -> Instants]
      /\ Wall[f.zone] \in [Instants -> Walls]
  BY ScheduleTimeAssumption DEF Form
<1>2. PICK t \in Instants : Wall[f.zone][t] = f.date
  BY <1>1 DEF Candidates
<1>3. \A s \in Instants : Wall[f.zone][s] = f.date =>
        /\ taken["first"] <= s /\ s <= taken["second"]
        /\ \A g \in Folds : Wall[f.zone][taken[g]] = f.date
  BY <1>1, ScheduleTimeAssumption
<1>4. taken["first"] \in Candidates(f.zone, f.date)
      /\ taken["second"] \in Candidates(f.zone, f.date)
  BY <1>1, <1>2, <1>3 DEF Candidates, Folds
<1>5. Asked(f).at \in Instants /\ Wall[f.zone][Asked(f).at] = f.date
  BY <1>1, <1>2, <1>3 DEF Asked, Folds
<1>6. f.fold = Unset => taken["first"] = taken["second"]
  BY <1>4 DEF Undecided, Twice
<1>7. ASSUME NEW s \in Instants, Wall[f.zone][s] = f.date
      PROVE  IF f.fold = "first" THEN Asked(f).at <= s
             ELSE IF f.fold = "second" THEN s <= Asked(f).at ELSE s = Asked(f).at
  <2>1. taken["first"] <= s /\ s <= taken["second"]
    BY <1>3, <1>7
  <2>2. taken["first"] \in Nat /\ taken["second"] \in Nat /\ s \in Nat
    BY <1>1, TimeNumbers DEF Folds
  <2> QED
    BY <1>1, <1>6, <2>1, <2>2, UnsetAssumption DEF Asked, Folds
<1>8. Asked(f) \in Moment
  BY <1>1, <1>5 DEF Asked, Moment
<1>9. Asked(f).zone = f.zone /\ Asked(f).date = f.date /\ Asked(f).fold = f.fold
  BY DEF Asked
<1> QED
  BY <1>5, <1>7, <1>8, <1>9 DEF Meant

LEMMA TimeInitOK == TimeInit => TimeInv
<1> SUFFICES ASSUME TimeInit PROVE TimeInv
  OBVIOUS
<1>1. clock \in Instants
  BY TimeNumbers DEF TimeInit, Instants
<1>2. form \in Form
  BY DEF TimeInit, Form
<1> QED
  BY <1>1, <1>2 DEF TimeInit, TimeInv, TimeTypeOK, DueIsMeant, NothingIsSentNow, Underway,
     Upcoming

\* The row goes on with a time it has, or with the one to come.
LEMMA DueStaysMeant ==
  ASSUME TimeInv, due # Unset,
         \/ due'.time = due.time
         \/ due.next # Unset /\ due'.time = due.next,
         due'.next \in {due.next, Unset}
  PROVE  DueIsMeant'
BY DEF TimeInv, DueIsMeant, Meant

LEMMA TimeStepOK == TimeInv /\ [TimeNext]_timeVars => TimeInv'
<1> SUFFICES ASSUME TimeInv, [TimeNext]_timeVars PROVE TimeInv'
  OBVIOUS
<1> USE UnsetAssumption DEF TimeInv
<1>1. ASSUME UNCHANGED <<clock, due, transfer, reached>>, form' \in Form PROVE TimeInv'
  BY <1>1 DEF TimeTypeOK, DueIsMeant, Meant, NothingIsSentNow, Underway, Upcoming
<1>2. ASSUME NEW w \in Walls, SetDate(w) PROVE TimeInv'
  BY <1>1, <1>2 DEF SetDate, TimeTypeOK, Form
<1>3. ASSUME NEW z \in Zones, SetZone(z) PROVE TimeInv'
  BY <1>1, <1>3 DEF SetZone, TimeTypeOK, Form
<1>4. ASSUME NEW f \in Folds \cup {Unset}, SetFold(f) PROVE TimeInv'
  BY <1>1, <1>4 DEF SetFold, TimeTypeOK, Form
<1>5. ASSUME NEW anew \in BOOLEAN, EditAgain(anew) PROVE TimeInv'
  <2>1. due.time \in Moment
    BY <1>5 DEF EditAgain, TimeTypeOK, Due
  <2>2. Wall[due.time.zone][due.time.at] \in Walls
    BY <2>1, ScheduleTimeAssumption DEF Moment
  <2>3. form' \in Form
    BY <1>5, <2>1, <2>2 DEF EditAgain, TimeTypeOK, Form, Moment
  <2> QED
    BY <1>1, <1>5, <2>3 DEF EditAgain
<1>6. CASE ConfirmTime
  <2>1. form \in Form /\ form' \in Form
    BY <1>6 DEF ConfirmTime, TimeTypeOK, Form, Undecided, Twice
  <2>2. CASE UNCHANGED due
    BY <1>1, <1>6, <2>1, <2>2 DEF ConfirmTime
  <2>3. CASE ~UNCHANGED due
    <3>1. Asked(form) \in Moment /\ Meant(Asked(form)) /\ Asked(form) # Unset
      BY <1>6, <2>1, <2>3, LocalToUtc DEF ConfirmTime
    <3>2. due' = IF due # Unset /\ due.status = "scheduled"
                 THEN [due EXCEPT !.status = "updating", !.next = Asked(form)]
                 ELSE [status |-> "queued", time |-> Asked(form), next |-> Unset]
      BY <1>6, <2>3 DEF ConfirmTime
    <3>3. due' \in Due /\ DueIsMeant' /\ Upcoming'
      <4>1. CASE due # Unset /\ due.status = "scheduled"
        <5>1. due \in Due
          BY <4>1 DEF TimeTypeOK
        <5>2. /\ due' \in Due /\ due'.time = due.time /\ due'.next = Asked(form)
              /\ due'.status = "updating"
          BY <3>1, <3>2, <4>1, <5>1 DEF Due
        <5> QED
          BY <3>1, <4>1, <5>2 DEF DueIsMeant, Meant, Upcoming
      <4>2. CASE ~(due # Unset /\ due.status = "scheduled")
        <5>1. /\ due' \in Due /\ due'.time = Asked(form) /\ due'.next = Unset
              /\ due'.status = "queued"
          BY <3>1, <3>2, <4>2 DEF Due
        <5> QED
          BY <3>1, <5>1 DEF DueIsMeant, Meant, Upcoming
      <4> QED
        BY <4>1, <4>2
    <3>4. transfer = Unset
      <4>1. due = Unset \/ due.status \in {"failed", "scheduled"}
        BY <1>6 DEF ConfirmTime
      <4> QED
        BY <4>1 DEF Underway
    <3> QED
      BY <1>6, <2>1, <3>3, <3>4
         DEF ConfirmTime, TimeTypeOK, NothingIsSentNow, Underway
  <2> QED
    BY <2>2, <2>3
<1>7. ASSUME NEW s \in {"failed", "needs_review"}, Ends(s), due # Unset,
              UNCHANGED <<clock, form, reached>>
       PROVE  TimeInv'
  <2>1. due \in Due
    BY <1>7 DEF TimeTypeOK
  <2>2. /\ due' \in Due /\ due'.time = due.time /\ due'.next = Unset
        /\ due'.status = s /\ transfer' = Unset
    BY <1>7, <2>1 DEF Ends, Due
  <2>3. DueIsMeant'
    BY <1>7, <2>2, DueStaysMeant
  <2> QED
    BY <1>7, <2>2, <2>3 DEF TimeTypeOK, NothingIsSentNow, Underway, Upcoming
<1>8. ASSUME Leaves, UNCHANGED <<clock, form, due, reached>>, transfer # Unset,
              transfer.pc \in {"upload", "look"},
              transfer.pc = "upload" => clock + Lead <= transfer.at
       PROVE  TimeInv'
  <2>1. transfer \in Transfer /\ clock \in Instants
    BY <1>8 DEF TimeTypeOK
  <2>2. /\ transfer' \in Transfer /\ transfer'.pc = "waiting"
        /\ transfer'.since = clock /\ transfer'.at = transfer.at
        /\ transfer'.act = transfer.act
    BY <1>8, <2>1 DEF Leaves, Transfer
  <2>3. clock - clock <= Patience
    BY <2>1, TimeNumbers
  <2>4. Underway'
    BY <1>8, <2>1, <2>2, <2>3 DEF Underway, Transfer
  <2> QED
    BY <1>8, <2>2, <2>4
       DEF TimeTypeOK, DueIsMeant, Meant, NothingIsSentNow, Upcoming
<1>9. CASE BeginTransfer
  <2>1. due \in Due /\ due # Unset /\ transfer = Unset
    BY <1>9 DEF BeginTransfer, TimeTypeOK
  <2> DEFINE update == due.status = "updating"
             at == IF update THEN due.next.at ELSE due.time.at
  <2>2. at \in Instants /\ clock \in Instants
    BY <2>1 DEF TimeTypeOK, Due, Moment, Upcoming
  <2>3. CASE Ahead(at)
    <3>1. /\ transfer' = [pc |-> IF update THEN "look" ELSE "upload",
                          act |-> IF update THEN "update" ELSE "schedule",
                          at |-> at, since |-> clock]
          /\ due' = IF update THEN due ELSE [due EXCEPT !.status = "transferring"]
      BY <1>9, <2>3 DEF BeginTransfer
    <3>2. transfer' \in Transfer
      BY <2>2, <3>1 DEF Transfer
    <3>3. /\ due' \in Due /\ due'.time = due.time /\ due'.next = due.next
          /\ due'.status = IF update THEN "updating" ELSE "transferring"
      BY <2>1, <3>1 DEF Due
    <3>4. DueIsMeant'
      BY <2>1, <3>3, DueStaysMeant
    <3>5. Upcoming'
      BY <1>9, <2>1, <3>3 DEF Upcoming, BeginTransfer
    <3>6. Underway'
      BY <3>1, <3>3 DEF Underway
    <3> QED
      BY <1>9, <3>2, <3>3, <3>4, <3>5, <3>6
         DEF BeginTransfer, TimeTypeOK, NothingIsSentNow
  <2>4. CASE ~Ahead(at)
    <3>1. Ends(IF update THEN "needs_review" ELSE "failed")
      BY <1>9, <2>4 DEF BeginTransfer
    <3> QED
      BY <1>9, <2>1, <3>1, <1>7 DEF BeginTransfer
  <2> QED
    BY <2>3, <2>4
<1>10. CASE SubmitPost
  <2>1. due # Unset /\ transfer # Unset /\ transfer.pc = "upload"
    BY <1>10 DEF SubmitPost, Underway
  <2>2. CASE Ahead(transfer.at)
    <3>1. Leaves /\ UNCHANGED <<clock, form, due, reached>>
      BY <1>10, <2>2 DEF SubmitPost
    <3>2. clock + Lead <= transfer.at
      BY <2>2 DEF Ahead
    <3> QED
      BY <1>8, <2>1, <3>1, <3>2
  <2>3. CASE ~Ahead(transfer.at)
    <3>1. Ends("needs_review") /\ UNCHANGED <<clock, form, reached>>
      BY <1>10, <2>3 DEF SubmitPost
    <3> QED
      BY <1>7, <2>1, <3>1
  <2> QED
    BY <2>2, <2>3
<1>11. CASE SubmitEdit
  <2>1. due # Unset /\ transfer # Unset /\ transfer.pc = "look"
    BY <1>11 DEF SubmitEdit, Underway
  <2>2. \/ Leaves /\ UNCHANGED <<clock, form, due, reached>>
        \/ Ends("needs_review") /\ UNCHANGED <<clock, form, reached>>
    BY <1>11 DEF SubmitEdit
  <2> QED
    BY <1>7, <1>8, <2>1, <2>2
<1>12. CASE Arrive
  <2>1. /\ due \in Due /\ due # Unset /\ transfer \in Transfer /\ clock \in Instants
        /\ transfer.pc = "waiting"
    BY <1>12 DEF Arrive, TimeTypeOK, Underway
  <2>2. /\ due'.next = Unset /\ due'.status = "scheduled" /\ transfer' = Unset
        /\ due'.time = IF due.next # Unset THEN due.next ELSE due.time
        /\ due' \in Due
    BY <1>12, <2>1 DEF Arrive, Due
  <2>3. /\ reached' \in Arrival /\ reached'.act = transfer.act
        /\ reached'.when = clock /\ reached'.at = transfer.at
    BY <1>12, <2>1 DEF Arrive, Arrived, Arrival, Transfer
  <2>4. NothingIsSentNow'
    <3>1. /\ clock - transfer.since <= Patience
          /\ transfer.act = "schedule" => transfer.since + Lead <= transfer.at
      BY <2>1 DEF Underway
    <3>2. clock \in Nat /\ transfer.since \in Nat /\ transfer.at \in Nat
      BY <2>1, TimeNumbers DEF Transfer
    <3> QED
      BY <2>3, <3>1, <3>2, TimeNumbers DEF NothingIsSentNow
  <2>5. DueIsMeant'
    BY <2>1, <2>2, DueStaysMeant
  <2> QED
    BY <1>12, <2>2, <2>3, <2>4, <2>5 DEF Arrive, TimeTypeOK, Underway, Upcoming
<1>13. CASE GiveUp
  <2>1. due \in Due /\ due # Unset /\ transfer \in Transfer
    BY <1>13 DEF GiveUp, TimeTypeOK, Underway
  <2>2. CASE transfer.pc # "waiting"
    BY <1>13, <1>7, <2>1, <2>2 DEF GiveUp, Ends
  <2>3. CASE transfer.pc = "waiting"
    <3>1. /\ transfer' \in Transfer /\ transfer'.pc = "lost"
          /\ due' \in Due /\ due'.status = "needs_review" /\ due'.next = Unset
          /\ due'.time = due.time
      BY <1>13, <2>1, <2>3 DEF GiveUp, Transfer, Due
    <3>2. DueIsMeant'
      BY <2>1, <3>1, DueStaysMeant
    <3> QED
      BY <1>13, <3>1, <3>2
         DEF GiveUp, TimeTypeOK, NothingIsSentNow, Underway, Upcoming
  <2> QED
    BY <2>2, <2>3
<1>14. CASE Straggle
  <2>1. transfer \in Transfer /\ clock \in Instants
    BY <1>14 DEF Straggle, TimeTypeOK
  <2>2. reached' \in Arrival /\ reached'.late
    BY <1>14, <2>1 DEF Straggle, Arrived, Arrival, Transfer
  <2> QED
    BY <1>14, <2>2 DEF Straggle, TimeTypeOK, DueIsMeant, Meant, NothingIsSentNow,
       Underway, Upcoming
<1>15. CASE Pass
  <2>1. clock' \in Instants /\ clock' = clock + 1 /\ clock \in Nat
    BY <1>15, TimeNumbers DEF Pass, TimeTypeOK, Instants
  <2>2. Underway'
    <3>1. ASSUME transfer # Unset, transfer.pc = "waiting"
          PROVE  clock' - transfer.since <= Patience
      <4>1. transfer.since \in Nat
        BY <3>1, TimeNumbers DEF TimeTypeOK, Transfer
      <4> QED
        BY <1>15, <2>1, <3>1, <4>1, TimeNumbers DEF Pass
    <3> QED
      BY <1>15, <3>1 DEF Pass, Underway
  <2> QED
    BY <1>15, <2>1, <2>2
       DEF Pass, TimeTypeOK, DueIsMeant, Meant, NothingIsSentNow, Upcoming
<1>16. CASE UNCHANGED timeVars
  BY <1>16 DEF timeVars, TimeTypeOK, DueIsMeant, Meant, NothingIsSentNow, Underway, Upcoming
<1> QED
  BY <1>2, <1>3, <1>4, <1>5, <1>6, <1>9, <1>10, <1>11, <1>12, <1>13, <1>14, <1>15, <1>16
     DEF TimeNext

\* The row and the worker keep to the states that the code has for them
\* (scheduled_posts, process).
THEOREM TimeIsTyped == TimeSpec => []TimeTypeOK
<1>1. TimeInv => TimeTypeOK
  BY DEF TimeInv
<1> QED
  BY <1>1, TimeInitOK, TimeStepOK, PTL DEF TimeSpec

\* Whatever zones and clock changes there are: a post is due when the clocks show
\* what the owner entered, at the occurrence that was chosen (local_to_utc).
THEOREM PostsAreDueAsMeant == TimeSpec => []DueIsMeant
<1>1. TimeInv => DueIsMeant
  BY DEF TimeInv
<1> QED
  BY <1>1, TimeInitOK, TimeStepOK, PTL DEF TimeSpec

\* However long a post waited and its images took, what reaches Telegram before
\* the worker gives up is ahead of its time (send_photos, send_text, mutate).
THEOREM PostsAreNeverSentNow == TimeSpec => []NothingIsSentNow
<1>1. TimeInv => NothingIsSentNow
  BY DEF TimeInv
<1> QED
  BY <1>1, TimeInitOK, TimeStepOK, PTL DEF TimeSpec

-----------------------------------------------------------------------------
(* The parts together *)

\* Outside their own scenario nobody uses the references.
Untouched ==
  part \in ConnectionParts =>
    /\ choosing = NoChoices
    /\ reading = [r \in AgentRuns |-> Nothing]

\* Each step of the workspace is one of the part, or leaves it alone.
LEMMA DraftsTakeTheStep == [Next]_vars => [DraftsNext]_draftVars
BY DEF Next, vars

LEMMA ConnectionsTakeTheStep == [Next]_vars => [ConnectionsNext]_connectionVars
<1> SUFFICES ASSUME [Next]_vars PROVE [ConnectionsNext]_connectionVars
  OBVIOUS
<1>1. CASE ReferencesNext
  BY <1>1 DEF ReferencesNext, ConnectionsNext
<1>2. CASE ConnectionsNext \/ UNCHANGED connectionVars
  BY <1>2
<1> QED
  BY <1>1, <1>2 DEF Next, vars

LEMMA ReferencesTakeTheStep ==
  Untouched /\ [Next]_vars => [ReferencesNext]_<<connectionVars, referenceVars>>
<1> SUFFICES ASSUME Untouched, [Next]_vars
             PROVE  [ReferencesNext]_<<connectionVars, referenceVars>>
  OBVIOUS
<1>1. CASE ReferencesNext \/ UNCHANGED <<connectionVars, referenceVars>>
  BY <1>1
<1>2. CASE part \in ConnectionParts /\ ConnectionsNext /\ UNCHANGED referenceVars
  <2>1. EndsReading /\ choosing' = NoChoices
    BY <1>2 DEF Untouched, referenceVars, EndsReading
  <2> QED
    BY <1>2, <2>1 DEF referenceVars, ReferencesNext, ConnectionsNext
<1> QED
  BY <1>1, <1>2 DEF Next, vars

LEMMA ResearchTakesTheStep == [Next]_vars => [ResearchNext]_researchVars
BY DEF Next, vars

LEMMA WordsTakeTheStep == [Next]_vars => [WordsNext]_wordsVars
BY DEF Next, vars

LEMMA TimeTakesTheStep == [Next]_vars => [TimeNext]_timeVars
BY DEF Next, vars

LEMMA StaysUntouched == Untouched /\ [Next]_vars => Untouched'
<1> SUFFICES ASSUME Untouched, [Next]_vars, part' \in ConnectionParts
             PROVE  UNCHANGED <<part, choosing, reading>>
  BY DEF Untouched, NoChoices
<1>1. ConnectionParts \cap ReferenceParts = {}
  BY DEF ConnectionParts, ReferenceParts
<1> QED
  BY <1>1 DEF Next, vars, referenceVars

\* What the composition is: every behaviour of the workspace is, seen from any of
\* its parts, a behaviour of that part's own specification, the steps of the
\* others being stutters (the services share one database and no row).
THEOREM PartsKeepTheirSpecs ==
  Spec => /\ DraftsSpec /\ ConnectionsSpec /\ ReferencesSpec
          /\ ResearchSpec /\ WordsSpec /\ TimeSpec
<1>1. Init => /\ DraftsInit /\ ConnectionsInit /\ ReferencesInit /\ ResearchInit
              /\ WordsInit /\ TimeInit /\ Untouched
  BY DEF Init, Untouched, ReferencesInit
<1> QED
  BY <1>1, DraftsTakeTheStep, ConnectionsTakeTheStep, ReferencesTakeTheStep,
     ResearchTakesTheStep, WordsTakeTheStep, TimeTakesTheStep, StaysUntouched, PTL
     DEF Spec, DraftsSpec, ConnectionsSpec, ReferencesSpec, ResearchSpec, WordsSpec,
         TimeSpec

\* The rows and the memory of every part keep their types, whichever part writes
\* (studio_drafts to studio_runs, the open requests, what windows show).
THEOREM WorkspaceIsTyped == Spec => []WorkspaceTypeOK
<1>1. /\ DraftsTypeOK /\ ConnectionsTypeOK /\ ReferencesTypeOK
      /\ ResearchTypeOK /\ WordsTypeOK /\ TimeTypeOK
      => WorkspaceTypeOK
  BY DEF WorkspaceTypeOK
<1> QED
  BY <1>1, PartsKeepTheirSpecs, DraftsAreTyped, ConnectionsAreTyped,
     ReferencesAreTyped, ResearchIsTyped, WordsAreTyped, TimeIsTyped, PTL

\* What is promised of drafts, posts, images, accounts, runs, evidence, words and
\* times holds in the workspace that has all of them.
THEOREM WorkspaceIsSafe ==
  Spec => /\ [](/\ DraftShowsItsVersion /\ ScheduledIsConfirmed /\ QuotaHolds
                /\ RunIsConsented /\ TokenIsSentOnce
                /\ DueIsMeant /\ NothingIsSentNow)
          /\ NothingUnseenIsReplaced /\ AcceptedIsKept /\ ClaimsWereRead
          /\ NothingUngivenIsReplaced /\ AccountIsTheOwners
<1>1. DraftsSpec => /\ [](DraftShowsItsVersion /\ ScheduledIsConfirmed /\ QuotaHolds)
                    /\ NothingUnseenIsReplaced /\ AcceptedIsKept
  BY DraftsShowTheirVersion, PostsAreConfirmed, SpaceIsKept, TextIsSeenBeforeItGoes,
     AcceptedPostsAreKept, PTL
<1>2. ConnectionsSpec => []TokenIsSentOnce /\ AccountIsTheOwners
  BY NoTokenTwice, OnlyTheOwnersAccount, PTL
<1> QED
  BY <1>1, <1>2, RunsAreConsented, VerifiedWasRead, NothingElseReplaces,
     PostsAreDueAsMeant, PostsAreNeverSentNow, PartsKeepTheirSpecs, PTL
=============================================================================
