------------------------ MODULE MCPublishingScenarios ------------------------
(* Two scenarios of PublishingQueue in one run: a single worker process with *)
(* all versions and accounts, and processes that overlap, with one version   *)
(* and one account and either a crash or an edit outside TGhost.             *)
EXTENDS MCPublishingQueue

CONSTANT a1   \* element of Accounts

VARIABLE only \* the process that runs, or None where every one may

WithinOne == \A w \in Workers \ {only} : wk'[w].pc = "down"

WithinPlain ==
  /\ crashes' + edits' <= 1
  /\ \A w \in Workers : wk'[w].session \in {a1, None}
  /\ \A p \in Posts : row'[p].pend \in {AnyContent[x] : x \in Parts} \cup {None}
  /\ \A x \in Parts :
       /\ row'[PostOf[x]].snap[x] = AnyContent[x]
       /\ queue'[x] # None => queue'[x].text = AnyContent[x]

ScenarioInit == Init /\ only \in Workers \cup {None}

ScenarioNext ==
  /\ Next
  /\ IF only = None THEN WithinPlain ELSE WithinOne
  /\ UNCHANGED only

ScenarioSpec == ScenarioInit /\ [][ScenarioNext]_<<vars, only>>
=============================================================================
