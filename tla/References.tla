----------------------------- MODULE References -----------------------------
(***************************************************************************)
(* The owner's other channels that one conversation may use as references, *)
(* and the runs of that conversation that read their posts.                *)
(*                                                                         *)
(* A reference is permitted for one configuration of the model provider    *)
(* and counts only for runs that have exactly that one.  The request that  *)
(* turns a reference on or off looks for an active run first and writes    *)
(* later, under the lock on the conversation's row; it lies in choosing[b] *)
(* between these steps.  All channels are collected throughout.            *)
(***************************************************************************)
EXTENDS Connections

CONSTANTS RefChannels,     \* the workspace's other channels
          Panels,          \* reference panels in windows of the browser
          MaxReferences    \* references of one conversation (8)

ASSUME ReferencesAssumption ==
  MaxReferences \in Nat \ {0} /\ Nothing \notin RefChannels

VARIABLES reference,  \* studio_conversations.reference_channels
          shown,      \* the references that a panel shows as selected
          choosing,   \* requests that turn a reference on or off, by panel
          reading,    \* the channel of which a run is reading posts
          raced       \* runs that began between a request's look and its write

referenceVars == <<reference, shown, choosing, reading, raced>>

Reference == [enabled : BOOLEAN, of : Fingerprints]
Choice == [of : RefChannels, enabled : BOOLEAN, stage : {"asked", "checked"},
           unseen : SUBSET AgentRuns]

ReferencesTypeOK ==
  /\ reference \in [RefChannels -> Reference \cup {Nothing}]
  /\ shown \in [Panels -> SUBSET RefChannels]
  /\ choosing \in [Panels -> Choice \cup {Nothing}]
  /\ reading \in [AgentRuns -> RefChannels \cup {Nothing}]
  /\ raced \subseteq AgentRuns

NoChoices == [b \in Panels |-> Nothing]

ReferencesInit ==
  /\ reference = [g \in RefChannels |-> Nothing]
  /\ shown = [b \in Panels |-> {}]
  /\ choosing = NoChoices
  /\ reading = [r \in AgentRuns |-> Nothing]
  /\ raced = {}

-----------------------------------------------------------------------------
Enabled(g) == reference[g] # Nothing /\ reference[g].enabled

\* list: a reference permitted for another configuration has to be renewed.
Selected(g, settings) ==
  Enabled(g) /\ reference[g].of = Fingerprint(settings)

\* A run has a row from soon after its copy of the settings to its end.
Visible  == {r \in AgentRuns : agent[r].stage = "ready" \/ lock = r}
MayBegin == {r \in AgentRuns : agent[r].stage \in {"new", "checked", "copied"}}
Begun    == {r \in AgentRuns : agent[r].stage \in {"copied", "ready"}}

\* What the live settings make of each reference.
Listing == {g \in RefChannels : Selected(g, cached)}

\* The panel is opened on the conversation.
ShowReferences(b) ==
  /\ shown[b] # Listing
  /\ shown' = [shown EXCEPT ![b] = Listing]
  /\ UNCHANGED <<reference, choosing, reading, raced>>

\* The panel turns off what it shows as selected, and turns on, or renews,
\* anything else.
Offer(b, g) == g \notin shown[b]

\* set_conversation_reference: to turn one on takes the consent to the
\* provider, and the owner's word that the channel may be used.
AskReference(b, g) ==
  /\ choosing[b] = Nothing
  /\ Offer(b, g) => Granted(cached)
  /\ choosing' = [choosing EXCEPT ![b] =
       [of |-> g, enabled |-> Offer(b, g), stage |-> "asked", unseen |-> {}]]
  /\ UNCHANGED <<reference, shown, reading, raced>>

\* Variant: no look for an active run
NoActiveRun_Unchecked == TRUE
NoActiveRun == Visible = {}

CheckReference(b) ==
  /\ choosing[b] # Nothing /\ choosing[b].stage = "asked"
  /\ NoActiveRun
  /\ choosing' = [choosing EXCEPT ![b].stage = "checked",
                                  ![b].unseen = MayBegin \ Visible]
  /\ UNCHANGED <<reference, shown, reading, raced>>

Room(g) ==
  Cardinality({h \in RefChannels \ {g} : Enabled(h)}) < MaxReferences

\* What is recorded is the configuration at the time of the write; the answer
\* lists the references again.
WriteReference(b) ==
  /\ choosing[b] # Nothing /\ choosing[b].stage = "checked"
  /\ choosing[b].enabled => Room(choosing[b].of)
  /\ reference' = [reference EXCEPT ![choosing[b].of] =
       [enabled |-> choosing[b].enabled, of |-> Fingerprint(cached)]]
  /\ shown' = [shown EXCEPT ![b] = Listing']
  /\ choosing' = [choosing EXCEPT ![b] = Nothing]
  /\ raced' = raced \cup (choosing[b].unseen \cap Begun)
  /\ UNCHANGED reading

\* An active run, too many references, no conversation, or a lost connection.
RefuseReference(b) ==
  /\ choosing[b] # Nothing
  /\ choosing' = [choosing EXCEPT ![b] = Nothing]
  /\ UNCHANGED <<reference, shown, reading, raced>>

\* require, for the copy of the settings that the run has.
BeginReading(r, g) ==
  /\ agent[r].stage = "ready" /\ reading[r] = Nothing
  /\ Selected(g, agent[r].copy)
  /\ reading' = [reading EXCEPT ![r] = g]
  /\ UNCHANGED <<reference, shown, choosing, raced>>

EndReading(r) ==
  /\ reading[r] # Nothing
  /\ reading' = [reading EXCEPT ![r] = Nothing]
  /\ UNCHANGED <<reference, shown, choosing, raced>>

-----------------------------------------------------------------------------
ReferenceStep ==
  \/ \E b \in Panels : ShowReferences(b)
  \/ \E b \in Panels, g \in RefChannels : AskReference(b, g)
  \/ \E b \in Panels : CheckReference(b)
  \/ \E b \in Panels : WriteReference(b)
  \/ \E b \in Panels : RefuseReference(b)
  \/ \E r \in AgentRuns, g \in RefChannels : BeginReading(r, g)
  \/ \E r \in AgentRuns : EndReading(r)

\* A run that ends takes its tool calls with it.
EndsReading ==
  reading' = [r \in AgentRuns |->
                IF agent'[r].stage = "ready" THEN reading[r] ELSE Nothing]

ReferencesNext ==
  \/ UNCHANGED connectionVars /\ ReferenceStep
  \/ /\ ConnectionStep /\ EndsReading
     /\ UNCHANGED <<reference, shown, choosing, raced>>
  \/ /\ Restart /\ EndsReading
     /\ choosing' = NoChoices
     /\ UNCHANGED <<reference, shown, raced>>

ReferencesSpec ==
  /\ ConnectionsInit /\ ReferencesInit
  /\ [][ReferencesNext]_<<connectionVars, referenceVars>>

-----------------------------------------------------------------------------
(* A run works, for as long as it lives, with a provider and an account    *)
(* whose disclosure the owner confirmed, whatever is saved, signed in,     *)
(* disconnected and refreshed meanwhile; and as long as it reads posts of  *)
(* a reference channel, that channel stays permitted to exactly the        *)
(* configuration the run has.  The exceptions are settings that change     *)
(* between the check and the run's copy of them, and a run that begins     *)
(* between a reference request's look for active runs and its write.       *)
RunIsConsented ==
  \A r \in AgentRuns :
    /\ agent[r].stage \in {"copied", "ready"} =>
         \/ agent[r].moved
         \/ agent[r].copy.provider = "ollama"
         \/ Fingerprint(agent[r].copy) \in confirmed
    /\ reading[r] # Nothing =>
         \/ r \in raced
         \/ /\ Enabled(reading[r])
            /\ reference[reading[r]].of = Fingerprint(agent[r].copy)
=============================================================================
