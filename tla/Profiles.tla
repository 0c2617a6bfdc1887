------------------------------ MODULE Profiles ------------------------------
(***************************************************************************)
(* The words an owner gives the agent of a channel: the profile, a row with *)
(* a version, and the system prompt, a text without one.  Both are edited   *)
(* in dialogs of several windows and saved against what the dialog was      *)
(* given; an analysis that consent starts may write the profile as well.    *)
(*                                                                          *)
(* The three fields of a profile are one text.  Formatting facts, evidence  *)
(* and the numbers of an analysis are left out, and so is the removal of    *)
(* the channel.                                                             *)
(***************************************************************************)
EXTENDS Naturals

CONSTANTS Windows,      \* browser windows
          Saves,        \* requests that save a profile or a prompt
          Words,        \* texts that an owner types or a build suggests
          Blank,        \* the empty text
          Tidy,         \* a text without its blank lines and trailing spaces
          Void,
          MaxVersion    \* bound on the versions of the profile

ASSUME ProfilesAssumption ==
  /\ Blank \in Words /\ MaxVersion \in Nat
  /\ Tidy \in [Words -> Words] /\ Tidy[Blank] = Blank
  /\ \A w \in Words : Tidy[Tidy[w]] = Tidy[w]

\* Version 0 stands for a channel that has no row.
Sheet == [version : 0..MaxVersion, text : Words]

VARIABLES profile,     \* studio_profiles
          editor,      \* ChannelProfileDialog of a window
          save,        \* PUT /api/profile in flight
          analyses,    \* ensure_profile calls in flight
          prompt,      \* channels.studio_system_prompt
          pane,        \* StudioSettings of a window
          patch        \* PATCH /api/settings in flight

profileVars == <<profile, editor, save, analyses>>
promptVars  == <<prompt, pane, patch>>
wordsVars   == <<profileVars, promptVars>>

\* `other' is the row of a conflict that the dialog reports.
Editor == [base : Sheet, text : Words, other : Sheet \cup {Void},
           saving : BOOLEAN, building : BOOLEAN]
\* `over' is what the dialog had been given of the row that it is to replace.
SaveCall == [window : Windows \cup {Void}, text : Words, over : Sheet,
             stage : {"sent", "checked", "saved", "conflict"}]
Pane == [base : Words, text : Words, saving : BOOLEAN]
PatchCall == [window : Windows \cup {Void}, text : Words, over : Words,
              stage : {"sent", "saved"}]

ASSUME VoidAssumption ==
  /\ Void \notin Editor /\ Void \notin SaveCall
  /\ Void \notin Pane /\ Void \notin PatchCall

WordsTypeOK ==
  /\ profile \in Sheet
  /\ editor \in [Windows -> Editor \cup {Void}]
  /\ save \in [Saves -> SaveCall \cup {Void}]
  /\ analyses \in 0..MaxVersion
  /\ prompt \in Words
  /\ pane \in [Windows -> Pane \cup {Void}]
  /\ patch \in [Saves -> PatchCall \cup {Void}]

WordsInit ==
  /\ profile = [version |-> 0, text |-> Blank]
  /\ editor = [w \in Windows |-> Void]
  /\ save = [s \in Saves |-> Void]
  /\ analyses = 0
  /\ prompt = Blank
  /\ pane = [w \in Windows |-> Void]
  /\ patch = [s \in Saves |-> Void]

-----------------------------------------------------------------------------
(* The dialog of the profile. *)

OpenEditor(w) ==
  /\ editor[w] = Void
  /\ editor' = [editor EXCEPT ![w] =
       [base |-> profile, text |-> profile.text, other |-> Void,
        saving |-> FALSE, building |-> FALSE]]
  /\ UNCHANGED <<profile, save, analyses, promptVars>>

\* A request that was sent goes on; its answer finds no dialog.
CloseEditor(w) ==
  /\ editor[w] # Void
  /\ editor' = [editor EXCEPT ![w] = Void]
  /\ save' = [s \in Saves |->
                IF save[s] # Void /\ save[s].window = w
                THEN [save[s] EXCEPT !.window = Void] ELSE save[s]]
  /\ UNCHANGED <<profile, analyses, promptVars>>

EditProfile(w, t) ==
  /\ editor[w] # Void /\ ~editor[w].building
  /\ editor' = [editor EXCEPT ![w].text = t]
  /\ UNCHANGED <<profile, save, analyses, promptVars>>

BeginBuild(w) ==
  /\ editor[w] # Void /\ ~editor[w].building
  /\ editor' = [editor EXCEPT ![w].building = TRUE]
  /\ UNCHANGED <<profile, save, analyses, promptVars>>

\* build_profile_draft: its lines are cleaned and fit the fields.
Built == {Tidy[t] : t \in Words}

\* A build suggests a text and stores nothing; the row the dialog was given is
\* still the one a save expects.
EndBuild(w, t) ==
  /\ t \in Built
  /\ editor[w] # Void /\ editor[w].building
  /\ editor' = [editor EXCEPT ![w].building = FALSE, ![w].text = t]
  /\ UNCHANGED <<profile, save, analyses, promptVars>>

FailBuild(w) ==
  /\ editor[w] # Void /\ editor[w].building
  /\ editor' = [editor EXCEPT ![w].building = FALSE]
  /\ UNCHANGED <<profile, save, analyses, promptVars>>

Send(s, w, sheet) ==
  /\ save[s] = Void
  /\ save' = [save EXCEPT ![s] = [window |-> w, text |-> editor[w].text,
                                  over |-> sheet, stage |-> "sent"]]
  /\ editor' = [editor EXCEPT ![w].saving = TRUE]
  /\ UNCHANGED <<profile, analyses, promptVars>>

SaveProfile(s, w) ==
  /\ editor[w] # Void /\ editor[w].text # editor[w].base.text
  /\ ~editor[w].saving /\ ~editor[w].building
  /\ Send(s, w, editor[w].base)

\* The two buttons of a conflict are never disabled.
SaveMineAsNext(s, w) ==
  /\ editor[w] # Void /\ editor[w].other # Void
  /\ Send(s, w, editor[w].other)

LoadTheirVersion(w) ==
  /\ editor[w] # Void /\ editor[w].other # Void
  /\ LET theirs == editor[w].other IN
     editor' = [editor EXCEPT ![w].base = theirs, ![w].text = theirs.text,
                              ![w].other = Void]
  /\ UNCHANGED <<profile, save, analyses, promptVars>>

-----------------------------------------------------------------------------
(* PUT /api/profile. *)

\* The route and the repository compare before anything is written.
CheckVersion(s) ==
  /\ save[s] # Void /\ save[s].stage = "sent"
  /\ save' = [save EXCEPT ![s].stage =
       IF save[s].over.version = profile.version THEN "checked" ELSE "conflict"]
  /\ UNCHANGED <<profile, editor, analyses, promptVars>>

\* Variant: what was compared before is not compared again
SameVersion_Checked(s) == TRUE
\* The condition of the upsert: the version is still the one compared.
SameVersion(s) == save[s].over.version = profile.version

WriteProfile(s) ==
  /\ save[s] # Void /\ save[s].stage = "checked"
  /\ IF SameVersion(s)
     THEN /\ profile.version < MaxVersion
          /\ profile' = [version |-> save[s].over.version + 1,
                         text |-> Tidy[save[s].text]]
          /\ save' = [save EXCEPT ![s].stage = "saved"]
     ELSE save' = [save EXCEPT ![s].stage = "conflict"] /\ UNCHANGED profile
  /\ UNCHANGED <<editor, analyses, promptVars>>

\* Text typed while the request was on its way stays.
Kept(w, s) == IF editor[w].text = save[s].text THEN profile.text
              ELSE editor[w].text

\* Either answer holds the row as it is then.
AnswerSave(s) ==
  /\ save[s] # Void /\ save[s].stage \in {"saved", "conflict"}
  /\ save' = [save EXCEPT ![s] = Void]
  /\ LET w == save[s].window IN
     editor' = IF w = Void THEN editor
               ELSE IF save[s].stage = "conflict"
               THEN [editor EXCEPT ![w].other = profile, ![w].saving = FALSE]
               ELSE [editor EXCEPT ![w].base = profile, ![w].text = Kept(w, s),
                                   ![w].other = Void, ![w].saving = FALSE]
  /\ UNCHANGED <<profile, analyses, promptVars>>

\* Fields or evidence that are not valid, or an answer that is lost.
FailSave(s) ==
  /\ save[s] # Void
  /\ save' = [save EXCEPT ![s] = Void]
  /\ editor' = IF save[s].window = Void THEN editor
               ELSE [editor EXCEPT ![save[s].window].saving = FALSE]
  /\ UNCHANGED <<profile, analyses, promptVars>>

\* Consent given for a channel without a profile.
BeginAnalysis ==
  /\ profile.version = 0 /\ analyses < MaxVersion
  /\ analyses' = analyses + 1
  /\ UNCHANGED <<profile, editor, save, promptVars>>

\* upsert_profile: a row without texts, or its next version with its texts.
StoreAnalysis ==
  /\ analyses > 0 /\ profile.version < MaxVersion
  /\ analyses' = analyses - 1
  /\ profile' = [profile EXCEPT !.version = @ + 1]
  /\ UNCHANGED <<editor, save, promptVars>>

FailAnalysis ==
  /\ analyses > 0
  /\ analyses' = analyses - 1
  /\ UNCHANGED <<profile, editor, save, promptVars>>

-----------------------------------------------------------------------------
(* The system prompt. *)

OpenPane(w) ==
  /\ pane[w] = Void
  /\ pane' = [pane EXCEPT ![w] =
                [base |-> prompt, text |-> prompt, saving |-> FALSE]]
  /\ UNCHANGED <<profileVars, prompt, patch>>

ClosePane(w) ==
  /\ pane[w] # Void
  /\ pane' = [pane EXCEPT ![w] = Void]
  /\ patch' = [s \in Saves |->
                 IF patch[s] # Void /\ patch[s].window = w
                 THEN [patch[s] EXCEPT !.window = Void] ELSE patch[s]]
  /\ UNCHANGED <<profileVars, prompt>>

EditPrompt(w, t) ==
  /\ pane[w] # Void
  /\ pane' = [pane EXCEPT ![w].text = t]
  /\ UNCHANGED <<profileVars, prompt, patch>>

SavePrompt(s, w) ==
  /\ pane[w] # Void /\ ~pane[w].saving /\ patch[s] = Void
  /\ patch' = [patch EXCEPT ![s] = [window |-> w, text |-> pane[w].text,
                                    over |-> pane[w].base, stage |-> "sent"]]
  /\ pane' = [pane EXCEPT ![w].saving = TRUE]
  /\ UNCHANGED <<profileVars, prompt>>

\* set_system_prompt: one UPDATE with the text that is expected.
WritePrompt(s) ==
  /\ patch[s] # Void /\ patch[s].stage = "sent" /\ patch[s].over = prompt
  /\ prompt' = patch[s].text
  /\ patch' = [patch EXCEPT ![s].stage = "saved"]
  /\ UNCHANGED <<profileVars, pane>>

AnswerPatch(s) ==
  /\ patch[s] # Void /\ patch[s].stage = "saved"
  /\ patch' = [patch EXCEPT ![s] = Void]
  /\ LET w == patch[s].window IN
     pane' = IF w = Void THEN pane
             ELSE [pane EXCEPT ![w].base = patch[s].text, ![w].saving = FALSE]
  /\ UNCHANGED <<profileVars, prompt>>

\* A conflict, a text that is too long, or an answer that is lost.
FailPatch(s) ==
  /\ patch[s] # Void
  /\ patch' = [patch EXCEPT ![s] = Void]
  /\ pane' = IF patch[s].window = Void THEN pane
             ELSE [pane EXCEPT ![patch[s].window].saving = FALSE]
  /\ UNCHANGED <<profileVars, prompt>>

-----------------------------------------------------------------------------
WordsNext ==
  \/ \E w \in Windows :
       OpenEditor(w) \/ CloseEditor(w) \/ BeginBuild(w) \/ FailBuild(w)
         \/ LoadTheirVersion(w)
  \/ \E w \in Windows, t \in Words : EditProfile(w, t) \/ EndBuild(w, t)
  \/ \E s \in Saves, w \in Windows : SaveProfile(s, w) \/ SaveMineAsNext(s, w)
  \/ \E s \in Saves :
       CheckVersion(s) \/ WriteProfile(s) \/ AnswerSave(s) \/ FailSave(s)
  \/ BeginAnalysis
  \/ StoreAnalysis
  \/ FailAnalysis
  \/ \E w \in Windows : OpenPane(w) \/ ClosePane(w)
  \/ \E w \in Windows, t \in Words : EditPrompt(w, t)
  \/ \E s \in Saves, w \in Windows : SavePrompt(s, w)
  \/ \E s \in Saves : WritePrompt(s) \/ AnswerPatch(s) \/ FailPatch(s)

WordsSpec == WordsInit /\ [][WordsNext]_wordsVars

-----------------------------------------------------------------------------
(* The owner's words are replaced only by a save from a dialog that had been *)
(* given exactly these words, whatever windows, builds and analyses did      *)
(* meanwhile: the profile by the version it was given, the prompt by text.   *)
NothingUngivenIsReplaced ==
  [][/\ profile'.text # profile.text =>
          \E s \in Saves : save[s] # Void /\ save'[s] # save[s]
                             /\ save[s].over = profile
     /\ prompt' # prompt =>
          \E s \in Saves : patch[s] # Void /\ patch'[s] # patch[s]
                             /\ patch[s].over = prompt]_wordsVars
=============================================================================
