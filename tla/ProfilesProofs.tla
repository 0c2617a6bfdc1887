--------------------------- MODULE ProfilesProofs ----------------------------
(***************************************************************************)
(* Proofs about the owner's words, for all windows, requests, texts and    *)
(* versions: types, what a version number says, and that nothing is        *)
(* replaced that the saving dialog had not been given.                     *)
(*                                                                         *)
(* The argument is about version numbers.  Dialogs and requests hold rows  *)
(* that the profile once was (Given); each write takes the next number, so *)
(* a row held with the profile's present number is the profile itself.     *)
(***************************************************************************)
EXTENDS Profiles, TLAPS

\* A row held somewhere: an earlier profile, or the one there is.
Given(sheet) ==
  /\ sheet.version <= profile.version
  /\ sheet.version = profile.version => sheet = profile

EditorsAreGiven ==
  \A w \in Windows : editor[w] # Void =>
    /\ Given(editor[w].base)
    /\ editor[w].other # Void => Given(editor[w].other)

SavesAreGiven == \A s \in Saves : save[s] # Void => Given(save[s].over)

\* A request that has a window has an open dialog, or pane, there.
AskersAreOpen ==
  \A s \in Saves : save[s] # Void /\ save[s].window # Void =>
                    editor[save[s].window] # Void

PatchersAreOpen ==
  \A s \in Saves : patch[s] # Void /\ patch[s].window # Void =>
                    pane[patch[s].window] # Void

VersionsInv ==
  /\ WordsTypeOK
  /\ EditorsAreGiven /\ SavesAreGiven
  /\ AskersAreOpen /\ PatchersAreOpen

-----------------------------------------------------------------------------
(* One dialog or one request at a time. *)

\* A dialog of the right type whose rows the profile once was.
EditorOK(e) ==
  /\ e \in Editor \cup {Void}
  /\ e # Void => Given(e.base) /\ (e.other # Void => Given(e.other))

\* A request of the right type that replaces a row the profile once was.
SaveOK(c) ==
  /\ c \in SaveCall \cup {Void}
  /\ c # Void => Given(c.over)

EditorsInv == editor \in [Windows -> Editor \cup {Void}] /\ EditorsAreGiven
SavesInv == save \in [Saves -> SaveCall \cup {Void}] /\ SavesAreGiven

LEMMA EditorIsOK ==
  ASSUME VersionsInv, NEW w \in Windows
  PROVE  EditorOK(editor[w])
BY DEF VersionsInv, WordsTypeOK, EditorsAreGiven, EditorOK

LEMMA SaveIsOK ==
  ASSUME VersionsInv, NEW s \in Saves
  PROVE  SaveOK(save[s])
BY DEF VersionsInv, WordsTypeOK, SavesAreGiven, SaveOK

\* The row itself is what a dialog is given.
LEMMA ProfileIsGiven ==
  ASSUME VersionsInv
  PROVE  profile \in Sheet /\ Given(profile)
<1>1. profile \in Sheet
  BY DEF VersionsInv, WordsTypeOK
<1>2. profile.version \in Nat
  BY <1>1, ProfilesAssumption DEF Sheet
<1> QED
  BY <1>1, <1>2 DEF Given

LEMMA EditorPut ==
  ASSUME VersionsInv, UNCHANGED profile,
         NEW w \in Windows, NEW e, EditorOK(e),
         editor' = [editor EXCEPT ![w] = e]
  PROVE  EditorsInv'
<1>1. editor \in [Windows -> Editor \cup {Void}]
  BY DEF VersionsInv, WordsTypeOK
<1>2. editor' \in [Windows -> Editor \cup {Void}]
  BY <1>1 DEF EditorOK
<1>3. \A v \in Windows : editor'[v] = e \/ editor'[v] = editor[v]
  BY <1>1
<1>4. EditorsAreGiven'
  BY <1>3 DEF VersionsInv, EditorsAreGiven, EditorOK, Given
<1> QED
  BY <1>2, <1>4 DEF EditorsInv

LEMMA EditorsKept ==
  ASSUME VersionsInv, UNCHANGED <<profile, editor>>
  PROVE  EditorsInv'
BY DEF VersionsInv, WordsTypeOK, EditorsAreGiven, EditorsInv, Given

LEMMA SavePut ==
  ASSUME VersionsInv, UNCHANGED profile,
         NEW s \in Saves, NEW c, SaveOK(c),
         save' = [save EXCEPT ![s] = c]
  PROVE  SavesInv'
<1>1. save \in [Saves -> SaveCall \cup {Void}]
  BY DEF VersionsInv, WordsTypeOK
<1>2. save' \in [Saves -> SaveCall \cup {Void}]
  BY <1>1 DEF SaveOK
<1>3. \A r \in Saves : save'[r] = c \/ save'[r] = save[r]
  BY <1>1
<1>4. SavesAreGiven'
  BY <1>3 DEF VersionsInv, SavesAreGiven, SaveOK, Given
<1> QED
  BY <1>2, <1>4 DEF SavesInv

LEMMA SavesKept ==
  ASSUME VersionsInv, UNCHANGED <<profile, save>>
  PROVE  SavesInv'
BY DEF VersionsInv, WordsTypeOK, SavesAreGiven, SavesInv, Given

\* The rest of the type invariant, and how the parts make the whole.
PromptInv ==
  /\ PatchersAreOpen
  /\ prompt \in Words
  /\ pane \in [Windows -> Pane \cup {Void}]
  /\ patch \in [Saves -> PatchCall \cup {Void}]

LEMMA PromptKept ==
  ASSUME VersionsInv, UNCHANGED promptVars
  PROVE  PromptInv'
BY DEF VersionsInv, WordsTypeOK, PatchersAreOpen, PromptInv, promptVars

\* A dialog that changes stays open.
LEMMA DialogsStayOpen ==
  ASSUME VersionsInv, NEW w \in Windows, NEW f \in Editor,
         editor' = [editor EXCEPT ![w] = f]
  PROVE  /\ editor'[w] # Void
         /\ \A v \in Windows : editor[v] # Void => editor'[v] # Void
BY VoidAssumption DEF VersionsInv, WordsTypeOK

\* Whoever has a window had it before, or asks from an open dialog now.
LEMMA AskersStay ==
  ASSUME VersionsInv, SavesInv',
         \A v \in Windows : editor[v] # Void => editor'[v] # Void,
         \A s \in Saves : save'[s] # Void =>
           \/ save'[s].window = Void
           \/ save[s] # Void /\ save'[s].window = save[s].window
           \/ editor'[save'[s].window] # Void
  PROVE  AskersAreOpen'
<1> SUFFICES ASSUME NEW s \in Saves, save'[s] # Void, save'[s].window # Void
             PROVE  editor'[save'[s].window] # Void
  BY DEF AskersAreOpen
<1>1. save'[s].window \in Windows
  BY DEF SavesInv, SaveCall
<1>2. CASE editor'[save'[s].window] # Void
  BY <1>2
<1>3. CASE save[s] # Void /\ save'[s].window = save[s].window
  BY <1>1, <1>3 DEF VersionsInv, AskersAreOpen
<1> QED
  BY <1>2, <1>3

LEMMA Together ==
  ASSUME EditorsInv', SavesInv', AskersAreOpen', PromptInv',
         profile' \in Sheet, analyses' \in 0..MaxVersion
  PROVE  VersionsInv'
BY DEF EditorsInv, SavesInv, PromptInv, VersionsInv, WordsTypeOK

LEMMA AroundDialogs ==
  ASSUME VersionsInv, UNCHANGED <<profile, analyses, promptVars>>,
         EditorsInv', SavesInv', AskersAreOpen'
  PROVE  VersionsInv'
<1>1. profile' \in Sheet /\ analyses' \in 0..MaxVersion
  BY DEF VersionsInv, WordsTypeOK
<1> QED
  BY <1>1, PromptKept, Together

-----------------------------------------------------------------------------
(* The dialog. *)

LEMMA DialogSteps ==
  ASSUME VersionsInv, NEW w \in Windows,
         \/ OpenEditor(w) \/ BeginBuild(w) \/ FailBuild(w) \/ LoadTheirVersion(w)
         \/ \E t \in Words : EditProfile(w, t) \/ EndBuild(w, t)
  PROVE  VersionsInv'
<1> DEFINE e == editor[w]
<1>1. EditorOK(e)
  BY EditorIsOK
<1>2. PICK f \in Editor : EditorOK(f) /\ editor' = [editor EXCEPT ![w] = f]
  <2>1. CASE OpenEditor(w)
    <3> DEFINE f == [base |-> profile, text |-> profile.text, other |-> Void,
                     saving |-> FALSE, building |-> FALSE]
    <3>1. f \in Editor
      BY ProfileIsGiven DEF Editor, Sheet
    <3>2. EditorOK(f)
      BY <3>1, ProfileIsGiven DEF EditorOK
    <3> QED
      BY <2>1, <3>1, <3>2 DEF OpenEditor
  <2>2. CASE BeginBuild(w)
    <3> DEFINE f == [e EXCEPT !.building = TRUE]
    <3>1. e \in Editor
      BY <1>1, <2>2 DEF BeginBuild, EditorOK
    <3>2. f \in Editor /\ EditorOK(f)
      BY <1>1, <2>2, <3>1 DEF BeginBuild, EditorOK, Editor
    <3> QED
      BY <2>2, <3>2 DEF BeginBuild
  <2>3. CASE FailBuild(w)
    <3> DEFINE f == [e EXCEPT !.building = FALSE]
    <3>1. e \in Editor
      BY <1>1, <2>3 DEF FailBuild, EditorOK
    <3>2. f \in Editor /\ EditorOK(f)
      BY <1>1, <2>3, <3>1 DEF FailBuild, EditorOK, Editor
    <3> QED
      BY <2>3, <3>2 DEF FailBuild
  <2>4. CASE LoadTheirVersion(w)
    <3> DEFINE f == [e EXCEPT !.base = e.other, !.text = e.other.text,
                              !.other = Void]
    <3>1. e \in Editor /\ e.other \in Sheet
      BY <1>1, <2>4 DEF LoadTheirVersion, EditorOK, Editor
    <3>2. f \in Editor
      BY <3>1 DEF Editor, Sheet
    <3>3. f.base = e.other /\ f.other = Void
      BY <3>1 DEF Editor
    <3>4. EditorOK(f)
      BY <1>1, <2>4, <3>2, <3>3 DEF LoadTheirVersion, EditorOK
    <3> QED
      BY <2>4, <3>2, <3>4 DEF LoadTheirVersion
  <2>5. ASSUME NEW t \in Words, EditProfile(w, t) \/ EndBuild(w, t)
        PROVE  \E f \in Editor : EditorOK(f) /\ editor' = [editor EXCEPT ![w] = f]
    <3>1. e \in Editor
      BY <1>1, <2>5 DEF EditProfile, EndBuild, EditorOK
    <3>2. CASE EditProfile(w, t)
      <4> DEFINE f == [e EXCEPT !.text = t]
      <4>1. f \in Editor /\ EditorOK(f)
        BY <1>1, <3>1, <3>2 DEF EditProfile, EditorOK, Editor
      <4> QED
        BY <3>2, <4>1 DEF EditProfile
    <3>3. CASE EndBuild(w, t)
      <4> DEFINE f == [e EXCEPT !.building = FALSE, !.text = t]
      <4>1. f \in Editor /\ EditorOK(f)
        BY <1>1, <3>1, <3>3 DEF EndBuild, EditorOK, Editor
      <4> QED
        BY <3>3, <4>1 DEF EndBuild
    <3> QED
      BY <2>5, <3>2, <3>3
  <2> QED
    BY <2>1, <2>2, <2>3, <2>4, <2>5
<1>3. UNCHANGED <<profile, save, analyses, promptVars>>
  BY DEF OpenEditor, BeginBuild, FailBuild, LoadTheirVersion, EditProfile,
         EndBuild
<1>4. EditorsInv'
  BY <1>2, <1>3, EditorPut
<1>5. SavesInv'
  BY <1>3, SavesKept
<1>6. AskersAreOpen'
  BY <1>2, <1>3, <1>5, DialogsStayOpen, AskersStay
<1> QED
  BY <1>3, <1>4, <1>5, <1>6, AroundDialogs

LEMMA CloseEditorStep ==
  ASSUME VersionsInv, NEW w \in Windows, CloseEditor(w)
  PROVE  VersionsInv'
<1>1. EditorsInv'
  BY EditorPut DEF CloseEditor, EditorOK
<1>2. \A s \in Saves : SaveOK(save'[s])
  <2> SUFFICES ASSUME NEW s \in Saves PROVE SaveOK(save'[s])
    OBVIOUS
  <2>1. CASE save[s] # Void /\ save[s].window = w
    <3> DEFINE c == [save[s] EXCEPT !.window = Void]
    <3>1. save[s] \in SaveCall /\ Given(save[s].over)
      BY <2>1, SaveIsOK DEF SaveOK
    <3>2. c \in SaveCall /\ c.over = save[s].over
      BY <3>1 DEF SaveCall
    <3> QED
      BY <2>1, <3>1, <3>2 DEF CloseEditor, SaveOK
  <2>2. CASE ~(save[s] # Void /\ save[s].window = w)
    BY <2>2, SaveIsOK DEF CloseEditor
  <2> QED
    BY <2>1, <2>2
<1>3. SavesInv'
  BY <1>2 DEF CloseEditor, SavesInv, SavesAreGiven, SaveOK, Given
<1>4. AskersAreOpen'
  <2> SUFFICES ASSUME NEW s \in Saves, save'[s] # Void, save'[s].window # Void
               PROVE  editor'[save'[s].window] # Void
    BY DEF AskersAreOpen
  <2>1. CASE save[s] # Void /\ save[s].window = w
    <3>1. save'[s] = [save[s] EXCEPT !.window = Void] /\ save[s] \in SaveCall
      BY <2>1, SaveIsOK DEF CloseEditor, SaveOK
    <3> QED
      BY <3>1 DEF SaveCall
  <2>2. CASE ~(save[s] # Void /\ save[s].window = w)
    <3>1. save[s] # Void /\ save'[s] = save[s] /\ save[s].window # w
      BY <2>2 DEF CloseEditor
    <3>2. save[s].window \in Windows /\ editor[save[s].window] # Void
      BY <3>1, SaveIsOK DEF SaveOK, SaveCall, VersionsInv, AskersAreOpen
    <3> QED
      BY <3>1, <3>2 DEF CloseEditor, VersionsInv, WordsTypeOK
  <2> QED
    BY <2>1, <2>2
<1> QED
  BY <1>1, <1>3, <1>4, AroundDialogs DEF CloseEditor

-----------------------------------------------------------------------------
(* Saving. *)

LEMMA SendStep ==
  ASSUME VersionsInv, NEW s \in Saves, NEW w \in Windows,
         SaveProfile(s, w) \/ SaveMineAsNext(s, w)
  PROVE  VersionsInv'
<1> DEFINE e == editor[w]
<1>1. e # Void /\ e \in Editor /\ EditorOK(e)
  BY EditorIsOK DEF SaveProfile, SaveMineAsNext, EditorOK
<1>2. PICK sheet \in Sheet : Given(sheet) /\ Send(s, w, sheet)
  <2>1. CASE SaveProfile(s, w)
    BY <1>1, <2>1 DEF SaveProfile, EditorOK, Editor
  <2>2. CASE SaveMineAsNext(s, w)
    BY <1>1, <2>2 DEF SaveMineAsNext, EditorOK, Editor
  <2> QED
    BY <2>1, <2>2
<1> DEFINE f == [e EXCEPT !.saving = TRUE]
<1>3. f \in Editor /\ editor' = [editor EXCEPT ![w] = f] /\ EditorsInv'
  <2>1. f \in Editor /\ f.base = e.base /\ f.other = e.other
    BY <1>1 DEF Editor
  <2>2. EditorOK(f)
    BY <1>1, <2>1 DEF EditorOK
  <2>3. editor' = [editor EXCEPT ![w] = f]
    BY <1>2 DEF Send
  <2> QED
    BY <1>2, <2>1, <2>2, <2>3, EditorPut DEF Send
<1>4. SavesInv'
  <2> DEFINE c == [window |-> w, text |-> e.text, over |-> sheet, stage |-> "sent"]
  <2>1. c \in SaveCall
    BY <1>1 DEF SaveCall, Editor
  <2>2. SaveOK(c)
    BY <1>2, <2>1 DEF SaveOK
  <2> QED
    BY <1>2, <2>2, SavePut DEF Send
<1>5. AskersAreOpen'
  <2>1. \A r \in Saves : save'[r] = save[r] \/ save'[r].window = w
    BY <1>2 DEF Send, VersionsInv, WordsTypeOK
  <2> QED
    BY <1>3, <1>4, <2>1, DialogsStayOpen, AskersStay
<1> QED
  BY <1>2, <1>3, <1>4, <1>5, AroundDialogs DEF Send

\* A request at another stage is the same request.
LEMMA AtStage ==
  ASSUME VersionsInv, NEW s \in Saves, save[s] # Void,
         NEW stage \in {"checked", "saved", "conflict"}
  PROVE  /\ save[s] \in SaveCall
         /\ [save[s] EXCEPT !.stage = stage].over = save[s].over
         /\ [save[s] EXCEPT !.stage = stage].window = save[s].window
         /\ SaveOK([save[s] EXCEPT !.stage = stage])
<1>1. save[s] \in SaveCall /\ Given(save[s].over)
  BY SaveIsOK DEF SaveOK
<1>2. /\ [save[s] EXCEPT !.stage = stage] \in SaveCall
      /\ [save[s] EXCEPT !.stage = stage].over = save[s].over
      /\ [save[s] EXCEPT !.stage = stage].window = save[s].window
  BY <1>1 DEF SaveCall
<1> QED
  BY <1>1, <1>2 DEF SaveOK

LEMMA CheckStep ==
  ASSUME VersionsInv, NEW s \in Saves, CheckVersion(s)
  PROVE  VersionsInv'
<1> DEFINE stage == IF save[s].over.version = profile.version
                      THEN "checked" ELSE "conflict"
<1>1. SaveOK([save[s] EXCEPT !.stage = stage])
  BY AtStage DEF CheckVersion
<1>2. save' = [save EXCEPT ![s] = [save[s] EXCEPT !.stage = stage]]
  BY DEF CheckVersion
<1>3. SavesInv'
  BY <1>1, <1>2, SavePut DEF CheckVersion
<1>4. EditorsInv'
  BY EditorsKept DEF CheckVersion
<1>5. AskersAreOpen'
  <2>1. \A r \in Saves : save'[r] = save[r] \/ save'[r].window = save[r].window
    BY <1>2, AtStage DEF CheckVersion, VersionsInv, WordsTypeOK
  <2> QED
    BY <1>3, <2>1, AskersStay DEF CheckVersion
<1> QED
  BY <1>3, <1>4, <1>5, AroundDialogs DEF CheckVersion

\* A row that was given stays given when the profile takes its next number.
LEMMA NextVersion ==
  ASSUME VersionsInv, profile' \in Sheet,
         profile'.version = profile.version + 1,
         NEW sheet \in Sheet, Given(sheet)
  PROVE  Given(sheet)'
<1>1. sheet.version \in Nat /\ profile.version \in Nat
  BY ProfilesAssumption DEF VersionsInv, WordsTypeOK, Sheet
<1> QED
  BY <1>1 DEF Given

\* A write: the next version, and at most one request goes on.
LEMMA Writes ==
  ASSUME VersionsInv, profile' \in Sheet,
         profile'.version = profile.version + 1,
         UNCHANGED editor,
         save' \in [Saves -> SaveCall \cup {Void}],
         \A s \in Saves : save'[s] # Void =>
           /\ save[s] # Void /\ save'[s].over = save[s].over
           /\ save'[s].window = save[s].window
  PROVE  EditorsInv' /\ SavesInv' /\ AskersAreOpen'
<1>1. EditorsAreGiven'
  <2> SUFFICES ASSUME NEW w \in Windows, editor[w] # Void
               PROVE  /\ Given(editor[w].base)'
                      /\ editor[w].other # Void => Given(editor[w].other)'
    BY DEF EditorsAreGiven, Given
  <2>1. EditorOK(editor[w]) /\ editor[w] \in Editor
    BY EditorIsOK DEF EditorOK
  <2>2. editor[w].base \in Sheet /\ editor[w].other \in Sheet \cup {Void}
    BY <2>1 DEF Editor
  <2>3. Given(editor[w].base)'
    BY <2>1, <2>2, NextVersion DEF EditorOK, Given
  <2>4. ASSUME editor[w].other # Void PROVE Given(editor[w].other)'
    BY <2>1, <2>2, <2>4, NextVersion DEF EditorOK, Given
  <2> QED
    BY <2>3, <2>4
<1>2. SavesAreGiven'
  <2> SUFFICES ASSUME NEW s \in Saves, save'[s] # Void
               PROVE  Given(save[s].over)'
    BY DEF SavesAreGiven, Given
  <2>1. save[s] \in SaveCall /\ Given(save[s].over)
    BY SaveIsOK DEF SaveOK
  <2>2. save[s].over \in Sheet
    BY <2>1 DEF SaveCall
  <2> QED
    BY <2>1, <2>2, NextVersion DEF Given
<1>3. editor' \in [Windows -> Editor \cup {Void}]
  BY DEF VersionsInv, WordsTypeOK
<1>4. EditorsInv' /\ SavesInv'
  BY <1>1, <1>2, <1>3 DEF EditorsInv, SavesInv
<1> QED
  BY <1>4, AskersStay

LEMMA WriteStep ==
  ASSUME VersionsInv, NEW s \in Saves, WriteProfile(s)
  PROVE  VersionsInv'
<1>1. save \in [Saves -> SaveCall \cup {Void}] /\ profile \in Sheet
  BY DEF VersionsInv, WordsTypeOK
<1>2. save[s] # Void /\ save[s] \in SaveCall
  BY <1>1 DEF WriteProfile
<1>3. CASE SameVersion(s)
  <2>1. profile' \in Sheet
    <3>1. Tidy[save[s].text] \in Words
      BY <1>2, ProfilesAssumption DEF SaveCall
    <3>2. profile.version + 1 \in 0..MaxVersion
      BY <1>1, <1>3, ProfilesAssumption DEF WriteProfile, Sheet
    <3> QED
      BY <1>3, <3>1, <3>2 DEF WriteProfile, SameVersion, Sheet
  <2>2. profile'.version = profile.version + 1
    BY <1>3 DEF WriteProfile, SameVersion
  <2> DEFINE c == [save[s] EXCEPT !.stage = "saved"]
  <2>3. c \in SaveCall /\ c.over = save[s].over /\ c.window = save[s].window
    BY <1>2 DEF SaveCall
  <2>4. save' = [save EXCEPT ![s] = c]
    BY <1>3 DEF WriteProfile
  <2>5. save' \in [Saves -> SaveCall \cup {Void}]
    BY <1>1, <2>3, <2>4
  <2>6. \A r \in Saves : save'[r] # Void =>
          /\ save[r] # Void /\ save'[r].over = save[r].over
          /\ save'[r].window = save[r].window
    BY <1>1, <1>2, <2>3, <2>4
  <2>7. EditorsInv' /\ SavesInv' /\ AskersAreOpen'
    BY <2>1, <2>2, <2>5, <2>6, Writes DEF WriteProfile
  <2>8. analyses' \in 0..MaxVersion
    BY DEF VersionsInv, WordsTypeOK, WriteProfile
  <2> QED
    BY <2>1, <2>7, <2>8, PromptKept, Together DEF WriteProfile
<1>4. CASE ~SameVersion(s)
  <2> DEFINE c == [save[s] EXCEPT !.stage = "conflict"]
  <2>1. SaveOK(c) /\ save' = [save EXCEPT ![s] = c]
    BY <1>2, <1>4, AtStage DEF WriteProfile
  <2>2. SavesInv' /\ EditorsInv'
    BY <1>4, <2>1, SavePut, EditorsKept DEF WriteProfile
  <2>3. \A r \in Saves : save'[r] # Void =>
          save[r] # Void /\ save'[r].window = save[r].window
    BY <1>1, <1>2, <2>1, AtStage DEF WriteProfile
  <2>4. AskersAreOpen'
    BY <1>2, <2>2, <2>3, AskersStay DEF WriteProfile
  <2> QED
    BY <1>4, <2>2, <2>4, AroundDialogs DEF WriteProfile
<1> QED
  BY <1>3, <1>4

\* A request that is over, and the dialog, if any, that it has its answer in.
LEMMA SaveEnds ==
  ASSUME VersionsInv, UNCHANGED <<profile, analyses, promptVars>>,
         NEW s \in Saves, save[s] # Void,
         save' = [save EXCEPT ![s] = Void],
         \/ UNCHANGED editor
         \/ \E w \in Windows, f \in Editor :
              EditorOK(f) /\ editor' = [editor EXCEPT ![w] = f]
  PROVE  VersionsInv'
<1>1. SavesInv'
  BY SavePut DEF SaveOK
<1>2. EditorsInv' /\ \A v \in Windows : editor[v] # Void => editor'[v] # Void
  BY EditorsKept, EditorPut, DialogsStayOpen
<1>3. \A r \in Saves : save'[r] = Void \/ save'[r] = save[r]
  BY DEF VersionsInv, WordsTypeOK
<1>4. AskersAreOpen'
  BY <1>1, <1>2, <1>3, AskersStay
<1> QED
  BY <1>1, <1>2, <1>4, AroundDialogs

\* The dialog of a request is open.
LEMMA AskersDialog ==
  ASSUME VersionsInv, NEW s \in Saves, save[s] # Void, save[s].window # Void
  PROVE  /\ save[s].window \in Windows
         /\ editor[save[s].window] \in Editor /\ EditorOK(editor[save[s].window])
         /\ editor[save[s].window] # Void
<1>1. save[s] \in SaveCall
  BY SaveIsOK DEF SaveOK
<1>2. save[s].window \in Windows /\ editor[save[s].window] # Void
  BY <1>1 DEF SaveCall, VersionsInv, AskersAreOpen
<1> QED
  BY <1>2, EditorIsOK DEF EditorOK

LEMMA AnswerStep ==
  ASSUME VersionsInv, NEW s \in Saves, AnswerSave(s)
  PROVE  VersionsInv'
<1> DEFINE w == save[s].window
           e == editor[w]
<1>1. profile \in Sheet /\ Given(profile)
  BY ProfileIsGiven
<1>2. CASE w = Void
  BY <1>2, SaveEnds DEF AnswerSave
<1>3. CASE w # Void
  <2>1. w \in Windows /\ e \in Editor /\ EditorOK(e) /\ e # Void
    BY <1>3, AskersDialog DEF AnswerSave
  <2>2. CASE save[s].stage = "conflict"
    <3> DEFINE f == [e EXCEPT !.other = profile, !.saving = FALSE]
    <3>1. f \in Editor /\ f.base = e.base /\ f.other = profile
      BY <1>1, <2>1 DEF Editor
    <3>2. EditorOK(f)
      BY <1>1, <2>1, <3>1 DEF EditorOK
    <3>3. editor' = [editor EXCEPT ![w] = f]
      BY <1>3, <2>2 DEF AnswerSave
    <3> QED
      BY <2>1, <3>1, <3>2, <3>3, SaveEnds DEF AnswerSave
  <2>3. CASE save[s].stage # "conflict"
    <3> DEFINE f == [e EXCEPT !.base = profile, !.text = Kept(w, s),
                              !.other = Void, !.saving = FALSE]
    <3>1. Kept(w, s) \in Words
      BY <1>1, <2>1 DEF Kept, Editor, Sheet
    <3>2. f \in Editor /\ f.base = profile /\ f.other = Void
      BY <1>1, <2>1, <3>1 DEF Editor
    <3>3. EditorOK(f)
      BY <1>1, <3>2 DEF EditorOK
    <3>4. editor' = [editor EXCEPT ![w] = f]
      BY <1>3, <2>3 DEF AnswerSave
    <3> QED
      BY <2>1, <3>2, <3>3, <3>4, SaveEnds DEF AnswerSave
  <2> QED
    BY <2>2, <2>3
<1> QED
  BY <1>2, <1>3

LEMMA FailStep ==
  ASSUME VersionsInv, NEW s \in Saves, FailSave(s)
  PROVE  VersionsInv'
<1> DEFINE w == save[s].window
           e == editor[w]
<1>1. CASE w = Void
  BY <1>1, SaveEnds DEF FailSave
<1>2. CASE w # Void
  <2>1. w \in Windows /\ e \in Editor /\ EditorOK(e) /\ e # Void
    BY <1>2, AskersDialog DEF FailSave
  <2> DEFINE f == [e EXCEPT !.saving = FALSE]
  <2>2. f \in Editor /\ EditorOK(f)
    BY <2>1 DEF Editor, EditorOK
  <2>3. editor' = [editor EXCEPT ![w] = f]
    BY <1>2 DEF FailSave
  <2> QED
    BY <2>1, <2>2, <2>3, SaveEnds DEF FailSave
<1> QED
  BY <1>1, <1>2

-----------------------------------------------------------------------------
(* The analysis. *)

LEMMA AnalysisSteps ==
  ASSUME VersionsInv, BeginAnalysis \/ StoreAnalysis \/ FailAnalysis
  PROVE  VersionsInv'
<1>1. profile \in Sheet /\ analyses \in 0..MaxVersion /\ MaxVersion \in Nat
  BY ProfilesAssumption DEF VersionsInv, WordsTypeOK
<1>2. analyses' \in 0..MaxVersion
  BY <1>1 DEF BeginAnalysis, StoreAnalysis, FailAnalysis
<1>3. CASE BeginAnalysis \/ FailAnalysis
  <2>1. EditorsInv' /\ SavesInv' /\ AskersAreOpen'
    BY <1>3, EditorsKept, SavesKept, AskersStay DEF BeginAnalysis, FailAnalysis
  <2> QED
    BY <1>1, <1>2, <1>3, <2>1, PromptKept, Together
       DEF BeginAnalysis, FailAnalysis
<1>4. CASE StoreAnalysis
  <2>1. profile' \in Sheet /\ profile'.version = profile.version + 1
    BY <1>1, <1>4 DEF StoreAnalysis, Sheet
  <2>2. EditorsInv' /\ SavesInv' /\ AskersAreOpen'
    BY <1>4, <2>1, Writes DEF StoreAnalysis, VersionsInv, WordsTypeOK
  <2> QED
    BY <1>2, <1>4, <2>1, <2>2, PromptKept, Together DEF StoreAnalysis
<1> QED
  BY <1>3, <1>4

-----------------------------------------------------------------------------
(* The system prompt. *)

\* The profile's part of the invariant does not see the prompt.
LEMMA AroundPrompt ==
  ASSUME VersionsInv, UNCHANGED profileVars, PromptInv'
  PROVE  VersionsInv'
<1>1. UNCHANGED <<profile, editor, save, analyses>>
  BY DEF profileVars
<1>2. EditorsInv' /\ SavesInv'
  BY <1>1, EditorsKept, SavesKept
<1>3. AskersAreOpen'
  BY <1>1, <1>2, AskersStay
<1>4. profile' \in Sheet /\ analyses' \in 0..MaxVersion
  BY <1>1 DEF VersionsInv, WordsTypeOK
<1> QED
  BY <1>2, <1>3, <1>4, Together

LEMMA PaneSteps ==
  ASSUME VersionsInv, NEW w \in Windows,
         OpenPane(w) \/ \E t \in Words : EditPrompt(w, t)
  PROVE  VersionsInv'
<1>1. prompt \in Words /\ pane \in [Windows -> Pane \cup {Void}]
  BY DEF VersionsInv, WordsTypeOK
<1>2. PICK f \in Pane : pane' = [pane EXCEPT ![w] = f]
  <2>1. CASE OpenPane(w)
    <3>1. [base |-> prompt, text |-> prompt, saving |-> FALSE] \in Pane
      BY <1>1 DEF Pane
    <3> QED
      BY <2>1, <3>1 DEF OpenPane
  <2>2. ASSUME NEW t \in Words, EditPrompt(w, t)
        PROVE  \E f \in Pane : pane' = [pane EXCEPT ![w] = f]
    <3>1. pane[w] \in Pane
      BY <1>1, <2>2 DEF EditPrompt
    <3>2. [pane[w] EXCEPT !.text = t] \in Pane
      BY <3>1 DEF Pane
    <3> QED
      BY <2>2, <3>2 DEF EditPrompt
  <2> QED
    BY <2>1, <2>2
<1>3. UNCHANGED <<profileVars, prompt, patch>>
  BY DEF OpenPane, EditPrompt
<1>4. \A v \in Windows : pane[v] # Void => pane'[v] # Void
  BY <1>1, <1>2, VoidAssumption
<1>5. PatchersAreOpen'
  BY <1>3, <1>4 DEF VersionsInv, WordsTypeOK, PatchersAreOpen, PatchCall
<1>6. PromptInv'
  BY <1>1, <1>2, <1>3, <1>5 DEF VersionsInv, WordsTypeOK, PromptInv
<1> QED
  BY <1>3, <1>6, AroundPrompt

LEMMA ClosePaneStep ==
  ASSUME VersionsInv, NEW w \in Windows, ClosePane(w)
  PROVE  VersionsInv'
<1>1. /\ pane \in [Windows -> Pane \cup {Void}]
      /\ patch \in [Saves -> PatchCall \cup {Void}]
  BY DEF VersionsInv, WordsTypeOK
<1>2. \A s \in Saves :
        /\ patch'[s] \in PatchCall \cup {Void}
        /\ patch'[s] # Void /\ patch'[s].window # Void =>
             /\ patch[s] # Void /\ patch'[s].window = patch[s].window
             /\ patch[s].window \in Windows \ {w}
  <2> SUFFICES ASSUME NEW s \in Saves
        PROVE /\ patch'[s] \in PatchCall \cup {Void}
              /\ patch'[s] # Void /\ patch'[s].window # Void =>
                   /\ patch[s] # Void /\ patch'[s].window = patch[s].window
                   /\ patch[s].window \in Windows \ {w}
    OBVIOUS
  <2>1. CASE patch[s] # Void /\ patch[s].window = w
    <3> DEFINE c == [patch[s] EXCEPT !.window = Void]
    <3>1. patch[s] \in PatchCall
      BY <1>1, <2>1
    <3>2. c \in PatchCall /\ c.window = Void
      BY <3>1 DEF PatchCall
    <3> QED
      BY <2>1, <3>2 DEF ClosePane
  <2>2. CASE ~(patch[s] # Void /\ patch[s].window = w)
    BY <1>1, <2>2 DEF ClosePane, PatchCall
  <2> QED
    BY <2>1, <2>2
<1>3. PatchersAreOpen'
  BY <1>1, <1>2 DEF ClosePane, VersionsInv, PatchersAreOpen
<1>4. patch' \in [Saves -> PatchCall \cup {Void}]
  BY <1>2 DEF ClosePane
<1>5. PromptInv'
  BY <1>1, <1>3, <1>4 DEF ClosePane, VersionsInv, WordsTypeOK, PromptInv
<1> QED
  BY <1>5, AroundPrompt DEF ClosePane

LEMMA SavePromptStep ==
  ASSUME VersionsInv, NEW s \in Saves, NEW w \in Windows, SavePrompt(s, w)
  PROVE  VersionsInv'
<1> DEFINE c == [window |-> w, text |-> pane[w].text, over |-> pane[w].base,
                 stage |-> "sent"]
           f == [pane[w] EXCEPT !.saving = TRUE]
<1>1. /\ pane \in [Windows -> Pane \cup {Void}]
      /\ patch \in [Saves -> PatchCall \cup {Void}]
  BY DEF VersionsInv, WordsTypeOK
<1>2. pane[w] \in Pane
  BY <1>1 DEF SavePrompt
<1>3. c \in PatchCall /\ f \in Pane
  BY <1>2 DEF PatchCall, Pane
<1>4. /\ patch' = [patch EXCEPT ![s] = c] /\ pane' = [pane EXCEPT ![w] = f]
      /\ UNCHANGED <<profileVars, prompt>>
  BY DEF SavePrompt
<1>5. pane'[w] # Void /\ \A v \in Windows : pane[v] # Void => pane'[v] # Void
  BY <1>1, <1>3, <1>4, VoidAssumption
<1>6. \A r \in Saves : patch'[r] = c \/ patch'[r] = patch[r]
  BY <1>1, <1>4
<1>7. PatchersAreOpen'
  BY <1>1, <1>5, <1>6 DEF VersionsInv, PatchersAreOpen, PatchCall
<1>8. PromptInv'
  BY <1>1, <1>3, <1>4, <1>7 DEF VersionsInv, WordsTypeOK, PromptInv
<1> QED
  BY <1>4, <1>8, AroundPrompt

LEMMA PatchSteps ==
  ASSUME VersionsInv, NEW s \in Saves,
         WritePrompt(s) \/ AnswerPatch(s) \/ FailPatch(s)
  PROVE  VersionsInv'
<1> DEFINE w == patch[s].window
<1>1. /\ pane \in [Windows -> Pane \cup {Void}] /\ prompt \in Words
      /\ patch \in [Saves -> PatchCall \cup {Void}]
  BY DEF VersionsInv, WordsTypeOK
<1>2. patch[s] # Void /\ patch[s] \in PatchCall /\ UNCHANGED profileVars
  BY <1>1 DEF WritePrompt, AnswerPatch, FailPatch
<1>3. CASE WritePrompt(s)
  <2> DEFINE c == [patch[s] EXCEPT !.stage = "saved"]
  <2>1. c \in PatchCall /\ c.window = w
    BY <1>2 DEF PatchCall
  <2>2. patch' = [patch EXCEPT ![s] = c] /\ pane' = pane
    BY <1>3 DEF WritePrompt
  <2>3. \A r \in Saves : patch'[r] # Void =>
          patch[r] # Void /\ patch'[r].window = patch[r].window
    BY <1>1, <1>2, <2>1, <2>2
  <2>4. PatchersAreOpen'
    BY <2>2, <2>3 DEF VersionsInv, PatchersAreOpen
  <2>5. prompt' \in Words
    BY <1>2, <1>3 DEF WritePrompt, PatchCall
  <2>6. PromptInv'
    BY <1>1, <2>1, <2>2, <2>4, <2>5 DEF PromptInv
  <2> QED
    BY <1>2, <2>6, AroundPrompt
<1>4. CASE AnswerPatch(s) \/ FailPatch(s)
  <2>1. patch' = [patch EXCEPT ![s] = Void] /\ prompt' = prompt
    BY <1>4 DEF AnswerPatch, FailPatch
  <2>2. \A r \in Saves : patch'[r] = Void \/ patch'[r] = patch[r]
    BY <1>1, <2>1
  <2>3. \/ pane' = pane
        \/ w \in Windows /\ \E f \in Pane : pane' = [pane EXCEPT ![w] = f]
    <3>1. CASE w = Void
      BY <1>4, <3>1 DEF AnswerPatch, FailPatch
    <3>2. CASE w # Void
      <4>1. w \in Windows
        BY <1>2, <3>2 DEF PatchCall
      <4>2. pane[w] \in Pane
        BY <1>1, <1>2, <3>2, <4>1 DEF VersionsInv, PatchersAreOpen
      <4>3. /\ [pane[w] EXCEPT !.saving = FALSE] \in Pane
            /\ [pane[w] EXCEPT !.base = patch[s].text, !.saving = FALSE] \in Pane
        BY <1>2, <4>2 DEF Pane, PatchCall
      <4> QED
        BY <1>4, <3>2, <4>1, <4>3 DEF AnswerPatch, FailPatch
    <3> QED
      BY <3>1, <3>2
  <2>4. /\ pane' \in [Windows -> Pane \cup {Void}]
        /\ \A v \in Windows : pane[v] # Void => pane'[v] # Void
    BY <1>1, <2>3, VoidAssumption
  <2>5. PatchersAreOpen'
    BY <1>1, <2>2, <2>4 DEF VersionsInv, PatchersAreOpen, PatchCall
  <2>6. PromptInv'
    BY <1>1, <2>1, <2>4, <2>5 DEF PromptInv
  <2> QED
    BY <1>2, <2>6, AroundPrompt
<1> QED
  BY <1>3, <1>4

-----------------------------------------------------------------------------
(* Theorems. *)

LEMMA InitOK == WordsInit => VersionsInv
<1> SUFFICES ASSUME WordsInit PROVE VersionsInv
  OBVIOUS
<1>1. WordsTypeOK
  BY ProfilesAssumption DEF WordsInit, WordsTypeOK, Sheet
<1> QED
  BY <1>1 DEF WordsInit, VersionsInv, EditorsAreGiven, SavesAreGiven,
              AskersAreOpen, PatchersAreOpen

LEMMA StepOK == VersionsInv /\ [WordsNext]_wordsVars => VersionsInv'
<1> SUFFICES ASSUME VersionsInv, [WordsNext]_wordsVars PROVE VersionsInv'
  OBVIOUS
<1>1. CASE WordsNext
  BY <1>1, DialogSteps, CloseEditorStep, SendStep, CheckStep, WriteStep,
     AnswerStep, FailStep, AnalysisSteps, PaneSteps, ClosePaneStep,
     SavePromptStep, PatchSteps DEF WordsNext
<1>2. CASE UNCHANGED wordsVars
  <2>1. PromptInv' /\ UNCHANGED profileVars
    BY <1>2, PromptKept DEF wordsVars
  <2> QED
    BY <2>1, AroundPrompt
<1> QED
  BY <1>1, <1>2

\* The rows of the profile and of the prompt, what the dialogs and requests hold
\* of them and what is in flight have their types, always.
THEOREM WordsAreTyped == WordsSpec => []WordsTypeOK
<1>1. VersionsInv => WordsTypeOK
  BY DEF VersionsInv
<1> QED
  BY <1>1, InitOK, StepOK, PTL DEF WordsSpec

\* What a dialog or a request was given with the number that the profile has now
\* is the profile as it is now: comparing numbers is comparing contents.
THEOREM NumbersIdentifyRows == WordsSpec => [](EditorsAreGiven /\ SavesAreGiven)
<1>1. VersionsInv => EditorsAreGiven /\ SavesAreGiven
  BY DEF VersionsInv
<1> QED
  BY <1>1, InitOK, StepOK, PTL DEF WordsSpec

\* Only a write changes the profile's texts, and its request was given the row.
LEMMA ReplacesProfile ==
  ASSUME VersionsInv, WordsNext, profile'.text # profile.text
  PROVE  \E s \in Saves : save[s] # Void /\ save'[s] # save[s]
                            /\ save[s].over = profile
<1>1. PICK s \in Saves : WriteProfile(s) /\ SameVersion(s)
  <2>1. profile \in Sheet
    BY DEF VersionsInv, WordsTypeOK
  <2>2. ~StoreAnalysis
    BY <2>1 DEF StoreAnalysis, Sheet
  <2> QED
    BY <2>2 DEF WordsNext, OpenEditor, CloseEditor, BeginBuild, FailBuild,
      LoadTheirVersion, EditProfile, EndBuild, SaveProfile, SaveMineAsNext, Send,
      CheckVersion, WriteProfile, AnswerSave, FailSave, BeginAnalysis,
      FailAnalysis, OpenPane, ClosePane, EditPrompt, SavePrompt, WritePrompt,
      AnswerPatch, FailPatch, profileVars
<1>2. save[s] # Void /\ save[s] \in SaveCall /\ Given(save[s].over)
  BY <1>1, SaveIsOK DEF WriteProfile, SaveOK
<1>3. save[s].over = profile
  BY <1>1, <1>2 DEF SameVersion, Given
<1>4. save'[s].stage = "saved" /\ save[s].stage = "checked"
  <2>1. save \in [Saves -> SaveCall \cup {Void}]
    BY DEF VersionsInv, WordsTypeOK
  <2>2. save'[s] = [save[s] EXCEPT !.stage = "saved"]
    BY <1>1, <2>1 DEF WriteProfile
  <2> QED
    BY <1>1, <1>2, <2>2 DEF WriteProfile, SaveCall
<1> QED
  BY <1>2, <1>3, <1>4

\* Only a write changes the prompt, and its request carries the prompt it saw.
LEMMA ReplacesPrompt ==
  ASSUME VersionsInv, WordsNext, prompt' # prompt
  PROVE  \E s \in Saves : patch[s] # Void /\ patch'[s] # patch[s]
                            /\ patch[s].over = prompt
<1>1. PICK s \in Saves : WritePrompt(s)
  BY DEF WordsNext, OpenEditor, CloseEditor, BeginBuild, FailBuild,
    LoadTheirVersion, EditProfile, EndBuild, SaveProfile, SaveMineAsNext, Send,
    CheckVersion, WriteProfile, AnswerSave, FailSave, BeginAnalysis,
    StoreAnalysis, FailAnalysis, OpenPane, ClosePane, EditPrompt, SavePrompt,
    AnswerPatch, FailPatch, promptVars
<1>2. patch[s] \in PatchCall /\ patch \in [Saves -> PatchCall \cup {Void}]
  BY <1>1 DEF WritePrompt, VersionsInv, WordsTypeOK
<1>3. patch'[s].stage = "saved"
  BY <1>1, <1>2 DEF WritePrompt, PatchCall
<1> QED
  BY <1>1, <1>3 DEF WritePrompt

\* The owner's words are replaced only by a save from a dialog that had been given
\* exactly these words: the condition of the upsert (update_profile) and of the
\* prompt's UPDATE (set_system_prompt) suffice, for every number of windows.
THEOREM NothingElseReplaces == WordsSpec => NothingUngivenIsReplaced
<1> DEFINE Step ==
      /\ profile'.text # profile.text =>
           \E s \in Saves : save[s] # Void /\ save'[s] # save[s]
                              /\ save[s].over = profile
      /\ prompt' # prompt =>
           \E s \in Saves : patch[s] # Void /\ patch'[s] # patch[s]
                              /\ patch[s].over = prompt
<1>1. VersionsInv /\ [WordsNext]_wordsVars => [Step]_wordsVars
  BY ReplacesProfile, ReplacesPrompt
<1> QED
  BY <1>1, InitOK, StepOK, PTL DEF WordsSpec, NothingUngivenIsReplaced
=============================================================================
