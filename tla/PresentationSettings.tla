------------------------- MODULE PresentationSettings -------------------------
(***************************************************************************)
(* The theme and the workspace experience of one account: the two stores   *)
(* of presentation/ share one settings file, the builder server tells the  *)
(* tabs over their event streams, and each tab applies frames and answers  *)
(* to its own calls (public/theme.js, workspace.js), which travel on       *)
(* different connections.  Palettes and layouts are left out, and with     *)
(* them what is painted.                                                   *)
(***************************************************************************)
EXTENDS Naturals, Sequences, FiniteSets

CONSTANTS
  Tab, Experience, DefaultExperience,
  Theme, DefaultTheme,
  MaxFrames,   \* bound: frames on their way to one tab
  MaxChanges   \* bound: calls of the tabs

ASSUME PresentationAssumption ==
  /\ DefaultExperience \in Experience /\ DefaultTheme \in Theme
  /\ MaxFrames \in Nat \ {0, 1} /\ MaxChanges \in Nat

VARIABLES
  experience, \* workspaceExperience in the settings file
  themeOf,    \* themesByExperience in it, with the defaults
  shown,      \* what the store of each tab holds
  streaming,  \* tabs whose event stream is open
  frames,     \* on their way, per tab
  asking,     \* the call of each tab
  changes,    \* calls so far
  promised,   \* auxiliary: per experience, the theme last committed
  everKept,  \* auxiliary: all themes committed so far, and the default
  overtaken   \* auxiliary: tabs that applied an answer after a newer frame

presentationVars == <<experience, themeOf, shown, streaming, frames, asking, changes,
                      promised, everKept, overtaken>>
settingsVars == <<experience, themeOf, promised, everKept>>

NotAsking == [at |-> "rest"]
ExperienceFrame(e) == [kind |-> "experience", experience |-> e]
ThemeFrame(t, previewed) == [kind |-> "theme", theme |-> t, previewed |-> previewed]

PresentationInit ==
  /\ experience = DefaultExperience /\ themeOf = [e \in Experience |-> DefaultTheme]
  /\ shown = [c \in Tab |-> [experience |-> DefaultExperience, committed |-> DefaultTheme,
                             previewed |-> "none"]]
  /\ streaming = {} /\ frames = [c \in Tab |-> <<>>] /\ asking = [c \in Tab |-> NotAsking]
  /\ changes = 0 /\ promised = themeOf /\ everKept = {DefaultTheme} /\ overtaken = {}

PresentationTypeOK ==
  /\ experience \in Experience /\ themeOf \in [Experience -> Theme] /\ everKept \subseteq Theme
  /\ shown \in [Tab -> [experience : Experience, committed : Theme,
                        previewed : Theme \cup {"none"}]]
  /\ streaming \cup overtaken \subseteq Tab /\ changes \in 0..MaxChanges
  /\ \A c \in Tab : Len(frames[c]) <= MaxFrames

-----------------------------------------------------------------------------
Ask(c, request) ==
  /\ asking[c] = NotAsking /\ changes < MaxChanges /\ changes' = changes + 1
  /\ asking' = [asking EXCEPT ![c] = [at |-> "sent", request |-> request]]
  /\ UNCHANGED <<settingsVars, shown, streaming, frames, overtaken>>

AskSelect(c, e) == Ask(c, [op |-> "select", experience |-> e])
AskTheme(c, op, t) == Ask(c, [op |-> op, theme |-> t, experience |-> shown[c].experience])
AskBootstrap(c, op) == Ask(c, [op |-> op, experience |-> shown[c].experience])

BroadcastFrame(f) ==
  /\ \A c \in streaming : Len(frames[c]) < MaxFrames
  /\ frames' = [c \in Tab |-> IF c \in streaming THEN Append(frames[c], f) ELSE frames[c]]

\* The answer is on its way; ahead counts the frames written before it.
Answers(c, ok, f) ==
  asking' = [asking EXCEPT ![c] = [at |-> "answered", ok |-> ok, frame |-> f,
                                   ahead |-> Len(frames'[c])]]

\* select() and saveCustomLayout() write the file, or leave it as it is.
\* (Mutant: the document is written anew.)
DropThemes(e) == experience' = e /\ themeOf' = [x \in Experience |-> DefaultTheme]
SelectExperience(e) == experience' = e /\ UNCHANGED themeOf

HandleSelectWorkspaceExperience(c) ==
  /\ asking[c].at = "sent" /\ asking[c].request.op = "select"
  /\ LET e == asking[c].request.experience
     IN \/ /\ SelectExperience(e) /\ BroadcastFrame(ExperienceFrame(e))
           /\ Answers(c, TRUE, ExperienceFrame(e))
        \/ /\ UNCHANGED <<experience, themeOf, frames>>
           /\ Answers(c, FALSE, ExperienceFrame(experience))
  /\ UNCHANGED <<shown, streaming, changes, promised, everKept, overtaken>>

CommitTheme(e, t) ==
  /\ themeOf' = [themeOf EXCEPT ![e] = t] /\ promised' = [promised EXCEPT ![e] = t]
  /\ everKept' = everKept \cup {t} /\ UNCHANGED experience

HandleTheme(c) ==
  /\ asking[c].at = "sent" /\ asking[c].request.op \in {"preview", "commit"}
  /\ LET q == asking[c].request
         f == ThemeFrame(q.theme, q.op = "preview")
     IN \/ /\ q.op = "commit" /\ CommitTheme(q.experience, q.theme)
           /\ BroadcastFrame(f) /\ Answers(c, TRUE, f)
        \/ /\ q.op = "preview" /\ UNCHANGED settingsVars
           /\ BroadcastFrame(f) /\ Answers(c, TRUE, f)
        \/ /\ UNCHANGED <<settingsVars, frames>> /\ Answers(c, FALSE, f)
  /\ UNCHANGED <<shown, streaming, changes, overtaken>>

HandleGet(c) ==
  /\ asking[c].at = "sent" /\ asking[c].request.op \in {"getTheme", "getExperience"}
  /\ UNCHANGED frames
  /\ Answers(c, TRUE, IF asking[c].request.op = "getTheme"
                      THEN ThemeFrame(themeOf[asking[c].request.experience], FALSE)
                      ELSE ExperienceFrame(experience))
  /\ UNCHANGED <<settingsVars, shown, streaming, changes, overtaken>>

-----------------------------------------------------------------------------
\* THEME_PREVIEWED, THEME_COMMITTED, WORKSPACE_EXPERIENCE_SET.
\* (Mutant: a preview is recorded as committed.)
AppliedAlways(s, f) ==
  IF f.kind = "experience" THEN [s EXCEPT !.experience = f.experience]
  ELSE [s EXCEPT !.committed = f.theme, !.previewed = "none"]
Applied(s, f) ==
  IF f.kind = "experience" THEN [s EXCEPT !.experience = f.experience]
  ELSE IF f.previewed THEN [s EXCEPT !.previewed = f.theme]
  ELSE [s EXCEPT !.committed = f.theme, !.previewed = "none"]

\* An answer that arrives, or none within the time.
AnswerArrives(c) ==
  /\ asking[c].at = "answered" /\ asking' = [asking EXCEPT ![c] = NotAsking]
  /\ shown' = [shown EXCEPT ![c] =
       IF asking[c].ok \/ asking[c].frame.kind = "experience" THEN Applied(@, asking[c].frame) ELSE @]
  /\ UNCHANGED <<settingsVars, streaming, frames, changes, overtaken>>

AnswerLost(c) ==
  /\ asking[c] # NotAsking /\ asking' = [asking EXCEPT ![c] = NotAsking]
  /\ UNCHANGED <<settingsVars, shown, streaming, frames, changes, overtaken>>

CancelPreview(c) ==
  /\ shown' = [shown EXCEPT ![c].previewed = "none"]
  /\ UNCHANGED <<settingsVars, streaming, frames, asking, changes, overtaken>>

ReadFrame(c) ==
  /\ frames[c] # <<>> /\ frames' = [frames EXCEPT ![c] = Tail(@)]
  /\ shown' = [shown EXCEPT ![c] = Applied(@, Head(frames[c]))]
  /\ LET waits == asking[c].at = "answered"
     IN /\ asking' = IF waits /\ asking[c].ahead > 0
                     THEN [asking EXCEPT ![c].ahead = @ - 1] ELSE asking
        /\ overtaken' = IF Head(frames[c]).kind # "experience" THEN overtaken
                        ELSE IF waits /\ asking[c].ahead = 0 THEN overtaken \cup {c}
                        ELSE overtaken \ {c}
  /\ UNCHANGED <<settingsVars, streaming, changes>>

\* The stream breaks; a new one begins with the state of the settings.
StreamBreaks(c) ==
  /\ c \in streaming /\ streaming' = streaming \ {c} /\ frames' = [frames EXCEPT ![c] = <<>>]
  /\ asking' = IF asking[c].at = "answered" THEN [asking EXCEPT ![c].ahead = 0] ELSE asking
  /\ UNCHANGED <<settingsVars, shown, changes, overtaken>>

StreamOpens(c) ==
  /\ c \notin streaming /\ streaming' = streaming \cup {c}
  /\ frames' = [frames EXCEPT ![c] =
                  <<ExperienceFrame(experience), ThemeFrame(themeOf[experience], FALSE)>>]
  /\ UNCHANGED <<settingsVars, shown, asking, changes, overtaken>>

PresentationNext ==
  \E c \in Tab :
    \/ HandleSelectWorkspaceExperience(c) \/ HandleTheme(c) \/ HandleGet(c)
    \/ AnswerArrives(c) \/ AnswerLost(c) \/ CancelPreview(c) \/ ReadFrame(c)
    \/ StreamBreaks(c) \/ StreamOpens(c)
    \/ \E e \in Experience : AskSelect(c, e)
    \/ \E t \in Theme, op \in {"preview", "commit"} : AskTheme(c, op, t)
    \/ \E op \in {"getTheme", "getExperience"} : AskBootstrap(c, op)

-----------------------------------------------------------------------------
\* The file keeps the theme last committed for each experience, whatever is
\* selected in between; no tab takes a theme for committed that nobody
\* committed; and a tab that has read its stream and waits for nothing shows
\* the stored experience, unless an older answer came in after a newer frame.
SettingsAreShown ==
  /\ themeOf = promised
  /\ \A c \in Tab : shown[c].committed \in everKept
  /\ \A c \in streaming \ overtaken :
       frames[c] = <<>> /\ asking[c] = NotAsking => shown[c].experience = experience
=============================================================================
