--------------------------- MODULE SettingsWindow ---------------------------
(***************************************************************************)
(* The navigation of the settings window (src/winui3/Views/SettingsWindow): *)
(* a Frame with its history and a NavigationView whose selected item the    *)
(* window keeps at the Frame's page.  Selecting an item navigates, and      *)
(* navigating selects the item, which raises SelectionChanged again.        *)
(***************************************************************************)
EXTENDS Naturals, Sequences, SequencesExt

CONSTANT MaxHistory  \* bound: pages one can go back to

VARIABLE settings  \* the window, see Closed

PageTypes == {"RuleEditorPage", "LogsPage"}
NoPageType == ""

\* current: the page type of RootFrame, back and forward: its history, selected:
\* the tag of the NavigationView's item.
Closed == [current |-> NoPageType, back |-> <<>>, forward |-> <<>>, selected |-> NoPageType]

SettingsInit == settings = Closed

-----------------------------------------------------------------------------
(* Frame                                                                   *)

Navigate(f, type) ==
  [f EXCEPT !.current = type, !.forward = <<>>,
            !.back = IF f.current = NoPageType THEN @ ELSE Append(@, f.current)]

GoBack(f) ==
  [f EXCEPT !.current = Last(f.back), !.back = Front(@), !.forward = <<f.current>> \o @]

GoForward(f) ==
  [f EXCEPT !.current = Head(f.forward), !.forward = Tail(@), !.back = Append(@, f.current)]

-----------------------------------------------------------------------------
(* SettingsWindow                                                          *)

NavigateTo_Again(f, type) == Navigate(f, type)

\* navigateTo(): not to the page that is shown.
NavigateTo(f, type) == IF f.current = type THEN f ELSE Navigate(f, type)

\* RootFrameNavigated() selects the item of the page; if that changes the
\* selection, NavigationViewSelectionChanged() follows.
RootFrameNavigated(f) ==
  IF f.selected = f.current THEN f ELSE NavigateTo([f EXCEPT !.selected = f.current], f.current)

\* App::showSettingsWindow(), which makes the window if there is none.
ShowSettings == settings' = RootFrameNavigated(NavigateTo(settings, "RuleEditorPage"))

\* The user selects another item.
SelectItem(type) ==
  /\ settings.current # NoPageType
  /\ settings.selected # type
  /\ settings' = RootFrameNavigated(NavigateTo([settings EXCEPT !.selected = type], type))

\* By keyboard, by mouse or, backwards, by the button of the NavigationView.
TryGoBack ==
  /\ settings.back # <<>>
  /\ settings' = RootFrameNavigated(GoBack(settings))

TryGoForward ==
  /\ settings.forward # <<>>
  /\ settings' = RootFrameNavigated(GoForward(settings))

CloseSettings ==
  /\ settings # Closed
  /\ settings' = Closed

SettingsNext ==
  \/ Len(settings.back) < MaxHistory /\ (ShowSettings \/ \E type \in PageTypes : SelectItem(type))
  \/ TryGoBack
  \/ TryGoForward
  \/ CloseSettings

-----------------------------------------------------------------------------
(* Properties                                                              *)

History(f) == f.back \o <<f.current>> \o f.forward

\* The selected item is the page that is shown, every step back or forward
\* shows another page, and going back leaves the way forward as it was: the
\* handlers that call each other do not navigate a second time.
HistoryKept ==
  /\ []/\ settings.selected = settings.current
       /\ \A i \in 2..Len(History(settings)) : History(settings)[i] # History(settings)[i - 1]
  /\ [][TryGoBack \/ TryGoForward => History(settings') = History(settings)]_settings

=============================================================================
