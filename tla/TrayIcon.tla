------------------------------ MODULE TrayIcon ------------------------------
(***************************************************************************)
(* The notification area icon (src/app/win32/TrayIcon): attach() adds it    *)
(* for a window, detach() deletes it.  that_ is thread_local and a window   *)
(* is named by its thread, so trayThat holds the threads in which that_ is  *)
(* this icon.  The shell is external: it answers NIM_ADD, NIM_SETVERSION    *)
(* and NIM_DELETE, may refuse any of them and loses its icons on a restart. *)
(*                                                                         *)
(* showMenu() runs the modal loop of a menu inside windowProc(), with a     *)
(* message filter hook for the time the menu is shown.  The loop dispatches *)
(* the messages of the window, so showMenu() may be entered again, but then *)
(* TrackPopupMenuEx fails: one menu is shown at a time.                     *)
(***************************************************************************)
EXTENDS FiniteSets, Naturals

CONSTANTS Hwnds, NoHwnd, Faults

VARIABLES
  trayHwnd,  \* hwnd_: the window the icon is attached to, or NoHwnd
  trayThat,  \* threads in which that_ points to this icon
  icons,     \* windows whose icon the shell shows
  menu       \* the menu: [owner, frame, hhook, hooks, refused], see NoMenu

iconVars == <<trayHwnd, trayThat, icons>>
trayVars == <<trayHwnd, trayThat, icons, menu>>

NoHook == 0

\* owner: the window in whose showMenu() a menu is shown, frame: the hook on its
\* stack, hhook: hhook_, hooks: those the system has installed, refused: those
\* it did not remove when it was asked to (a history).
NoMenu == [owner |-> NoHwnd, frame |-> NoHook, hhook |-> NoHook, hooks |-> {}, refused |-> {}]

TrayInit == /\ trayHwnd = NoHwnd
            /\ trayThat = {}
            /\ icons = {}
            /\ menu = NoMenu

\* Shell_NotifyIconW: NIM_ADD needs the icon absent, NIM_DELETE present.
ShellRefuses == "shell" \in Faults
AddFails(w)    == w \in icons \/ ShellRefuses
DeleteFails(w) == w \notin icons \/ ShellRefuses

SetAttached(w) == /\ trayHwnd' = w
                  /\ trayThat' = trayThat \cup {w}

AttachCleanup_Forgets(w) ==
  \/ UNCHANGED iconVars
  \/ /\ icons' = icons \cup {w}
     /\ UNCHANGED <<trayHwnd, trayThat>>

\* After NIM_SETVERSION failed: delete the icon again, or keep it attached so
\* that detach() can delete it later.
AttachCleanup(w) ==
  \/ UNCHANGED iconVars
  \/ /\ icons' = icons \cup {w}
     /\ SetAttached(w)

\* attach(hwnd, force) on the thread of hwnd returns hr.
Attach(w, force, hr) ==
  \/ /\ trayHwnd \notin {NoHwnd, w}
     /\ hr = "E_UNEXPECTED"
     /\ UNCHANGED iconVars
  \/ /\ trayHwnd = w
     /\ ~force
     /\ hr = "S_OK"
     /\ UNCHANGED iconVars
  \/ /\ trayHwnd = NoHwnd \/ (trayHwnd = w /\ force)
     /\ \/ /\ AddFails(w)
           /\ hr = "E_FAIL"
           /\ UNCHANGED iconVars
        \/ /\ w \notin icons
           /\ hr = "S_OK"
           /\ icons' = icons \cup {w}
           /\ SetAttached(w)
        \/ /\ w \notin icons
           /\ ShellRefuses
           /\ hr = "E_FAIL"
           /\ AttachCleanup(w)

\* detach() on thread w returns hr.
Detach(w, hr) ==
  \/ /\ trayHwnd = NoHwnd
     /\ hr = "S_OK"
     /\ UNCHANGED iconVars
  \/ /\ trayHwnd # NoHwnd
     /\ w \notin trayThat
     /\ hr = "E_FAIL"
     /\ UNCHANGED iconVars
  \/ /\ trayHwnd # NoHwnd
     /\ w \in trayThat
     /\ DeleteFails(trayHwnd)
     /\ hr = "E_FAIL"
     /\ UNCHANGED iconVars
  \/ /\ trayHwnd \in icons
     /\ w \in trayThat
     /\ hr = "S_OK"
     /\ icons' = icons \ {trayHwnd}
     /\ trayHwnd' = NoHwnd
     /\ trayThat' = trayThat \ {w}

-----------------------------------------------------------------------------
(* The menu                                                                *)

\* A handle the system has not given out and the program does not remember.
NewHook(m) == CHOOSE h \in 1..3 : h \notin m.hooks \cup {m.frame, m.hhook}

UnhookRefuses(m, h) == "unhook" \in Faults /\ h \in m.hooks /\ m.refused \subseteq {h}

\* tryUnhookMessageProc(h): the cached handle is cleared if the hook was removed
\* or is invalid already, whichever hook it is.
TryUnhook(m, h) ==
  {[m EXCEPT !.hhook = NoHook, !.hooks = @ \ {h}, !.refused = @ \ {h}]}
    \cup (IF UnhookRefuses(m, h) THEN {[m EXCEPT !.refused = {h}]} ELSE {})

\* A hook that was left from an earlier menu goes first.
WithoutStale(m) == IF m.hhook = NoHook THEN {m} ELSE TryUnhook(m, m.hhook)

\* The hook is optional.
TryHook(m) == LET h == NewHook(m) IN {m, [m EXCEPT !.hhook = h, !.hooks = @ \cup {h}]}

\* What follows TrackPopupMenuEx.
Dismissed(m, h) == IF h = NoHook THEN {m} ELSE TryUnhook(m, h)

\* showMenu() up to its modal loop; SetForegroundWindow and TrackPopupMenuEx
\* may fail, the latter does while a menu is shown.
ShowMenu(w) ==
  \E m \in WithoutStale(menu) :
    \/ menu' = m
    \/ /\ m.hhook = NoHook
       /\ \E hooked \in TryHook(m) :
            \/ /\ m.owner = NoHwnd
               /\ menu' = [hooked EXCEPT !.owner = w, !.frame = hooked.hhook]
            \/ menu' \in Dismissed(hooked, hooked.hhook)

\* The modal loop ends and showMenu() returns.
CloseMenu(w) ==
  /\ menu.owner = w
  /\ \E m \in Dismissed(menu, menu.frame) :
       menu' = [m EXCEPT !.owner = NoHwnd, !.frame = NoHook]

\* The hooks of a thread go with it.
HooksEnd == menu' = [menu EXCEPT !.hooks = {}, !.refused = {}]

TrayTypeOK == /\ trayHwnd \in Hwnds \cup {NoHwnd}
              /\ trayThat \in SUBSET Hwnds
              /\ icons \in SUBSET Hwnds
              /\ menu.owner \in Hwnds \cup {NoHwnd}
              /\ {menu.frame, menu.hhook} \subseteq 0..3
              /\ menu.refused \subseteq menu.hooks

=============================================================================
