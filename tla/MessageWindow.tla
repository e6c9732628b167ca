--------------------------- MODULE MessageWindow ---------------------------
(***************************************************************************)
(* The hidden window of the program (src/app/message/MessageWindow): a      *)
(* WindowController whose windowProc() attaches the tray icon on WM_CREATE, *)
(* detaches it on WM_DESTROY and adds it again when the taskbar is created  *)
(* anew.  Each step is a step of WindowController, of which it fixes the    *)
(* parts windowProc() decides.                                             *)
(***************************************************************************)
EXTENDS WindowController

VARIABLES
  trayHwnd, trayThat, icons, menu,  \* the tray icon, see module TrayIcon
  taskbarCreated,             \* windows with TaskbarCreated in their queue
  refused                     \* history: windows whose icon the shell refused to add again

INSTANCE TrayIcon WITH Hwnds <- Thread, NoHwnd <- NoThread

messageVars == <<trayHwnd, trayThat, icons, menu, taskbarCreated, refused>>
allVars == <<vars, messageVars>>

MessageInit ==
  /\ WindowInit
  /\ TrayInit
  /\ taskbarCreated = {} /\ refused = {}

\* The explorer restarts: the shell's icons are gone, and every window that
\* exists gets TaskbarCreated in its queue.
ExplorerRestarts ==
  /\ "explorer" \in Faults
  /\ icons' = {}
  /\ taskbarCreated' = windows
  /\ UNCHANGED <<vars, trayHwnd, trayThat, menu, refused>>

-----------------------------------------------------------------------------
(* windowProc()                                                            *)

WM_CREATE(t) ==
  \E hr \in {"S_OK", "E_FAIL", "E_UNEXPECTED"} :
    /\ at[t] = "registered"
    /\ Attach(t, FALSE, hr)
    /\ CreateWindow(t, hr = "S_OK")
    /\ UNCHANGED <<menu, taskbarCreated, refused>>

\* CreateWindowExW destroys a window whose WM_CREATE returned -1: it gets
\* WM_DESTROY, too, before the worker reports the failure.
WM_DESTROY_AfterCreate(t) ==
  /\ at[t] = "failed"
  /\ trayHwnd = t
  /\ \E hr \in {"S_OK", "E_FAIL"} : Detach(t, hr)
  /\ NotifyFailure(t)
  /\ UNCHANGED <<menu, taskbarCreated, refused>>

\* WM_CLOSE calls DestroyWindow, which sends WM_DESTROY.
WM_CLOSE(t) ==
  \E hr \in {"S_OK", "E_FAIL"} :
    /\ at[t] = "pump"
    /\ Detach(t, hr)
    /\ CloseWindow(t, hr)
    /\ taskbarCreated' = taskbarCreated \ {t}
    /\ UNCHANGED <<menu, refused>>

WM_TaskbarCreated_Quits(t) ==
  /\ at[t] = "pump"
  /\ worker[t] = "running"
  /\ t \in taskbarCreated
  /\ Attach(t, TRUE, "E_FAIL")
  /\ Goto(t, "unregister")
  /\ UNCHANGED <<menu, taskbarCreated, refused, baseVars, context, contextHwnd, hwnd, windows,
                 closing, registered, loopHr>>

WM_TaskbarCreated(t) ==
  /\ at[t] = "pump"
  /\ worker[t] = "running"
  /\ t \in taskbarCreated
  /\ taskbarCreated' = taskbarCreated \ {t}
  /\ \E hr \in {"S_OK", "E_FAIL", "E_UNEXPECTED"} :
       /\ Attach(t, TRUE, hr)
       /\ refused' = IF hr = "S_OK" THEN refused \ {t} ELSE refused \cup {t}
  /\ UNCHANGED <<vars, menu>>

\* The icon was clicked for its menu, in the message loop or in that of a menu.
WM_CONTEXTMENU(t) ==
  /\ at[t] = "pump"
  /\ worker[t] = "running"
  /\ ShowMenu(t)
  /\ UNCHANGED <<vars, trayHwnd, trayThat, icons, taskbarCreated, refused>>

\* A menu ends with a choice, with any other click, and with its window.
MenuEnds(t) ==
  /\ CloseMenu(t)
  /\ UNCHANGED <<vars, trayHwnd, trayThat, icons, taskbarCreated, refused>>

\* The steps of WindowWorker in which no message of the window is handled;
\* CreateWindowExW may fail before it sends WM_CREATE.
MessageWorker(t) ==
  \/ /\ \/ RegisterClass(t)
        \/ "worker" \in Faults /\ CreateWindow(t, FALSE)
        \/ trayHwnd # t /\ NotifyFailure(t)
        \/ NotifyWindow(t)
        \/ menu.owner # t /\ (GetMessageFails(t) \/ UnregisterClass(t))
     /\ UNCHANGED messageVars
  \/ /\ EndThread(t)
     /\ HooksEnd
     /\ UNCHANGED <<trayHwnd, trayThat, icons, taskbarCreated, refused>>

MessageProc(t) == \/ WM_CREATE(t)
                  \/ WM_DESTROY_AfterCreate(t)
                  \/ WM_CLOSE(t)
                  \/ WM_TaskbarCreated(t)
                  \/ WM_CONTEXTMENU(t)

MessageNext ==
  \/ /\ process = "alive"
     /\ \/ /\ \/ \E c \in Callers : WindowCaller(c)
              \/ \E t \in Thread : HandlerStop(t)
              \/ Destroy /\ UNCHANGED windowVars
           /\ UNCHANGED messageVars
        \/ \E t \in Thread : MessageWorker(t) \/ MessageProc(t) \/ MenuEnds(t)
        \/ ExplorerRestarts
  \/ Terminated /\ UNCHANGED <<windowVars, messageVars>>

MessageSpec == MessageInit /\ [][MessageNext]_allVars

\* The threads run, and the message queue of a window is served in order: a
\* message in it is handled even if other handlers keep running in between.
\* A menu ends when its window is destroyed, if the user does not end it before.
MessageFairSpec ==
  /\ MessageSpec
  /\ \A c \in Callers :
       WF_allVars(/\ process = "alive"
                  /\ WindowStartContinues(c) \/ WindowStopContinues(c)
                  /\ UNCHANGED messageVars)
  /\ \A t \in Thread :
       /\ WF_allVars(process = "alive" /\ MessageWorker(t))
       /\ WF_allVars(process = "alive" /\ WorkerStopRejected(t) /\ UNCHANGED <<windowVars, messageVars>>)
       /\ SF_allVars(process = "alive" /\ MessageProc(t) /\ UNCHANGED menu)
       /\ WF_allVars(process = "alive" /\ at[t] # "pump" /\ MenuEnds(t))

-----------------------------------------------------------------------------
(* Properties.                                                             *)

\* The tray icon's variables hold values the code's types allow.
MessageTypeOK == /\ WindowTypeOK
                 /\ TrayTypeOK
                 /\ taskbarCreated \in SUBSET Thread

\* The hidden window is a WindowController, and through it a controller of the
\* base class: its message handlers stay within what is left to windowProc().
ImplementsWindowController == WindowSpec /\ ImplementsBase

\* No icon is left in the notification area that the program does not know to
\* be attached, whichever call of the shell failed: detach() can still delete it.
IconIsAttached == icons \subseteq {trayHwnd}

\* The icon is attached for the window that exists, or for one it outlived,
\* never for a window that was refused while another one is shown.
IconOnLiveWindow == \A t \in windows : trayHwnd \in {NoThread, t}

\* An icon the shell lost in a restart is shown again once the window's thread
\* has handled TaskbarCreated, unless the shell refused it: an icon is not
\* believed to be attached while it is missing.
IconShownAgain ==
  \A t \in windows : at[t] = "pump" /\ trayHwnd = t =>
    t \in icons \cup taskbarCreated \cup refused

\* No message filter outlives the menu it was installed for, even if showMenu()
\* was entered again or the window closed while the menu was shown; hooks the
\* system refused to remove excepted.
MenuHookRemoved ==
  menu.hooks \subseteq menu.refused \cup (IF menu.owner = NoThread THEN {} ELSE {menu.frame})

\* The program never loses track of its icon nor of the hook of its menu.
IconInv == IconIsAttached /\ IconOnLiveWindow /\ IconShownAgain /\ MenuHookRemoved

\* A window thread that was started can be stopped, the window class goes with
\* it, and no stop() gives up early.
WindowInv == /\ MessageTypeOK /\ ContextAlive /\ ClassReleased
             /\ StartedIsStoppable /\ AbandonsOnlyAfterLimit

=============================================================================
