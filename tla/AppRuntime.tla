----------------------------- MODULE AppRuntime -----------------------------
(***************************************************************************)
(* The two threads of an application run by grt (grt/grt_main.cpp; the     *)
(* macro GPK_DEFINE_APPLICATION_ENTRY_POINT_MT of llc/gpk_app_impl.h has   *)
(* the same loop): the main thread updates, the render thread draws, and   *)
(* RenderThreadUsers tells each whether the other one is done.  Every      *)
(* operation on that counter is atomic (gpk_sync.h).                       *)
(*                                                                         *)
(* update processes the input of the GUI holding the LockGUI of its        *)
(* framework, draw draws the GUI holding that mutex or one of its own,     *)
(* according to the application.                                           *)
(***************************************************************************)
EXTENDS Integers

VARIABLES
    appMain,    \* where the main thread is
    appRender,  \* where the render thread is
    appUsers,   \* RenderThreadUsers
    appShares,  \* draw locks the mutex that update locks (gpk_gui_example); otherwise its own (gme, brt)
    appTimely   \* history: the render thread had counted itself when main looked for it

appVars == <<appMain, appRender, appUsers, appShares, appTimely>>

AppInit ==
    /\ appMain = "setup" /\ appRender = "none"
    /\ appUsers = 0
    /\ appShares \in BOOLEAN
    /\ appTimely = TRUE

AppMainAt(from, to) == appMain = from /\ appMain' = to

\* InterlockedCompareExchange64(target, value, comparand): appUsers is the value returned.
AppExchange(value, comparand) == appUsers' = IF appUsers = comparand THEN value ELSE appUsers

----------------------------------------------------------------------------
\* The main thread: grt_Main and grt_Loop

\* A module whose Setup fails is deleted at once.
AppSetup ==
    /\ AppMainAt("setup", "first") \/ AppMainAt("setup", "exited")
    /\ UNCHANGED <<appRender, appUsers, appShares, appTimely>>

\* The first Update comes before the render thread; without success there will be none.
AppFirstUpdate ==
    /\ AppMainAt("first", "start") \/ AppMainAt("first", "wait")
    /\ UNCHANGED <<appRender, appUsers, appShares, appTimely>>

\* "Report we're alive", then _beginthread, whose result is not looked at.
AppStart ==
    /\ AppMainAt("start", "begin")
    /\ appUsers' = appUsers + 1
    /\ UNCHANGED <<appRender, appShares, appTimely>>
AppBeginThread ==
    /\ AppMainAt("begin", "loop")
    /\ appRender' = "new" \/ UNCHANGED appRender
    /\ UNCHANGED <<appUsers, appShares, appTimely>>

\* Update: the window may end it, the GUI then processes its input, and a control may end it.
AppProcessInput ==
    /\ AppMainAt("loop", "process")
    /\ ~(appShares /\ appRender = "drawing GUI")
    /\ UNCHANGED <<appRender, appUsers, appShares, appTimely>>
AppInputProcessed ==
    /\ AppMainAt("process", "loop")
    /\ UNCHANGED <<appRender, appUsers, appShares, appTimely>>

\* "Report we're done."
BugAppKeepsCounted ==
    /\ AppMainAt("loop", "wait")
    /\ UNCHANGED <<appRender, appUsers, appShares, appTimely>>
AppLeaveLoop ==
    /\ AppMainAt("loop", "wait")
    /\ appUsers' = appUsers - 1
    /\ UNCHANGED <<appRender, appShares, appTimely>>

\* "Wait until the render thread is closed": 0 becomes -1, and the next turn finds it.
BugAppGivesUp ==
    /\ AppMainAt("wait", "cleanup") \/ AppMainAt("wait", "sleep")
    /\ AppExchange(-1, 0)
    /\ UNCHANGED <<appRender, appShares, appTimely>>
AppWait ==
    /\ IF appUsers = -1 THEN AppMainAt("wait", "cleanup") ELSE AppMainAt("wait", "sleep")
    /\ AppExchange(-1, 0)
    /\ appTimely' = (appTimely /\ ~(appUsers = 0 /\ appRender = "new"))
    /\ UNCHANGED <<appRender, appShares>>
AppSlept ==
    /\ AppMainAt("sleep", "wait")
    /\ UNCHANGED <<appRender, appUsers, appShares, appTimely>>

\* Cleanup, Delete and the return from main, which ends the process.
AppDestroy ==
    /\ AppMainAt("cleanup", "destroyed") \/ AppMainAt("destroyed", "exited")
    /\ UNCHANGED <<appRender, appUsers, appShares, appTimely>>

----------------------------------------------------------------------------
\* The render thread: threadRender

AppRenderAt(from, to) == appMain # "exited" /\ appRender = from /\ appRender' = to

AppCountRender ==
    /\ AppRenderAt("new", "test")
    /\ appUsers' = appUsers + 1
    /\ UNCHANGED <<appMain, appShares, appTimely>>

\* It draws until the counter it replaces was 1.
AppTestUsers ==
    /\ IF appUsers = 1 THEN AppRenderAt("test", "done") ELSE AppRenderAt("test", "drawing")
    /\ AppExchange(0, 1)
    /\ UNCHANGED <<appMain, appShares, appTimely>>

\* draw: the scene, the GUI under its lock, and the result handed over.
BugAppDrawsUnlocked ==
    /\ AppRenderAt("drawing", "drawing GUI")
    /\ UNCHANGED <<appMain, appUsers, appShares, appTimely>>
AppDrawGUI ==
    /\ AppRenderAt("drawing", "drawing GUI")
    /\ ~(appShares /\ appMain = "process")
    /\ UNCHANGED <<appMain, appUsers, appShares, appTimely>>
AppDrawn ==
    /\ AppRenderAt("drawing GUI", "test")
    /\ UNCHANGED <<appMain, appUsers, appShares, appTimely>>

----------------------------------------------------------------------------
\* Exiting is the application's choice; everything else goes on by itself.
AppMainStep ==
    \/ AppSetup \/ AppFirstUpdate \/ AppStart \/ AppBeginThread
    \/ AppInputProcessed \/ AppWait \/ AppSlept \/ AppDestroy
AppRenderStep == AppCountRender \/ AppTestUsers \/ AppDrawGUI \/ AppDrawn

AppNext == AppMainStep \/ AppProcessInput \/ AppLeaveLoop \/ AppRenderStep

AppSpec == AppInit /\ [][AppNext]_appVars

----------------------------------------------------------------------------
\* Properties

AppTypeOK ==
    /\ appMain \in {"setup", "first", "start", "begin", "loop", "process", "wait", "sleep",
                    "cleanup", "destroyed", "exited"}
    /\ appRender \in {"none", "new", "test", "drawing", "drawing GUI", "done"}
    /\ appUsers \in -1..2
    /\ {appShares, appTimely} \subseteq BOOLEAN

\* The application is not drawn once main cleans it up, if the render thread counted itself in
\* time; and no GUI is drawn while its input is processed, if both use one mutex.
RenderIsSafe ==
    LET drawing == appRender \in {"drawing", "drawing GUI"}
    IN  /\ appTimely => ~(drawing /\ appMain \in {"cleanup", "destroyed"})
        /\ appShares => ~(appRender = "drawing GUI" /\ appMain = "process")

\* Once the loop of main is left the process ends.
AppExits == (appMain = "wait") ~> (appMain = "exited")
=============================================================================
