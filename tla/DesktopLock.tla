----------------------------- MODULE DesktopLock -----------------------------
(***************************************************************************)
(* The desktop page around the vault store: what locks it when its window   *)
(* is left, when the lock key is pressed or when the system session locks;  *)
(* the copy of the items that the native side keeps for the quick-search    *)
(* window; and the clipboard.  The page is one thread whose handlers give   *)
(* way at every await; the native side runs plain commands in the order of  *)
(* their calls, asynchronous commands and global keys on threads of their   *)
(* own.  What a session keeps in memory is in VaultSession.                 *)
(***************************************************************************)
EXTENDS Naturals, Sequences, FiniteSets

CONSTANTS
  Secret,  \* values that are copied
  Other,   \* anything else the clipboard holds
  MaxLockings, MaxCalls, MaxOpening \* bounds on what is under way

ASSUME DesktopLockAssumption ==
  /\ Other \notin Secret
  /\ MaxLockings \in Nat /\ MaxCalls \in Nat \ {0} /\ MaxOpening \in Nat

VARIABLES
  unlocked,   \* vaultStore.unlocked
  items,      \* the store has decrypted items in memory
  unlocking,  \* "no", "deriving" the key or "loading" the first vault
  window,     \* the main window: "front", "behind" others or "hidden"
  timer,      \* autoLockTimer is set
  lockings,   \* calls of lockApp that wait for the store
  lockKey,    \* pending_actions holds the lock key
  calls,      \* plain commands of the page on their way, in order
  show,       \* payload of a show_quick_search_window that waits for a thread
  opening,    \* threads that have seen a payload and will show the window
  cache,      \* QuickSearchWindowState.payload
  quick,      \* what the quick-search window shows
  reload,     \* the quick-search window is about to read the payload
  clip,       \* the clipboard
  cleanup,    \* the value of clipboardCleanupTimer
  copying,    \* the value of copyValue between writing and scheduling
  clearing,   \* the values of clearClipboardIfUnchanged that were read
  request,    \* a copy event from the quick-search window
  unwatched,  \* auxiliary: the vault is unlocked, the window left, no timer set
  overtaken,  \* auxiliary: a show command was carried out after a lock
  kept        \* auxiliary: nothing clears the clipboard: that was refused or dropped

store == <<unlocked, items, unlocking>>
locks == <<window, timer, lockings, lockKey, unwatched>>
native == <<show, opening, cache, quick, reload, overtaken>>
board == <<clip, cleanup, copying, clearing, request, kept>>
desktop == <<store, locks, calls, native, board>>

Payloads == {"empty", "items"}
Front == window = "front"

DesktopInit ==
  /\ unlocked = FALSE /\ items = FALSE /\ unlocking = "no"
  /\ window = "front" /\ timer = FALSE /\ lockings = 0 /\ lockKey = FALSE
  /\ unwatched = FALSE
  /\ calls = <<"clear">>
  /\ show = "none" /\ opening = 0 /\ cache = "none"
  /\ quick = "closed" /\ reload = FALSE /\ overtaken = FALSE
  /\ clip = Other /\ cleanup = Other /\ copying = Other /\ clearing = {}
  /\ request = Other /\ kept = FALSE

(* visibleItems of the store, as the quick search gets it                   *)
Shown(has) == IF has THEN "items" ELSE "empty"

(* refreshDesktopQuickSearchPayload, after any of what it watches changed   *)
Refresh(open, has) ==
  calls' = Append(calls, IF open THEN Shown(has) ELSE "clear")
Room == Len(calls) < MaxCalls

-----------------------------------------------------------------------------
(* Unlocking                                                                *)
UnlockApp ==
  /\ Front /\ ~unlocked /\ unlocking = "no"
  /\ unlocking' = "deriving"
  /\ UNCHANGED <<unlocked, items, locks, calls, native, board>>

(* unlockActiveUser: the vault is open before its items are read, and the   *)
(* window may have been left since.                                         *)
Opened ==
  /\ unlocking = "deriving" /\ Room
  /\ unlocking' = "loading" /\ unlocked' = TRUE
  /\ Refresh(TRUE, items)
  /\ unwatched' = (~Front /\ ~timer)
  /\ UNCHANGED <<items, window, timer, lockings, lockKey, native, board>>

(* The items are decrypted only while the session is open.                  *)
Loaded ==
  /\ unlocking = "loading" /\ Room
  /\ unlocking' = "no" /\ items' = unlocked
  /\ Refresh(unlocked, unlocked)
  /\ UNCHANGED <<unlocked, locks, native, board>>

(* An item is saved or synchronised: the quick search gets the new items.   *)
Changed ==
  /\ unlocked /\ items /\ Room /\ calls = <<>>
  /\ Refresh(TRUE, items)
  /\ UNCHANGED <<store, locks, native, board>>

-----------------------------------------------------------------------------
(* What locks it                                                            *)
(* scheduleAutoLock, on the blur of the window and when it is hidden        *)
Schedule == timer' = unlocked /\ unwatched' = FALSE

(* cancelAutoLock; the auxiliary notes a vault that is left open by it.     *)
Cancel(front) == timer' = FALSE /\ unwatched' = (unlocked /\ ~front)

(* Seeded mistake: the page listens to visibilitychange only.               *)
Bug_OnlyHidden ==
  /\ window # "hidden"
  /\ \E w \in {"behind", "hidden"} \ {window} :
       window' = w /\ IF w = "hidden" THEN Schedule ELSE UNCHANGED <<timer, unwatched>>
  /\ UNCHANGED <<store, lockings, lockKey, calls, native, board>>

Left ==
  /\ window # "hidden"
  /\ \E w \in {"behind", "hidden"} \ {window} : window' = w
  /\ Schedule
  /\ UNCHANGED <<store, lockings, lockKey, calls, native, board>>

(* The window is focused, or it is only seen again: visibilitychange.       *)
Uncovered ==
  /\ window # "front"
  /\ \E w \in {"front", "behind"} \ {window} : window' = w /\ Cancel(w = "front")
  /\ UNCHANGED <<store, lockings, lockKey, calls, native, board>>

(* lockApp is called: by the button, the keys of the page, or as below.     *)
StartLock == lockings < MaxLockings /\ lockings' = lockings + 1

LockHere ==
  /\ Front /\ StartLock
  /\ UNCHANGED <<store, window, timer, lockKey, unwatched, calls, native, board>>

AutoLock ==
  /\ timer /\ timer' = FALSE
  /\ IF unlocked THEN StartLock ELSE UNCHANGED lockings
  /\ UNCHANGED <<store, window, lockKey, unwatched, calls, native, board>>

(* handleSystemSessionLock cancels the timer before it looks at the setting.*)
SystemLock ==
  /\ Cancel(Front)
  /\ \E lockOnSystemLock \in BOOLEAN :
       IF unlocked /\ lockOnSystemLock THEN StartLock ELSE UNCHANGED lockings
  /\ UNCHANGED <<store, window, lockKey, calls, native, board>>

(* The lock key is queued by the native side and fetched by the page.       *)
PressLockKey ==
  /\ lockKey' = TRUE
  /\ UNCHANGED <<store, window, timer, lockings, unwatched, calls, native, board>>

Poll ==
  /\ lockKey /\ lockKey' = FALSE /\ StartLock
  /\ UNCHANGED <<store, window, timer, unwatched, calls, native, board>>

(* replace_global_shortcuts, when the user changes a shortcut               *)
ReplaceShortcuts ==
  /\ Front /\ lockKey /\ lockKey' = FALSE
  /\ UNCHANGED <<store, window, timer, lockings, unwatched, calls, native, board>>

-----------------------------------------------------------------------------
(* The clipboard                                                            *)

(* A window that is not in front may be refused access to the clipboard.    *)
Refused == IF Front THEN {FALSE} ELSE BOOLEAN

(* copyValue writes, and schedules only if that worked.                     *)
Write(s) ==
  \E refused \in Refused :
    IF refused
    THEN /\ kept' = (kept \/ clip = s)
         /\ UNCHANGED <<clip, copying>>
    ELSE clip' = s /\ copying' = s /\ kept' = FALSE

CopyHere(s) ==
  /\ Front /\ unlocked /\ items /\ copying = Other
  /\ Write(s)
  /\ UNCHANGED <<store, locks, calls, native, cleanup, clearing, request>>

(* scheduleClipboardCleanup: one timer, for the last value                  *)
ScheduleCleanup ==
  /\ copying # Other /\ cleanup' = copying /\ copying' = Other
  /\ UNCHANGED <<store, locks, calls, native, clip, clearing, request, kept>>

(* clearClipboardIfUnchanged reads the clipboard and, after that, empties it.*)
ReadClipboard(s) ==
  \E refused \in Refused :
    /\ clearing' = IF clip = s /\ ~refused THEN clearing \cup {s} ELSE clearing
    /\ kept' = (kept \/ (clip = s /\ refused))

CleanupDue ==
  /\ cleanup # Other /\ cleanup' = Other /\ ReadClipboard(cleanup)
  /\ UNCHANGED <<store, locks, calls, native, clip, copying, request>>

Empty(s) ==
  /\ s \in clearing /\ clearing' = clearing \ {s}
  /\ \E refused \in Refused :
       /\ clip' = IF refused THEN clip ELSE Other
       /\ kept' = IF refused THEN kept \/ clip = s ELSE FALSE
  /\ UNCHANGED <<store, locks, calls, native, cleanup, copying, request>>

(* Seeded mistake: locking stops the timer and forgets the value.           *)
Bug_DropsTimer == cleanup' = Other /\ UNCHANGED <<clearing, kept>>

(* clearPendingClipboard of lockApp                                         *)
ClearPending ==
  /\ cleanup' = Other
  /\ IF cleanup # Other THEN ReadClipboard(cleanup) ELSE UNCHANGED <<clearing, kept>>

(* lockApp goes on: the store is locked, then the page forgets.             *)
EndLock ==
  /\ lockings > 0 /\ Room /\ lockings' = lockings - 1
  /\ unlocked' = FALSE /\ items' = FALSE
  /\ ClearPending /\ Refresh(FALSE, FALSE)
  /\ unwatched' = FALSE
  /\ UNCHANGED <<unlocking, window, timer, lockKey,
                 native, clip, copying, request>>

-----------------------------------------------------------------------------
(* The native side and the quick-search window                              *)
Closed == quick' = "closed" /\ reload' = FALSE

(* Seeded mistake: clearing the payload leaves the window open.             *)
Bug_LeavesWindow ==
  /\ calls # <<>> /\ calls' = Tail(calls)
  /\ cache' = IF Head(calls) = "clear" THEN "none" ELSE Head(calls)
  /\ overtaken' = (overtaken /\ Head(calls) # "clear")
  /\ UNCHANGED <<store, locks, show, opening, quick, reload, board>>

(* set_quick_search_payload and clear_quick_search_payload                  *)
Deliver ==
  /\ calls # <<>> /\ calls' = Tail(calls)
  /\ IF Head(calls) = "clear"
     THEN cache' = "none" /\ Closed /\ overtaken' = FALSE
     ELSE cache' = Head(calls) /\ UNCHANGED <<quick, reload, overtaken>>
  /\ UNCHANGED <<store, locks, show, opening, board>>

(* openQuickSearch may have waited for items; it does not look again        *)
(* whether the vault is unlocked.                                           *)
OpenQuickSearch ==
  /\ show = "none" /\ show' = Shown(items)
  /\ UNCHANGED <<store, locks, calls, opening, cache, quick, reload, overtaken, board>>

(* show_quick_search_window runs on a thread of its own.                    *)
RunShow ==
  /\ show # "none" /\ opening < MaxOpening
  /\ cache' = show /\ show' = "none" /\ opening' = opening + 1
  /\ overtaken' = (overtaken \/ (show = "items" /\ ~unlocked))
  /\ UNCHANGED <<store, locks, calls, quick, reload, board>>

(* The key looks for a payload, and without one shows the main window.      *)
PressQuickSearch ==
  /\ cache # "none" /\ opening < MaxOpening /\ opening' = opening + 1
  /\ UNCHANGED <<store, locks, calls, show, cache, quick, reload, overtaken, board>>

(* show_cached_quick_search_window, after it has seen a payload             *)
ShowWindow ==
  /\ opening > 0 /\ opening' = opening - 1
  /\ quick' = IF quick = "closed" THEN "blank" ELSE quick
  /\ reload' = TRUE
  /\ UNCHANGED <<store, locks, calls, show, cache, overtaken, board>>

(* reloadPayload of the quick-search window                                 *)
Reload ==
  /\ reload
  /\ IF cache = "none" THEN Closed ELSE quick' = cache /\ reload' = FALSE
  /\ UNCHANGED <<store, locks, calls, show, opening, cache, overtaken, board>>

(* The window closes when it loses the focus.                               *)
CloseQuickSearch ==
  /\ quick # "closed" /\ Closed
  /\ UNCHANGED <<store, locks, calls, show, opening, cache, overtaken, board>>

(* copyAndClose: the window writes, tells the main page and closes.         *)
CopyAndClose(s) ==
  /\ quick = "items" /\ request = Other
  /\ clip' = s /\ kept' = FALSE /\ request' = s
  /\ Closed
  /\ UNCHANGED <<store, locks, calls, show, opening, cache, overtaken,
                 cleanup, copying, clearing>>

(* handleDesktopQuickSearchCopy does nothing if the vault is locked by now. *)
HandleCopy ==
  /\ request # Other /\ copying = Other /\ request' = Other
  /\ IF unlocked
     THEN Write(request)
     ELSE /\ kept' = (kept \/ clip = request)
          /\ UNCHANGED <<clip, copying>>
  /\ UNCHANGED <<store, locks, calls, native, cleanup, clearing>>

-----------------------------------------------------------------------------
DesktopNext ==
  \/ UnlockApp \/ Opened \/ Loaded \/ Changed
  \/ Left \/ Uncovered \/ LockHere \/ AutoLock \/ SystemLock
  \/ PressLockKey \/ Poll \/ ReplaceShortcuts \/ EndLock
  \/ \E s \in Secret : CopyHere(s) \/ Empty(s) \/ CopyAndClose(s)
  \/ ScheduleCleanup \/ CleanupDue \/ HandleCopy
  \/ Deliver \/ OpenQuickSearch \/ RunShow \/ PressQuickSearch
  \/ ShowWindow \/ Reload \/ CloseQuickSearch

DesktopSpec == DesktopInit /\ [][DesktopNext]_desktop

-----------------------------------------------------------------------------
TypeOK ==
  /\ unlocked \in BOOLEAN /\ items \in BOOLEAN /\ unlocking \in {"no", "deriving", "loading"}
  /\ window \in {"front", "behind", "hidden"}
  /\ timer \in BOOLEAN /\ lockKey \in BOOLEAN /\ lockings \in 0..MaxLockings
  /\ calls \in Seq(Payloads \cup {"clear"}) /\ Len(calls) <= MaxCalls
  /\ show \in Payloads \cup {"none"} /\ cache \in Payloads \cup {"none"}
  /\ opening \in 0..MaxOpening
  /\ quick \in Payloads \cup {"closed", "blank"} /\ reload \in BOOLEAN
  /\ {clip, cleanup, copying, request} \subseteq Secret \cup {Other}
  /\ clearing \subseteq Secret
  /\ {unwatched, overtaken, kept} \subseteq BOOLEAN

(* While the vault is locked and the page's calls have been carried out,    *)
(* neither the native side nor the quick-search window holds its items,     *)
(* unless a command to show them was carried out after the lock.            *)
LockedForgets ==
  ~unlocked /\ calls = <<>> /\ ~overtaken => cache # "items" /\ quick # "items"

(* A vault that stays open behind other windows is waited for by the timer  *)
(* or is being locked, unless the timer was cancelled when the window could *)
(* be seen again or the system session was locked, or the window had been   *)
(* left before the vault was open.                                          *)
LeftIsWatched == unlocked /\ ~Front /\ ~unwatched => timer \/ lockings > 0

(* A copied value in the clipboard is one that some timer, lock or message  *)
(* still takes away, unless the page was refused the clipboard or the vault *)
(* was locked when the page learnt of the copy.                             *)
CopyIsWatched ==
  clip \in Secret /\ ~kept => clip \in {cleanup, copying, request} \cup clearing
=============================================================================
