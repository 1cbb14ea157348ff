----------------------------- MODULE WebShell -----------------------------
(***************************************************************************)
(* One tab of the web client around its data: the online status store,     *)
(* whose value follows the answers of every request; the sync button, its  *)
(* login prompt and its conflict dialog; the sync details; and the request *)
(* to sync that is kept in storage until the user has logged in.           *)
(*                                                                         *)
(* What a sync sends and saves is VocabSync's subject, how a session comes *)
(* and goes AuthSession's: here a sync is its calls and their outcomes,    *)
(* and the session a value that changes.                                   *)
(***************************************************************************)
EXTENDS Integers

CONSTANTS
  Slot,         (* the syncs that may be under way at once                 *)
  MaxRetries,   (* RETRY_CONFIG.maxRetries                                 *)
  MaxAsked      (* bound: syncs asked for without a session                *)

ASSUME SlotAssumption == Slot \cap {"check", "probe"} = {}
ASSUME MaxRetriesAssumption == MaxRetries \in Nat
ASSUME MaxAskedAssumption == MaxAsked \in Nat

VARIABLES
  reachable,   (* the server is: it answers, health checks with success    *)
  (* the online status store *)
  online,
  everOnline,  (* history: since the page was loaded                       *)
  timer,       (* the retry timer is set                                   *)
  call,        (* the request under way: health checks, probes and syncs   *)
  (* the page *)
  app,         (* "opening", "broken" or "ready": the local database       *)
  auth,        (* "loading", "guest" or "authed"                           *)
  seen,        (* <<isAuthenticated, isOnline>> the effect ran for last    *)
  syncing,     (* of the sync button on the page                           *)
  prompt,      (* its login prompt is shown                                *)
  conflict,    (* its conflict dialog is shown                             *)
  armed,       (* the 100 ms timer of the sync after the login, and whether
                  the button that set it is still on the page             *)
  sync,        (* the syncs under way                                      *)
  (* storage *)
  pending,     (* pendingSync                                              *)
  (* history *)
  asked,       (* requests for a sync made without a session               *)
  auto         (* syncs started by the timer                               *)

statusVars == <<online, everOnline, timer>>
buttonVars == <<syncing, prompt, conflict>>
pageVars == <<app, auth, seen, armed>>
historyVars == <<asked, auto>>
vars == <<reachable, statusVars, call, buttonVars, pageVars, sync, pending,
          historyVars>>

\* A health check, a call that ends in setOnline(true) whatever comes of it
\* (the retry timer's and the one of the browser's event), and the syncs'.
Caller == {"check", "probe"} \cup Slot

Owner == {"button", "gone", "details"}
NoSync == [by |-> "button", at |-> "idle", tries |-> 0]
None == <<>>    \* the effect has not run yet

TypeOK ==
  /\ reachable \in BOOLEAN
  /\ {online, everOnline, timer} \subseteq BOOLEAN
  /\ online => everOnline /\ ~timer
  /\ call \in [Caller -> {"none", "sent", "ok", "4xx", "5xx", "lost",
                          "reading 4xx", "reading 5xx"}]
  /\ app \in {"opening", "broken", "ready"}
  /\ auth \in {"loading", "guest", "authed"}
  /\ seen \in {None} \cup (BOOLEAN \X BOOLEAN)
  /\ {syncing, prompt, conflict, pending} \subseteq BOOLEAN
  /\ armed \in {"no", "here", "gone"}
  /\ sync \in [Slot -> [by : Owner, at : {"idle", "put", "get", "resolve"},
                        tries : 0 .. MaxRetries]]
  /\ \A s \in Slot : sync[s].at = "idle" => call[s] = "none"
  /\ {asked, auto} \subseteq 0 .. MaxAsked

FirstCheck == [c \in Caller |-> IF c = "check" THEN "sent" ELSE "none"]
NoSyncs == [s \in Slot |-> NoSync]

Init ==
  /\ reachable = TRUE
  /\ online = FALSE /\ everOnline = FALSE /\ timer = FALSE
  /\ call = FirstCheck
  /\ app = "opening" /\ auth = "loading" /\ seen = None
  /\ syncing = FALSE /\ prompt = FALSE /\ conflict = FALSE
  /\ armed = "no"
  /\ sync = NoSyncs
  /\ pending = FALSE
  /\ asked = 0 /\ auto = 0

-----------------------------------------------------------------------------
(* The online status store                                                 *)

\* Mutant: going offline sets no retry timer.
SetOnlineUnretried(status) ==
  /\ online' = status
  /\ everOnline' = (everOnline \/ status)
  /\ timer' = FALSE

\* Mutant: going online does not clear the retry timer.
SetOnlineUncleared(status) ==
  /\ online' = status
  /\ everOnline' = (everOnline \/ status)
  /\ timer' = IF online = status THEN timer ELSE TRUE

\* setOnline: nothing if the value is the same; scheduleRetry or clearRetry.
SetOnline(status) ==
  /\ online' = status
  /\ everOnline' = (everOnline \/ status)
  /\ timer' = IF online = status THEN timer ELSE ~status

Sent(callers) ==
  [c \in Caller |-> IF c \in callers /\ call[c] = "none" THEN "sent" ELSE call[c]]

\* Every 30 seconds, and whatever other request a page makes (the counts of
\* the sync details, the session's): one at a time is under way.
Check ==
  /\ call["check"] = "none"
  /\ call' = Sent({"check"})
  /\ UNCHANGED <<reachable, statusVars, pageVars, buttonVars, sync, pending,
                 historyVars>>

RetryTimerFires ==
  /\ timer /\ call["probe"] = "none"
  /\ timer' = FALSE
  /\ call' = Sent({"probe"})
  /\ UNCHANGED <<reachable, online, everOnline, pageVars, buttonVars, sync,
                 pending, historyVars>>

\* The network goes; the browser may notice.
NetworkGoes ==
  /\ reachable
  /\ reachable' = FALSE
  /\ UNCHANGED statusVars \/ SetOnline(FALSE)
  /\ UNCHANGED <<call, pageVars, buttonVars, sync, pending, historyVars>>

\* It comes back; if the browser notices, both of its listeners ask.
NetworkComesBack ==
  /\ ~reachable
  /\ reachable' = TRUE
  /\ call' \in {call, Sent({"check", "probe"})}
  /\ UNCHANGED <<statusVars, pageVars, buttonVars, sync, pending, historyVars>>

\* What becomes of a request: a health check and a file that is asked for are
\* answered with success, a sync of a user with an error where it has to be.
Answers(c) ==
  CASE ~reachable -> {"lost"}
    [] c = "check" -> {"ok"}
    [] auth # "authed" -> {"4xx"}
    [] OTHER -> {"ok", "4xx", "5xx"}

Answer(c) ==
  /\ call[c] = "sent"
  /\ \E a \in Answers(c) : call' = [call EXCEPT ![c] = a]
  /\ UNCHANGED <<reachable, statusVars, pageVars, buttonVars, sync, pending,
                 historyVars>>

\* request: any answer sets the client online; then its body is awaited.
ErrorAnswerArrives(c) ==
  /\ call[c] \in {"4xx", "5xx"}
  /\ SetOnline(TRUE)
  /\ call' = [call EXCEPT ![c] = IF @ = "4xx" THEN "reading 4xx"
                                ELSE "reading 5xx"]
  /\ UNCHANGED <<reachable, pageVars, buttonVars, sync, pending, historyVars>>

Failed == {"reading 4xx", "reading 5xx", "lost"}
Ended(c) == call' = [call EXCEPT ![c] = "none"]

\* Mutant: a health check that fails is ignored by the status, too.
CheckEndsQuietly ==
  /\ call["check"] \in {"ok", "lost"}
  /\ SetOnline(online \/ call["check"] = "ok")
  /\ Ended("check")
  /\ UNCHANGED <<reachable, pageVars, buttonVars, sync, pending, historyVars>>

\* The catch of request sets the client offline, whatever was thrown.
CheckEnds ==
  /\ call["check"] \in {"ok", "lost"}
  /\ SetOnline(call["check"] = "ok")
  /\ Ended("check")
  /\ UNCHANGED <<reachable, pageVars, buttonVars, sync, pending, historyVars>>

\* healthCheck throws nothing, so the registered function returns true and
\* what became of the request decides nothing: it is not modelled.
ProbeEnds ==
  /\ call["probe"] = "sent"
  /\ SetOnline(TRUE)
  /\ Ended("probe")
  /\ UNCHANGED <<reachable, pageVars, buttonVars, sync, pending, historyVars>>

-----------------------------------------------------------------------------
(* The page                                                                *)

DatabaseOpens ==
  /\ app = "opening"
  /\ app' \in {"ready", "broken"}
  /\ UNCHANGED <<reachable, statusVars, call, auth, seen, armed,
                 buttonVars, sync, pending, historyVars>>

\* The session: restored, begun, refused or ended (AuthSession).
SessionChanges ==
  /\ app = "ready"
  /\ auth' \in {"guest", "authed"} \ {auth}
  /\ auth' = "authed" => reachable
  /\ UNCHANGED <<reachable, statusVars, call, app, seen, armed,
                 buttonVars, sync, pending, historyVars>>

\* Another page, or the login page and back: a new button, whose effects run;
\* what the old one has under way goes on without it.
Navigate ==
  /\ app = "ready"
  /\ syncing' = FALSE /\ prompt' = FALSE /\ conflict' = FALSE
  /\ seen' = None
  /\ armed' = IF armed = "no" THEN "no" ELSE "gone"
  /\ sync' = [s \in Slot |-> IF sync[s].at = "idle" THEN sync[s]
                             ELSE [sync[s] EXCEPT !.by = "gone"]]
  /\ UNCHANGED <<reachable, statusVars, call, app, auth, pending, historyVars>>

\* The page is loaded again, also by the prompt's link to the login page.
Reload ==
  /\ online' = FALSE /\ everOnline' = FALSE /\ timer' = FALSE
  /\ call' = FirstCheck
  /\ app' = "opening" /\ auth' = "loading" /\ seen' = None
  /\ syncing' = FALSE /\ prompt' = FALSE /\ conflict' = FALSE
  /\ armed' = "no"
  /\ sync' = NoSyncs
  /\ UNCHANGED <<reachable, pending, historyVars>>

\* Mutant: the effect depends on isAuthenticated only.
ChangedSession == IF seen = None THEN TRUE ELSE seen[1] # (auth = "authed")

Changed == seen # <<auth = "authed", online>>

\* Mutant: the flag is not removed.
ConsumeOnly == pending' = pending

Consume == pending' = FALSE

\* The effect of [isAuthenticated, isOnline]: consumePendingSyncIfReady.
EffectRuns ==
  /\ app = "ready" /\ Changed
  /\ seen' = <<auth = "authed", online>>
  /\ IF auth = "authed" /\ online /\ pending /\ armed = "no"
     THEN Consume /\ armed' = "here"
     ELSE UNCHANGED <<pending, armed>>
  /\ UNCHANGED <<reachable, statusVars, call, app, auth,
                 buttonVars, sync, historyVars>>

-----------------------------------------------------------------------------
(* Syncs                                                                   *)

Begin(s, by, at) ==
  /\ sync[s].at = "idle"
  /\ sync' = [sync EXCEPT ![s] = [by |-> by, at |-> at, tries |-> 0]]
  /\ call' = Sent({s})

\* The buttons of a page: what is shown has been rendered, and React has run
\* the effects of a rendering before it handles a click on it.
Rendered == app = "ready" /\ ~Changed

NoModal == ~prompt /\ ~conflict

ClickSync(s) ==
  /\ Rendered /\ NoModal
  /\ ~syncing /\ online /\ auth = "authed"
  /\ Begin(s, "button", "put")
  /\ syncing' = TRUE
  /\ UNCHANGED <<reachable, statusVars, pageVars, prompt, conflict, pending,
                 historyVars>>

ClickSyncAsGuest ==
  /\ Rendered /\ NoModal
  /\ ~syncing /\ online /\ auth # "authed"
  /\ asked < MaxAsked
  /\ pending' = TRUE
  /\ prompt' = TRUE
  /\ asked' = asked + 1
  /\ UNCHANGED <<reachable, statusVars, call, pageVars, syncing, conflict, sync,
                 auto>>

CancelPrompt ==
  /\ prompt
  /\ prompt' = FALSE
  /\ pending' = FALSE
  /\ UNCHANGED <<reachable, statusVars, call, pageVars, syncing, conflict, sync,
                 historyVars>>

\* handleSync of 100 ms ago, when there was a session and the client online.
ArmedSync(s) ==
  /\ armed # "no"
  /\ Begin(s, IF armed = "here" THEN "button" ELSE "gone", "put")
  /\ syncing' = (syncing \/ armed = "here")
  /\ armed' = "no"
  /\ auto' = auto + 1
  /\ UNCHANGED <<reachable, statusVars, app, auth, seen,
                 prompt, conflict, pending, asked>>

ClickResolve(s) ==
  /\ Rendered
  /\ conflict /\ ~syncing /\ online
  /\ Begin(s, "button", "resolve")
  /\ syncing' = TRUE
  /\ UNCHANGED <<reachable, statusVars, pageVars, prompt, conflict, pending,
                 historyVars>>

\* Cancel, or the dialog's cross: that one also while it is resolving.
CloseConflict ==
  /\ conflict
  /\ conflict' = FALSE
  /\ UNCHANGED <<reachable, statusVars, call, pageVars, syncing, prompt, sync,
                 pending, historyVars>>

\* The button of the sync details, with a flag of its own.  status.online is
\* from when they were opened: it may be either value.
ClickSyncNow(s) ==
  /\ Rendered /\ NoModal /\ auth = "authed"
  /\ \A t \in Slot : sync[t].by # "details"
  /\ Begin(s, "details", "put")
  /\ UNCHANGED <<reachable, statusVars, pageVars, buttonVars, pending,
                 historyVars>>

\* The end of a handler, found or not found: its flag in the finally.
Finish(s, found) ==
  /\ sync' = [sync EXCEPT ![s] = NoSync]
  /\ IF sync[s].by = "button"
     THEN /\ syncing' = FALSE
          /\ conflict' = (found \/ (conflict /\ ~(sync[s].at = "resolve"
                                                  /\ call[s] = "ok")))
     ELSE UNCHANGED <<syncing, conflict>>

SyncUnchanged == UNCHANGED <<reachable, app, auth, seen, armed, prompt, pending,
                             historyVars>>

SyncSucceeds(s) ==
  /\ call[s] = "ok"
  /\ SetOnline(TRUE)
  /\ Ended(s)
  /\ Finish(s, sync[s].at = "get")
  /\ SyncUnchanged

\* 409: the server's file is fetched for the dialog.
ConflictFound(s) ==
  /\ sync[s].at = "put" /\ call[s] = "reading 4xx"
  /\ SetOnline(FALSE)
  /\ call' = [call EXCEPT ![s] = "sent"]
  /\ sync' = [sync EXCEPT ![s].at = "get"]
  /\ SyncUnchanged
  /\ UNCHANGED <<syncing, conflict>>

Retriable(s) ==
  /\ sync[s].at # "get"
  /\ call[s] \in {"reading 5xx", "lost"}
  /\ sync[s].tries < MaxRetries

\* The attempt failed; sleep.
SyncBacksOff(s) ==
  /\ Retriable(s)
  /\ SetOnline(FALSE)
  /\ Ended(s)
  /\ sync' = [sync EXCEPT ![s].tries = @ + 1]
  /\ SyncUnchanged
  /\ UNCHANGED <<syncing, conflict>>

SyncRetries(s) ==
  /\ sync[s].at # "idle" /\ call[s] = "none"
  /\ call' = Sent({s})
  /\ SyncUnchanged
  /\ UNCHANGED <<statusVars, syncing, conflict, sync>>

\* Mutant: the flag of the handler is reset on success only.
SyncFailsUnfinished(s) ==
  /\ call[s] \in Failed /\ ~Retriable(s)
  /\ SetOnline(FALSE)
  /\ Ended(s)
  /\ sync' = [sync EXCEPT ![s] = NoSync]
  /\ SyncUnchanged
  /\ UNCHANGED <<syncing, conflict>>

SyncFails(s) ==
  /\ call[s] \in Failed /\ ~Retriable(s)
  /\ SetOnline(FALSE)
  /\ Ended(s)
  /\ Finish(s, FALSE)
  /\ SyncUnchanged

-----------------------------------------------------------------------------

Status ==
  \/ Check \/ RetryTimerFires
  \/ NetworkGoes \/ NetworkComesBack
  \/ \E c \in {"check"} \cup Slot : Answer(c)
  \/ \E s \in Slot : ErrorAnswerArrives(s)
  \/ CheckEnds \/ ProbeEnds

Page ==
  \/ DatabaseOpens \/ SessionChanges \/ Navigate \/ Reload \/ EffectRuns
  \/ ClickSyncAsGuest \/ CancelPrompt \/ CloseConflict

Syncs(s) ==
  \/ ClickSync(s) \/ ArmedSync(s) \/ ClickResolve(s) \/ ClickSyncNow(s)
  \/ SyncSucceeds(s) \/ ConflictFound(s) \/ SyncBacksOff(s)
  \/ SyncRetries(s) \/ SyncFails(s)

Next == Status \/ Page \/ \E s \in Slot : Syncs(s)

\* Every request ends, timers fire and effects run, however often the page is
\* rendered in between; the user and the network are never forced.
Fairness ==
  /\ WF_vars(Check) /\ WF_vars(RetryTimerFires)
  /\ \A c \in {"check"} \cup Slot : WF_vars(Answer(c))
  /\ \A s \in Slot : WF_vars(ErrorAnswerArrives(s))
  /\ WF_vars(CheckEnds) /\ WF_vars(ProbeEnds)
  /\ SF_vars(EffectRuns)
  /\ SF_vars(\E s \in Slot : ArmedSync(s))   \* it need not wait for a slot
  /\ \A s \in Slot :
       WF_vars(SyncSucceeds(s) \/ ConflictFound(s) \/ SyncBacksOff(s)
               \/ SyncRetries(s) \/ SyncFails(s))

Spec == Init /\ [][Next]_vars /\ Fairness

-----------------------------------------------------------------------------
(* Properties                                                              *)

\* A client that has been online and is not any more is never left alone: the
\* retry timer is set or its probe under way (setOnline, scheduleRetry).
OfflineIsRetried == everOnline /\ ~online => timer \/ call["probe"] # "none"

\* However often the button is mounted again, the session or the network come
\* and go, a sync that was asked for without a session is started at most once
\* (consumePendingSyncIfReady and the effect of SyncButton).
OneSyncPerRequest ==
  auto + (IF armed = "no" THEN 0 ELSE 1) + (IF pending THEN 1 ELSE 0) <= asked

\* The user comes to stay on a page.
PageStays == <>[][~Reload /\ ~Navigate]_vars

\* The button always becomes usable again, whatever becomes of the calls of
\* its syncs (the finally of handleSync and handleResolveConflict).
SyncingEnds == []<>~syncing

\* A server that stays reachable is noticed, and so is one that stays away,
\* though a failed probe sets the client online (setOnline, App's interval).
StatusFollowsServer ==
  PageStays =>
    /\ <>[]reachable => []<>online
    /\ <>[]~reachable => []<>~online

\* A sync that was asked for before the login is started once there is a
\* session and a server, unless its prompt is cancelled or the page reloaded
\* in the 100 ms between (SyncButton's effect).
PendingIsServed ==
  PageStays /\ <>[](app = "ready" /\ auth = "authed" /\ reachable)
    => <>[](~pending /\ armed = "no")
=============================================================================
