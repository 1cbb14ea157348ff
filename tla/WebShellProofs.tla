--------------------------- MODULE WebShellProofs ---------------------------
(***************************************************************************)
(* Proofs about WebShell, for every number of syncs under way, retries and *)
(* requests without a session: its types, that a client that has gone      *)
(* offline is about to check again, and that a sync asked for without a    *)
(* session is started at most once.                                        *)
(*                                                                         *)
(* The types rest on the last: only as many syncs are started by the timer *)
(* as were asked for.                                                      *)
(***************************************************************************)
EXTENDS WebShell, TLAPS

Outcome == {"none", "sent", "ok", "4xx", "5xx", "lost", "reading 4xx", "reading 5xx"}
Syncing == [by : Owner, at : {"idle", "put", "get", "resolve"}, tries : 0 .. MaxRetries]

\* The parts of TypeOK that an action disturbs or leaves alone as a whole.
StatusOK ==
  /\ {online, everOnline, timer} \subseteq BOOLEAN
  /\ online => everOnline /\ ~timer

CallsOK ==
  /\ call \in [Caller -> Outcome]
  /\ sync \in [Slot -> Syncing]
  /\ \A s \in Slot : sync[s].at = "idle" => call[s] = "none"

FlagsOK == {syncing, prompt, conflict, pending} \subseteq BOOLEAN

PageOK ==
  /\ app \in {"opening", "broken", "ready"}
  /\ auth \in {"loading", "guest", "authed"}
  /\ seen \in {None} \cup (BOOLEAN \X BOOLEAN)

RequestsOK ==
  /\ armed \in {"no", "here", "gone"}
  /\ {asked, auto} \subseteq 0 .. MaxAsked

\* The inductive invariant.
ShellInv == TypeOK /\ OfflineIsRetried /\ OneSyncPerRequest

\* What is about the requests made without a session, and what about the calls.
Requests == RequestsOK /\ OneSyncPerRequest
requestVars == <<pending, armed, asked, auto>>

\* The requests that wait, counted: in the timer and in the storage.
Armed == IF armed = "no" THEN 0 ELSE 1
Kept == IF pending THEN 1 ELSE 0

LEMMA Counts ==
  /\ OneSyncPerRequest <=> auto + Armed + Kept <= asked
  /\ OneSyncPerRequest' <=> auto' + Armed' + Kept' <= asked'
  /\ Armed \in {0, 1} /\ (armed # "no" <=> Armed = 1)
  /\ Armed' \in {0, 1} /\ (armed' # "no" <=> Armed' = 1)
<1>1. OneSyncPerRequest <=> auto + Armed + Kept <= asked
  BY Zenon DEF OneSyncPerRequest, Armed, Kept
<1>2. OneSyncPerRequest' <=> auto' + Armed' + Kept' <= asked'
  BY Zenon DEF OneSyncPerRequest, Armed, Kept
<1> QED
  BY <1>1, <1>2 DEF Armed

LEMMA KeptCounts ==
  /\ Kept \in {0, 1} /\ (pending => Kept = 1) /\ (pending = FALSE => Kept = 0)
  /\ Kept' \in {0, 1} /\ (pending' = FALSE => Kept' = 0)
  /\ pending' = pending => Kept' = Kept
<1>1. pending' = pending => Kept' = Kept
  BY SMT DEF Kept
<1>2. /\ Kept \in {0, 1} /\ (pending => Kept = 1) /\ (pending = FALSE => Kept = 0)
      /\ Kept' \in {0, 1} /\ (pending' = FALSE => Kept' = 0)
  BY Zenon DEF Kept
<1> QED
  BY <1>1, <1>2, Zenon

LEMMA RequestsUnchanged ==
  ASSUME Requests, UNCHANGED requestVars
  PROVE  Requests'
BY DEF Requests, RequestsOK, OneSyncPerRequest, requestVars

Parts ==
  /\ reachable \in BOOLEAN
  /\ StatusOK /\ CallsOK /\ FlagsOK /\ PageOK /\ Requests
  /\ OfflineIsRetried

LEMMA ShellInvParts == (ShellInv <=> Parts) /\ (ShellInv <=> Parts)'
BY DEF ShellInv, TypeOK, Parts, Requests, StatusOK, CallsOK, FlagsOK, PageOK, RequestsOK,
       Outcome, Syncing

-----------------------------------------------------------------------------
(* The status                                                              *)

\* setOnline sets the timer when it takes the client offline, and leaves it when
\* the client was offline before: so the client is still about to check again
\* if it was, and the check under way has not ended.
LEMMA SetOnlineKeepsStatus ==
  ASSUME StatusOK, OfflineIsRetried, NEW status \in BOOLEAN, SetOnline(status),
         status \/ call'["probe"] = call["probe"]
  PROVE  StatusOK' /\ OfflineIsRetried'
BY DEF StatusOK, OfflineIsRetried, SetOnline

\* What has gone offline stays about to check again as long as the timer and the
\* check stay.
LEMMA StatusUnchanged ==
  ASSUME StatusOK, OfflineIsRetried, UNCHANGED statusVars,
         call["probe"] # "none" => call'["probe"] # "none"
  PROVE  StatusOK' /\ OfflineIsRetried'
BY DEF StatusOK, OfflineIsRetried, statusVars

-----------------------------------------------------------------------------
(* The calls                                                               *)

\* Sending takes nothing back.
LEMMA SentSends ==
  ASSUME CallsOK, NEW S \in SUBSET Caller
  PROVE  /\ Sent(S) \in [Caller -> Outcome]
         /\ \A c \in Caller \ S : Sent(S)[c] = call[c]
         /\ \A c \in S : Sent(S)[c] # "none"
BY DEF CallsOK, Sent, Outcome

LEMMA CheckSent ==
  ASSUME CallsOK, NEW S \in SUBSET {"check", "probe"}, call' = Sent(S), UNCHANGED sync
  PROVE  /\ CallsOK'
         /\ call["probe"] # "none" => call'["probe"] # "none"
         /\ "probe" \in S => call'["probe"] # "none"
<1>1. S \in SUBSET Caller /\ "probe" \in Caller
  BY DEF Caller
<1>2. \A s \in Slot : s \in Caller \ S
  BY SlotAssumption DEF Caller
<1> QED
  BY <1>1, <1>2, SentSends DEF CallsOK

\* A call that is under way, of a sync or not, goes on or ends.
LEMMA CallGoesOn ==
  ASSUME CallsOK, NEW c \in Caller, NEW a \in Outcome, c \in Slot => sync[c].at # "idle",
         call' = [call EXCEPT ![c] = a], UNCHANGED sync
  PROVE  /\ CallsOK'
         /\ c # "probe" => call'["probe"] = call["probe"]
BY DEF CallsOK, Caller

LEMMA SlotIsCaller == \A s \in Slot : s \in Caller /\ s \notin {"check", "probe"}
BY SlotAssumption DEF Caller

-----------------------------------------------------------------------------
(* The steps                                                               *)

LEMMA InvInit == Init => ShellInv
<1> SUFFICES ASSUME Init PROVE ShellInv
  OBVIOUS
<1>1. StatusOK /\ OfflineIsRetried
  BY DEF Init, StatusOK, OfflineIsRetried
<1>2. CallsOK
  <2>1. FirstCheck \in [Caller -> Outcome] /\ \A s \in Slot : FirstCheck[s] = "none"
    BY SlotIsCaller DEF FirstCheck, Outcome
  <2>2. NoSync \in Syncing
    BY MaxRetriesAssumption DEF NoSync, Syncing, Owner
  <2> QED
    BY <2>1, <2>2 DEF Init, CallsOK, NoSyncs
<1>3. Requests
  <2>1. Armed = 0 /\ Kept = 0
    BY Counts, KeptCounts DEF Init
  <2> QED
    BY <2>1, Counts, MaxAskedAssumption DEF Init, Requests, RequestsOK
<1> QED
  BY <1>1, <1>2, <1>3, ShellInvParts DEF Parts, Init, FlagsOK, PageOK

\* Checks, probes and answers.
LEMMA StatusStep ==
  ASSUME ShellInv, Status
  PROVE  ShellInv'
<1>1. StatusOK /\ OfflineIsRetried /\ CallsOK /\ FlagsOK /\ PageOK /\ Requests
  BY ShellInvParts DEF Parts
<1>2. UNCHANGED <<sync, buttonVars, pageVars, pending, historyVars>>
  BY DEF Status, Check, RetryTimerFires, NetworkGoes, NetworkComesBack, Answer,
         ErrorAnswerArrives, CheckEnds, ProbeEnds
<1>3. FlagsOK' /\ PageOK' /\ Requests'
  BY <1>1, <1>2, RequestsUnchanged
     DEF buttonVars, pageVars, historyVars, requestVars, FlagsOK, PageOK
<1>4. reachable' \in BOOLEAN
  BY ShellInvParts
     DEF Parts, Status, Check, RetryTimerFires, NetworkGoes, NetworkComesBack, Answer,
         ErrorAnswerArrives, CheckEnds, ProbeEnds
<1>5. "check" \in Caller /\ "probe" \in Caller /\ "check" \notin Slot /\ "probe" \notin Slot
  BY SlotAssumption DEF Caller
<1>6. CASE Check
  BY <1>1, <1>2, <1>6, CheckSent, StatusUnchanged, <1>3, <1>4, ShellInvParts DEF Parts, Check
<1>7. CASE RetryTimerFires
  <2>1. CallsOK' /\ call'["probe"] # "none"
    BY <1>1, <1>2, <1>7, CheckSent DEF RetryTimerFires
  <2>2. StatusOK' /\ OfflineIsRetried'
    BY <1>1, <1>7, <2>1 DEF RetryTimerFires, StatusOK, OfflineIsRetried
  <2> QED
    BY <2>1, <2>2, <1>3, <1>4, ShellInvParts DEF Parts
<1>8. CASE NetworkGoes
  <2>1. UNCHANGED call /\ (UNCHANGED statusVars \/ SetOnline(FALSE))
    BY <1>8 DEF NetworkGoes
  <2>2. CallsOK'
    BY <1>1, <1>2, <2>1 DEF CallsOK
  <2> QED
    BY <1>1, <2>1, <2>2, StatusUnchanged, SetOnlineKeepsStatus, <1>3, <1>4, ShellInvParts DEF Parts
<1>9. CASE NetworkComesBack
  <2>1. CallsOK' /\ (call["probe"] # "none" => call'["probe"] # "none")
    BY <1>1, <1>2, <1>9, CheckSent DEF NetworkComesBack, CallsOK
  <2> QED
    BY <1>1, <1>9, <2>1, StatusUnchanged, <1>3, <1>4, ShellInvParts DEF Parts, NetworkComesBack
<1>10. ASSUME NEW c \in {"check"} \cup Slot, Answer(c)
       PROVE  ShellInv'
  <2>1. c \in Caller /\ c # "probe" /\ (c \in Slot => sync[c].at # "idle")
    BY <1>1, <1>5, <1>10, SlotIsCaller DEF Answer, CallsOK
  <2>2. PICK a \in Answers(c) : call' = [call EXCEPT ![c] = a]
    BY <1>10 DEF Answer
  <2>3. a \in Outcome
    BY <2>2 DEF Answers, Outcome
  <2>4. CallsOK' /\ call'["probe"] = call["probe"]
    BY <1>1, <1>2, <2>1, <2>2, <2>3, CallGoesOn
  <2> QED
    BY <1>1, <1>10, <2>4, StatusUnchanged, <1>3, <1>4, ShellInvParts DEF Parts, Answer
<1>11. ASSUME NEW s \in Slot, ErrorAnswerArrives(s)
       PROVE  ShellInv'
  <2>1. s \in Caller /\ s # "probe" /\ sync[s].at # "idle"
    BY <1>1, <1>11, SlotIsCaller DEF ErrorAnswerArrives, CallsOK
  <2>2. PICK a \in Outcome : call' = [call EXCEPT ![s] = a]
    BY <1>11 DEF ErrorAnswerArrives, Outcome
  <2>3. CallsOK' /\ call'["probe"] = call["probe"]
    BY <1>1, <1>2, <2>1, <2>2, CallGoesOn
  <2>4. SetOnline(TRUE)
    BY <1>11 DEF ErrorAnswerArrives
  <2> QED
    BY <1>1, <2>3, <2>4, SetOnlineKeepsStatus, <1>3, <1>4, ShellInvParts DEF Parts
<1>12. CASE CheckEnds
  <2>1. call' = [call EXCEPT !["check"] = "none"] /\ SetOnline(call["check"] = "ok")
    BY <1>12 DEF CheckEnds, Ended
  <2>2. CallsOK' /\ call'["probe"] = call["probe"]
    BY <1>1, <1>2, <1>5, <2>1, CallGoesOn DEF Outcome
  <2> QED
    BY <1>1, <2>1, <2>2, SetOnlineKeepsStatus, <1>3, <1>4, ShellInvParts DEF Parts
<1>13. CASE ProbeEnds
  <2>1. call' = [call EXCEPT !["probe"] = "none"] /\ SetOnline(TRUE)
    BY <1>13 DEF ProbeEnds, Ended
  <2>2. CallsOK'
    BY <1>1, <1>2, <1>5, <2>1, CallGoesOn DEF Outcome
  <2> QED
    BY <1>1, <2>1, <2>2, SetOnlineKeepsStatus, <1>3, <1>4, ShellInvParts DEF Parts
<1> QED
  BY <1>6, <1>7, <1>8, <1>9, <1>10, <1>11, <1>12, <1>13 DEF Status

\* The page comes, is left, is loaded again; the flag is set and consumed.
LEMMA PageStep ==
  ASSUME ShellInv, Page
  PROVE  ShellInv'
<1>1. /\ StatusOK /\ OfflineIsRetried /\ CallsOK /\ FlagsOK /\ PageOK /\ Requests
      /\ reachable \in BOOLEAN
  BY ShellInvParts DEF Parts
<1>2. CASE Reload
  <2>1. StatusOK' /\ OfflineIsRetried'
    BY <1>2 DEF Reload, StatusOK, OfflineIsRetried
  <2>2. CallsOK'
    <3>1. FirstCheck \in [Caller -> Outcome] /\ \A s \in Slot : FirstCheck[s] = "none"
      BY SlotIsCaller DEF FirstCheck, Outcome
    <3>2. NoSync \in Syncing
      BY MaxRetriesAssumption DEF NoSync, Syncing, Owner
    <3> QED
      BY <1>2, <3>1, <3>2 DEF Reload, CallsOK, NoSyncs
  <2>3. Requests'
    <3>1. UNCHANGED <<pending, asked, auto>> /\ armed' = "no"
      BY <1>2 DEF Reload, historyVars
    <3>2. Kept' = Kept /\ Kept \in {0, 1}
      BY <3>1, KeptCounts
    <3> QED
      BY <1>1, <3>1, <3>2, Counts DEF Requests, RequestsOK
  <2> QED
    BY <1>1, <1>2, <2>1, <2>2, <2>3, ShellInvParts DEF Parts, Reload, FlagsOK, PageOK
<1>3. CASE ~Reload
  <2>1. UNCHANGED <<reachable, statusVars, call>>
    BY <1>3 DEF Page, DatabaseOpens, SessionChanges, Navigate, EffectRuns,
                ClickSyncAsGuest, CancelPrompt, CloseConflict
  <2>2. StatusOK' /\ OfflineIsRetried'
    BY <1>1, <2>1, StatusUnchanged
  <2>3. CallsOK'
    <3>1. CASE UNCHANGED sync
      BY <1>1, <2>1, <3>1 DEF CallsOK
    <3>2. CASE Navigate
      <4>1. \A s \in Slot : sync'[s] \in Syncing /\ sync'[s].at = sync[s].at
        BY <1>1, <3>2 DEF Navigate, CallsOK, Syncing, Owner
      <4> QED
        BY <1>1, <2>1, <3>2, <4>1 DEF Navigate, CallsOK
    <3> QED
      BY <1>3, <3>1, <3>2 DEF Page, DatabaseOpens, SessionChanges, EffectRuns,
                ClickSyncAsGuest, CancelPrompt, CloseConflict
  <2>4. FlagsOK'
    BY <1>1, <1>3 DEF Page, DatabaseOpens, SessionChanges, Navigate, EffectRuns,
                ClickSyncAsGuest, CancelPrompt, CloseConflict, Consume,
                buttonVars, FlagsOK
  <2>5. PageOK'
    <3>1. CASE EffectRuns
      <4>1. /\ UNCHANGED <<app, auth>> /\ online \in BOOLEAN
            /\ seen' = <<auth = "authed", online>>
        BY <1>1, <3>1 DEF EffectRuns, StatusOK
      <4>2. <<auth = "authed", online>> \in BOOLEAN \X BOOLEAN
        BY <4>1, Zenon
      <4> QED
        BY <1>1, <4>1, <4>2, Zenon DEF PageOK
    <3> QED
      BY <1>1, <1>3, <3>1
         DEF Page, DatabaseOpens, SessionChanges, Navigate, EffectRuns,
             ClickSyncAsGuest, CancelPrompt, CloseConflict, pageVars, PageOK
  <2>6. Requests'
    <3>1. CASE UNCHANGED requestVars
      BY <1>1, <3>1, RequestsUnchanged
    <3>2. CASE Navigate
      <4>1. Kept' = Kept /\ Armed' = Armed
        BY <3>2, KeptCounts DEF Navigate, Armed
      <4> QED
        BY <1>1, <3>2, <4>1, Counts DEF Navigate, historyVars, Requests, RequestsOK
    <3>3. CASE EffectRuns /\ ~UNCHANGED requestVars
      <4>1. /\ pending /\ pending' = FALSE /\ armed = "no" /\ armed' = "here"
            /\ UNCHANGED historyVars
        BY <3>3 DEF EffectRuns, Consume, historyVars, requestVars
      <4>2. Kept = 1 /\ Kept' = 0
        BY <4>1, KeptCounts
      <4> QED
        BY <1>1, <4>1, <4>2, Counts DEF historyVars, Requests, RequestsOK
    <3>4. CASE ClickSyncAsGuest
      <4>1. /\ pending' \in BOOLEAN /\ asked < MaxAsked /\ asked' = asked + 1
            /\ UNCHANGED <<armed, auto>>
        BY <3>4 DEF ClickSyncAsGuest, pageVars
      <4>2. Kept' <= Kept + 1 /\ Kept' \in {0, 1} /\ Kept \in {0, 1}
        BY KeptCounts
      <4>3. Armed' = Armed
        BY <4>1 DEF Armed
      <4> QED
        BY <1>1, <4>1, <4>2, <4>3, Counts, MaxAskedAssumption DEF Requests, RequestsOK
    <3>5. CASE CancelPrompt
      <4>1. pending' = FALSE /\ UNCHANGED <<armed, asked, auto>>
        BY <3>5 DEF CancelPrompt, pageVars, historyVars
      <4>2. Kept' = 0 /\ Kept \in {0, 1}
        BY <4>1, KeptCounts
      <4>3. Armed' = Armed
        BY <4>1 DEF Armed
      <4> QED
        BY <1>1, <4>1, <4>2, <4>3, Counts DEF Requests, RequestsOK
    <3> QED
      BY <1>3, <3>1, <3>2, <3>3, <3>4, <3>5
         DEF Page, DatabaseOpens, SessionChanges, CloseConflict, pageVars, historyVars,
             requestVars
  <2> QED
    BY <1>1, <2>1, <2>2, <2>3, <2>4, <2>5, <2>6, ShellInvParts DEF Parts
<1> QED
  BY <1>2, <1>3

\* A sync is started: by a button, or by the timer of the one that was kept.
LEMMA BeginKeepsCalls ==
  ASSUME CallsOK, NEW s \in Slot, NEW by \in Owner, NEW at \in {"put", "resolve"},
         Begin(s, by, at)
  PROVE  CallsOK' /\ call'["probe"] = call["probe"]
<1>1. {s} \in SUBSET Caller /\ "probe" \in Caller \ {s}
  BY SlotIsCaller DEF Caller
<1>2. [by |-> by, at |-> at, tries |-> 0] \in Syncing
  BY MaxRetriesAssumption DEF Syncing
<1>3. /\ sync' \in [Slot -> Syncing] /\ sync'[s].at # "idle"
      /\ \A t \in Slot \ {s} : sync'[t] = sync[t] /\ t \in Caller \ {s}
  BY <1>2, SlotIsCaller DEF Begin, CallsOK
<1>4. /\ call' \in [Caller -> Outcome]
      /\ \A c \in Caller \ {s} : call'[c] = call[c]
  BY <1>1, SentSends DEF Begin
<1> QED
  BY <1>1, <1>3, <1>4 DEF CallsOK

LEMMA SyncStarts ==
  ASSUME ShellInv, NEW s \in Slot,
         ClickSync(s) \/ ArmedSync(s) \/ ClickResolve(s) \/ ClickSyncNow(s)
  PROVE  ShellInv'
<1>1. /\ StatusOK /\ OfflineIsRetried /\ CallsOK /\ FlagsOK /\ PageOK /\ Requests
      /\ reachable \in BOOLEAN
  BY ShellInvParts DEF Parts
<1>2. UNCHANGED <<reachable, statusVars, app, auth, seen>>
  BY DEF ClickSync, ArmedSync, ClickResolve, ClickSyncNow, pageVars
<1>3. CallsOK' /\ call'["probe"] = call["probe"]
  <2>1. {"button", "gone", "details"} = Owner
    BY DEF Owner
  <2>2. CASE ArmedSync(s)
    <3>1. (IF armed = "here" THEN "button" ELSE "gone") \in Owner
      BY <2>1
    <3> QED
      BY <1>1, <2>2, <3>1, BeginKeepsCalls DEF ArmedSync
  <2> QED
    BY <1>1, <2>1, <2>2, BeginKeepsCalls DEF ClickSync, ClickResolve, ClickSyncNow
<1>4. StatusOK' /\ OfflineIsRetried'
  BY <1>1, <1>2, <1>3, StatusUnchanged
<1>5. FlagsOK'
  BY <1>1 DEF ClickSync, ArmedSync, ClickResolve, ClickSyncNow, buttonVars, FlagsOK
<1>6. PageOK'
  BY <1>1, <1>2 DEF PageOK
<1>7. Requests'
  <2>1. CASE ArmedSync(s)
    <3>1. armed # "no" /\ armed' = "no" /\ auto' = auto + 1 /\ UNCHANGED <<pending, asked>>
      BY <2>1 DEF ArmedSync
    <3>2. Kept' = Kept /\ Kept \in {0, 1}
      BY <3>1, KeptCounts
    <3> QED
      BY <1>1, <3>1, <3>2, Counts, MaxAskedAssumption DEF Requests, RequestsOK
  <2> QED
    BY <1>1, <2>1, RequestsUnchanged
       DEF ClickSync, ClickResolve, ClickSyncNow, pageVars, historyVars, requestVars
<1> QED
  BY <1>1, <1>2, <1>3, <1>4, <1>5, <1>6, <1>7, ShellInvParts DEF Parts

\* A sync goes on or ends.
LEMMA SyncGoesOn ==
  ASSUME ShellInv, NEW s \in Slot,
         \/ SyncSucceeds(s) \/ ConflictFound(s) \/ SyncBacksOff(s)
         \/ SyncRetries(s) \/ SyncFails(s)
  PROVE  ShellInv'
<1>1. /\ StatusOK /\ OfflineIsRetried /\ CallsOK /\ FlagsOK /\ PageOK /\ Requests
      /\ reachable \in BOOLEAN
  BY ShellInvParts DEF Parts
<1>2. SyncUnchanged
  BY DEF SyncSucceeds, ConflictFound, SyncBacksOff, SyncRetries, SyncFails
<1>3. reachable' \in BOOLEAN /\ PageOK' /\ Requests'
  BY <1>1, <1>2, RequestsUnchanged DEF SyncUnchanged, PageOK, historyVars, requestVars
<1>4. FlagsOK'
  <2>1. UNCHANGED <<syncing, conflict>> \/ \E found \in BOOLEAN : Finish(s, found)
    BY DEF SyncSucceeds, ConflictFound, SyncBacksOff, SyncRetries, SyncFails
  <2> QED
    BY <1>1, <1>2, <2>1 DEF SyncUnchanged, FlagsOK, Finish
<1>5. /\ s \in Caller /\ s # "probe" /\ "probe" \in Caller
      /\ \A t \in Slot : t \in Caller
  BY SlotIsCaller DEF Caller
<1>6. CallsOK' /\ call'["probe"] = call["probe"]
  <2>1. CASE SyncRetries(s)
    <3>1. /\ call' \in [Caller -> Outcome] /\ UNCHANGED sync /\ sync[s].at # "idle"
          /\ \A c \in Caller \ {s} : call'[c] = call[c]
      BY <1>1, <1>5, <2>1, SentSends DEF SyncRetries
    <3> QED
      BY <1>1, <1>5, <3>1 DEF CallsOK
  <2>2. CASE ~SyncRetries(s)
    <3>1. PICK a \in {"none", "sent"} :
            /\ call' = [call EXCEPT ![s] = a]
            /\ sync' \in [Slot -> Syncing]
            /\ \A t \in Slot \ {s} : sync'[t] = sync[t]
            /\ a # "none" => sync'[s].at # "idle"
      <4>1. NoSync \in Syncing
        BY MaxRetriesAssumption DEF NoSync, Syncing, Owner
      <4>2. CASE SyncSucceeds(s) \/ SyncFails(s)
        BY <1>1, <4>1, <4>2 DEF SyncSucceeds, SyncFails, Ended, Finish, CallsOK
      <4>3. CASE ConflictFound(s)
        <5>1. [sync[s] EXCEPT !.at = "get"] \in Syncing
          BY <1>1 DEF CallsOK, Syncing
        <5> QED
          BY <1>1, <4>3, <5>1 DEF ConflictFound, CallsOK, Syncing
      <4>4. CASE SyncBacksOff(s)
        <5>1. sync[s] \in Syncing /\ sync[s].tries + 1 \in 0 .. MaxRetries
          <6>1. sync[s] \in Syncing
            BY <1>1 DEF CallsOK
          <6>2. sync[s].tries < MaxRetries
            BY <4>4 DEF SyncBacksOff, Retriable
          <6> QED
            BY <6>1, <6>2, MaxRetriesAssumption DEF Syncing
        <5>2. [sync[s] EXCEPT !.tries = @ + 1] \in Syncing
          BY <5>1 DEF Syncing
        <5>3. sync' = [sync EXCEPT ![s] = [sync[s] EXCEPT !.tries = @ + 1]]
          BY <4>4 DEF SyncBacksOff
        <5>4. call' = [call EXCEPT ![s] = "none"]
          BY <4>4 DEF SyncBacksOff, Ended
        <5> QED
          BY <1>1, <5>2, <5>3, <5>4 DEF CallsOK
      <4> QED
        BY <2>2, <4>2, <4>3, <4>4
    <3>2. call' \in [Caller -> Outcome] /\ call'[s] = a
            /\ \A c \in Caller \ {s} : call'[c] = call[c]
      BY <1>1, <1>5, <3>1 DEF CallsOK, Outcome
    <3> QED
      BY <1>1, <1>5, <3>1, <3>2 DEF CallsOK
  <2> QED
    BY <2>1, <2>2
<1>7. StatusOK' /\ OfflineIsRetried'
  <2>1. UNCHANGED statusVars \/ SetOnline(TRUE) \/ SetOnline(FALSE)
    BY DEF SyncSucceeds, ConflictFound, SyncBacksOff, SyncRetries, SyncFails
  <2> QED
    BY <1>1, <1>6, <2>1, StatusUnchanged, SetOnlineKeepsStatus
<1> QED
  BY <1>3, <1>4, <1>6, <1>7, ShellInvParts DEF Parts

LEMMA InvStep == ShellInv /\ [Next]_vars => ShellInv'
<1> SUFFICES ASSUME ShellInv, [Next]_vars PROVE ShellInv'
  OBVIOUS
<1>1. CASE UNCHANGED vars
  BY <1>1 DEF vars, statusVars, buttonVars, pageVars, historyVars, ShellInv, TypeOK,
              OfflineIsRetried, OneSyncPerRequest
<1>2. CASE Next
  BY <1>2, StatusStep, PageStep, SyncStarts, SyncGoesOn DEF Next, Syncs
<1> QED
  BY <1>1, <1>2

LEMMA ShellInvariant == Spec => []ShellInv
BY InvInit, InvStep, PTL DEF Spec

-----------------------------------------------------------------------------
(* Results                                                                 *)

\* The status, the calls and the flags of the page keep their types: no retry
\* timer is set while the client is online, a sync that is over has no call
\* under way, and none tries more often than withRetry allows.
THEOREM TypeCorrect == Spec => []TypeOK
<1>1. ShellInv => TypeOK
  BY DEF ShellInv
<1> QED
  BY <1>1, ShellInvariant, PTL

\* A client that was online and is not any more has its retry timer set or the
\* check of that timer under way, in whatever order answers and failures of any
\* number of syncs, checks and probes arrive (setOnline, scheduleRetry).
THEOREM OfflineClientsRetry == Spec => []OfflineIsRetried
<1>1. ShellInv => OfflineIsRetried
  BY DEF ShellInv
<1> QED
  BY <1>1, ShellInvariant, PTL

\* A sync that was asked for without a session is started at most once, however
\* often pages come and go and session and status change
\* (consumePendingSyncIfReady).
THEOREM RequestsSyncOnce == Spec => []OneSyncPerRequest
<1>1. ShellInv => OneSyncPerRequest
  BY DEF ShellInv
<1> QED
  BY <1>1, ShellInvariant, PTL
=============================================================================
