---------------------------- MODULE DhanSession -----------------------------
(***************************************************************************)
(* The Dhan access token: who installs it, who drops it, what is stored,   *)
(* and which sockets run on it.                                            *)
(*                                                                         *)
(* Sources: internal/brokers/registry/dhansession.go (consent login,       *)
(* restart, logout, lost sessions, readiness), brokerlogin.go (token       *)
(* service, pasted tokens), registry.go (the lanes), switch.go (Restore),  *)
(* store.go, internal/brokerlogin/client.go, internal/brokers/dhan/auth.go.*)
(*                                                                         *)
(* Access tokens are numbered in the order Dhan issues them, 0 is none.    *)
(* opMu serialises the credential operations; subscribers and the feeds'   *)
(* callbacks do not take it, except for a lost session, which waits for    *)
(* it in a goroutine of its own.  A lane object (dhanLane) is its socket's *)
(* token and whether its lost-session callback waits.  The Spike lane,     *)
(* which every operation here recycles, is in module Spike; a subscriber   *)
(* that still holds a replaced lane is in BrokerSwitch.  The waits of the  *)
(* token service (next, lockedUntil, the daily window) are time: whether   *)
(* one has passed is left open.                                            *)
(*                                                                         *)
(* Restore runs in the boot chain while requests are served and takes no   *)
(* opMu: it reads the row, then stores what it read or deletes it.  An     *)
(* operation's write of the row and its change of memory are one step: a   *)
(* step of Restore between the two leaves what it leaves before both or    *)
(* after both.                                                             *)
(***************************************************************************)
EXTENDS Integers

CONSTANTS
    MaxTokens,      \* bound on issued access tokens
    MaxOps,         \* bound on credential operations, switches and process ends
    ConsentLogin    \* whether the consent login is used next to the token service

ASSUME SessionBounds ==
    MaxTokens \in Nat \ {0} /\ MaxOps \in Nat /\ ConsentLogin \in BOOLEAN

VARIABLES
    sessToken,      \* r.dhanToken
    sessSource,     \* r.dhanMeta: "none", or its source ("consent" is the empty one)
    issued,         \* tokens issued so far
    byConsent,      \* history: those a consent login brought
    fate,           \* per token: "good", "dead" (Dhan rejects it) or "lapsed" (expired too)
    row,            \* dhan_session
    doubt,          \* the last write or read of the row did not succeed
    rejected,       \* brokerLogin.rejectedToken
    loginStop,      \* what holds the automatic fetch back: "paused" and "stopped"
    current,        \* r.dhanFeed and r.boxDhanFeed
    oldLost,        \* the callback of a replaced lane waits
    dhanActive,     \* Dhan is the active broker
    restoring,      \* Restore: where it is, the row it read, and whether anyone else has since
                    \* the process began touched the session or its row
    overtaken,      \* history: Restore stored or deleted over what a login or a loss had left
    sessOp,         \* holder of opMu and where it is
    sessOps         \* operations so far

sessionVars == <<sessToken, sessSource, rejected>>
rowVars == <<row, doubt>>
laneVars == <<current, oldLost>>
restoreVars == <<restoring, overtaken>>
dhanWorld == <<issued, byConsent, fate>>
dhanSessionVars == <<sessionVars, rowVars, laneVars, dhanWorld, loginStop, dhanActive,
                     restoreVars, sessOp, sessOps>>

NoAccess == 0
AccessTokens == 1 .. MaxTokens
LaneNames == {"fut", "box"}
TokenSources == {"service", "manual"}      \* the sources dhanMeta.source names
NoRow == [tok |-> NoAccess, src |-> "none"]
NoLane == [sock |-> NoAccess, lost |-> FALSE]
Idle == [kind |-> "none", at |-> "none", tok |-> NoAccess, old |-> NoAccess, src |-> "none",
         both |-> FALSE]
Restored == [at |-> "no", rec |-> NoRow, changed |-> FALSE]

DhanSessionInit ==
    /\ sessToken = NoAccess /\ sessSource = "none" /\ rejected = NoAccess
    /\ issued = 0 /\ byConsent = {} /\ fate = [t \in AccessTokens |-> "good"]
    /\ row = NoRow /\ doubt = FALSE /\ loginStop = {}
    /\ current = [n \in LaneNames |-> NoLane] /\ oldLost = FALSE
    /\ dhanActive = TRUE /\ restoring = Restored /\ overtaken = FALSE
    /\ sessOp = Idle /\ sessOps = 0

-----------------------------------------------------------------------------
(* Reading the session                                                     *)

deadTokens == {t \in AccessTokens : fate[t] # "good"}
IsTokenExpired(t) == fate[t] = "lapsed"

usableDhanToken ==
    IF sessToken # NoAccess /\ ~IsTokenExpired(sessToken) THEN sessToken ELSE NoAccess

SessionFor == [authenticated |-> usableDhanToken # NoAccess,
               expired |-> sessToken # NoAccess /\ IsTokenExpired(sessToken)]

\* The automatic fetch is due without a token, inside brokerRenewBefore of its
\* expiry, and on the last day of a token that was not pasted.
brokerDue(soon, lastDay) ==
    /\ loginStop = {}
    /\ \/ usableDhanToken = NoAccess
       \/ soon
       \/ sessSource # "manual" /\ lastDay

-----------------------------------------------------------------------------
(* Lanes                                                                   *)

\* stop() on a lane object: its socket is closed, a queued callback stays.
Stopped(lane) == [lane EXCEPT !.sock = NoAccess]

\* The lanes in names are stopped and forgotten; their callbacks are not.
Forget(cur, names) ==
    /\ current' = [n \in LaneNames |-> IF n \in names THEN NoLane ELSE cur[n]]
    /\ oldLost' = (oldLost \/ \E n \in names : cur[n].lost)

\* The lane is built on first use and connects on the usable token.
ensureFeed(lane) ==
    [lane EXCEPT !.sock = IF lane.sock # NoAccess THEN lane.sock ELSE usableDhanToken]

\* A coordinator subscribes on a lane of the active broker.
LaneSubscribe(n) ==
    /\ dhanActive
    /\ current' = [current EXCEPT ![n] = ensureFeed(@)]
    /\ UNCHANGED <<sessionVars, rowVars, oldLost, dhanWorld, loginStop, dhanActive,
                   sessOp, sessOps, restoreVars>>

\* The socket of a lane is refused: the feed gives up and reports it.
LaneLost(n) ==
    /\ current[n].sock \in deadTokens
    /\ current' = [current EXCEPT ![n] = [sock |-> NoAccess, lost |-> TRUE]]
    /\ UNCHANGED <<sessionVars, rowVars, oldLost, dhanWorld, loginStop, dhanActive,
                   sessOp, sessOps, restoreVars>>

-----------------------------------------------------------------------------
(* The row                                                                 *)

\* A write succeeds, or fails with or without having been committed.
SaveDhanSession(rec, ok) ==
    \/ ok /\ row' = rec /\ doubt' = FALSE
    \/ ~ok /\ row' \in {rec, row} /\ doubt' = TRUE
ClearDhanSession ==
    \/ row' = NoRow /\ doubt' = FALSE
    \/ row' = row /\ doubt' = TRUE

\* The session or its row is changed next to a Restore under way.
Touch == restoring' = [restoring EXCEPT !.changed = (restoring.at # "no")]

-----------------------------------------------------------------------------
(* opMu                                                                    *)

\* An operation takes opMu; what it installs will be the token of src, with both lanes restarted
\* or the futures lane alone.
Begin(kind, at, src, both) ==
    /\ sessOp = Idle /\ sessOps < MaxOps /\ sessOps' = sessOps + 1
    /\ sessOp' = [Idle EXCEPT !.kind = kind, !.at = at, !.src = src, !.both = both]
End == sessOp' = Idle /\ UNCHANGED sessOps
Goto(at) == sessOp' = [sessOp EXCEPT !.at = at] /\ UNCHANGED sessOps

\* CompleteDhanLogin: the redirect's tokenId is exchanged for a new token.
ConsentBegin ==
    /\ ConsentLogin
    /\ Begin("consent", "net", "consent", FALSE)
    /\ UNCHANGED <<sessionVars, rowVars, laneVars, dhanWorld, loginStop, dhanActive, restoreVars>>

\* ConsumeConsent brings a new token, or none: refused, used up, timed out.
ConsumeConsent == IF issued < MaxTokens THEN {NoAccess, issued + 1} ELSE {NoAccess}

ConsentExchange ==
    /\ sessOp.kind = "consent" /\ sessOp.at = "net"
    /\ \E t \in ConsumeConsent :
        IF t = NoAccess THEN End /\ UNCHANGED <<sessionVars, rowVars, dhanWorld, restoreVars>>
        ELSE /\ issued' = t /\ byConsent' = byConsent \cup {t}
             /\ sessToken' = t /\ sessSource' = "consent"
             /\ \E ok \in BOOLEAN : SaveDhanSession([tok |-> t, src |-> "consent"], ok)
             /\ Goto("recycle") /\ Touch /\ overtaken' = FALSE
             /\ UNCHANGED <<rejected, fate>>
    /\ UNCHANGED <<laneVars, loginStop, dhanActive>>

\* brokerPass, which the boot chain starts after Restore: TryLock, the running token is
\* checked with Dhan, and a new one is fetched when it is due.  FetchBrokerToken: the
\* operator asks for it.
PassBegin ==
    /\ restoring.at = "no"
    /\ Begin("auto", "check", "service", TRUE)
    /\ UNCHANGED <<sessionVars, rowVars, laneVars, dhanWorld, loginStop, dhanActive, restoreVars>>

FetchBegin ==
    /\ Begin("fetch", "net", "service", TRUE)
    /\ loginStop' = {}
    /\ UNCHANGED <<sessionVars, rowVars, laneVars, dhanWorld, dhanActive, restoreVars>>

\* SetManualDhanToken: a pasted token is validated before anything changes.
PasteBegin ==
    /\ Begin("paste", "net", "manual", TRUE)
    /\ UNCHANGED <<sessionVars, rowVars, laneVars, dhanWorld, loginStop, dhanActive, restoreVars>>

\* The service serves a token it has served before, or a new one.
FetchToken == (1 .. issued + 1) \cap AccessTokens

\* What the fetch or the validation brings.  A pasted token is neither dead
\* nor expired; the token Dhan has rejected is refused.  installDhanAccessToken
\* looks at the token in memory before it saves the new one.
NetSucceeds ==
    /\ sessOp.at = "net" /\ sessOp.kind # "consent"
    /\ \E t \in FetchToken :
        /\ IF sessOp.kind = "paste" THEN t \notin deadTokens ELSE t # rejected
        /\ issued' = IF t > issued THEN t ELSE issued
        /\ sessOp' = [sessOp EXCEPT !.at = "save", !.tok = t, !.old = sessToken]
    /\ UNCHANGED <<sessionVars, rowVars, laneVars, byConsent, fate, loginStop, dhanActive,
                   sessOps, restoreVars>>

\* brokerFailed: a permanent refusal stops the automatic fetch, any other
\* delays it.
NetFails ==
    /\ sessOp.at = "net" /\ sessOp.kind # "consent"
    /\ End
    /\ \/ UNCHANGED loginStop
       \/ sessOp.kind # "paste" /\ loginStop' = loginStop \cup {"stopped"}
    /\ UNCHANGED <<sessionVars, rowVars, laneVars, dhanWorld, dhanActive, restoreVars>>

\* installDhanAccessToken: saved first, then adopted; the runtime restarts
\* when the token is another one.
installDhanAccessToken ==
    /\ sessOp.at = "save"
    /\ \E ok \in BOOLEAN :
        /\ SaveDhanSession([tok |-> sessOp.tok, src |-> sessOp.src], ok)
        /\ IF ok
           THEN /\ sessToken' = sessOp.tok /\ sessSource' = sessOp.src
                /\ rejected' = IF sessOp.kind = "paste" THEN NoAccess ELSE rejected
                /\ loginStop' = loginStop \ {IF sessOp.kind = "paste" THEN "paused" ELSE "stopped"}
                /\ IF sessOp.old = sessOp.tok THEN End /\ UNCHANGED overtaken
                   ELSE Goto("recycle") /\ overtaken' = FALSE
           ELSE End /\ UNCHANGED <<sessionVars, loginStop, overtaken>>
    /\ Touch
    /\ UNCHANGED <<laneVars, dhanWorld, dhanActive>>

-----------------------------------------------------------------------------
(* restartDhanRuntime                                                      *)

\* Mutation: the running feeds are kept, as they reconnect by themselves.
Mut_RestartKeepsFeeds ==
    /\ sessOp.at = "recycle"
    /\ UNCHANGED laneVars
    /\ Goto("start")
    /\ UNCHANGED <<sessionVars, rowVars, dhanWorld, loginStop, dhanActive, restoreVars>>

\* The sockets of the previous token are stopped and forgotten; a consent
\* login leaves the box lane as it is.
restartRecycle ==
    /\ sessOp.at = "recycle"
    /\ Forget(current, IF sessOp.both THEN {"fut", "box"} ELSE {"fut"})
    /\ Goto("start")
    /\ UNCHANGED <<sessionVars, rowVars, dhanWorld, loginStop, dhanActive, restoreVars>>

\* The active feed and the lanes that have tokens.
restartStart ==
    /\ sessOp.at = "start" /\ End
    /\ IF dhanActive
       THEN \E replay \in SUBSET {"box"} :
              current' = [n \in LaneNames |->
                 IF n = "fut" \/ n \in replay THEN ensureFeed(current[n]) ELSE current[n]]
       ELSE UNCHANGED current
    /\ UNCHANGED <<sessionVars, rowVars, oldLost, dhanWorld, loginStop, dhanActive, restoreVars>>

-----------------------------------------------------------------------------
(* Losing the session                                                      *)

\* The lanes that are stopped with the session: the futures lane is kept, the
\* box lane is stopped and forgotten only when the token came from the token
\* service or was pasted.
StopLanes(cur) ==
    Forget([cur EXCEPT !["fut"] = Stopped(@)],
           IF sessSource \in TokenSources THEN {"box"} ELSE {})

\* onDhanSessionLost, with the lanes as the caller left them.
onDhanSessionLost(cur) ==
    /\ sessToken' = NoAccess /\ UNCHANGED sessSource
    /\ rejected' = IF sessSource \in TokenSources /\ sessToken # NoAccess THEN sessToken ELSE rejected
    /\ StopLanes(cur)
    /\ ClearDhanSession
    /\ Touch /\ overtaken' = FALSE

\* checkDhanToken: the profile call is refused.
PassCheck ==
    /\ sessOp.at = "check"
    /\ \/ /\ usableDhanToken \in deadTokens /\ onDhanSessionLost(current)
       \/ UNCHANGED <<sessionVars, rowVars, laneVars, restoreVars>>
    /\ Goto("due")
    /\ UNCHANGED <<dhanWorld, loginStop, dhanActive>>

PassDue ==
    /\ sessOp.at = "due"
    /\ \E soon, lastDay \in BOOLEAN : IF brokerDue(soon, lastDay) THEN Goto("net") ELSE End
    /\ UNCHANGED <<sessionVars, rowVars, laneVars, dhanWorld, loginStop, dhanActive, restoreVars>>

\* onDhanFeedSessionLost: the callback of a lane gets opMu.  Only a lane that
\* is still in use may take the session down.
FeedSessionLost(n) ==
    /\ sessOp = Idle /\ current[n].lost
    /\ onDhanSessionLost([current EXCEPT ![n].lost = FALSE])
    /\ UNCHANGED <<dhanWorld, loginStop, dhanActive, sessOp, sessOps>>

\* Mutation: the callback does not ask whether its lane is still in use.
Mut_OldLaneClears ==
    /\ sessOp = Idle /\ oldLost
    /\ onDhanSessionLost(current)
    /\ UNCHANGED <<dhanWorld, loginStop, dhanActive, sessOp, sessOps>>

OldFeedSessionLost ==
    /\ sessOp = Idle /\ oldLost /\ oldLost' = FALSE
    /\ UNCHANGED <<sessionVars, rowVars, current, dhanWorld, loginStop, dhanActive,
                   sessOp, sessOps, restoreVars>>

\* LogoutDhan.
LogoutDhan ==
    /\ sessOp = Idle /\ sessOps < MaxOps /\ sessOps' = sessOps + 1
    /\ loginStop' = loginStop \cup {"paused"}
    /\ sessToken' = NoAccess /\ sessSource' = "none" /\ UNCHANGED rejected
    /\ StopLanes(current)
    /\ ClearDhanSession
    /\ Touch /\ overtaken' = FALSE
    /\ UNCHANGED <<dhanWorld, dhanActive, sessOp>>

\* SwitchTo as far as the lanes go: both are stopped, the second one is forgotten,
\* and the futures lane is started when Dhan was selected.
SwitchLanes ==
    /\ sessOp = Idle /\ sessOps < MaxOps /\ sessOps' = sessOps + 1
    /\ dhanActive' = ~dhanActive
    /\ Forget([current EXCEPT !["fut"] = IF dhanActive THEN Stopped(@) ELSE ensureFeed(Stopped(@))],
              {"box"})
    /\ UNCHANGED <<sessionVars, rowVars, dhanWorld, loginStop, sessOp, restoreVars>>

-----------------------------------------------------------------------------
(* The rest of the world                                                   *)

\* Dhan stops accepting a token (another login, an incident), or it expires.
TokenDies(t) ==
    /\ t <= issued /\ fate[t] # "lapsed"
    /\ \E f \in {"dead", "lapsed"} \ {fate[t]} : fate' = [fate EXCEPT ![t] = f]
    /\ UNCHANGED <<sessionVars, rowVars, laneVars, issued, byConsent, loginStop, dhanActive,
                   sessOp, sessOps, restoreVars>>

\* A new day ends the pause.
PauseEnds ==
    /\ "paused" \in loginStop /\ loginStop' = loginStop \ {"paused"}
    /\ UNCHANGED <<sessionVars, rowVars, laneVars, dhanWorld, dhanActive, sessOp, sessOps, restoreVars>>

-----------------------------------------------------------------------------
(* Restore                                                                 *)

\* The process ends and another one starts: memory is gone, the row is not.
ProcessEnds ==
    /\ sessOps < MaxOps /\ sessOps' = sessOps + 1 /\ sessOp' = Idle
    /\ sessToken' = NoAccess /\ sessSource' = "none" /\ rejected' = NoAccess /\ loginStop' = {}
    /\ current' = [n \in LaneNames |-> NoLane] /\ oldLost' = FALSE
    /\ restoring' = [Restored EXCEPT !.at = "load"] /\ overtaken' = FALSE
    /\ UNCHANGED <<rowVars, dhanWorld, dhanActive>>

\* The row is read and its expiry judged.  An unreadable row is none, and one of another
\* configured account, which only a token of the service or a pasted one may be, is left.
RestoreReads ==
    /\ restoring.at = "load"
    /\ \/ restoring' = Restored /\ doubt' = TRUE
       \/ row.tok = NoAccess /\ restoring' = Restored /\ doubt' = (doubt /\ restoring.changed)
       \/ row.src \in TokenSources /\ restoring' = Restored /\ doubt' = TRUE
       \/ /\ row.tok # NoAccess
          /\ restoring' = [restoring EXCEPT !.at = IF IsTokenExpired(row.tok) THEN "clear" ELSE "adopt",
                                            !.rec = row]
          /\ doubt' = (doubt /\ restoring.changed)
    /\ UNCHANGED <<sessionVars, row, laneVars, dhanWorld, loginStop, dhanActive, overtaken,
                   sessOp, sessOps>>

\* setDhanSession with what was read, whatever is in memory by now; no lane is restarted.
RestoreAdopts ==
    /\ restoring.at = "adopt" /\ restoring' = Restored
    /\ sessToken' = restoring.rec.tok /\ sessSource' = restoring.rec.src
    /\ overtaken' = (restoring.changed /\ ~(restoring.rec.tok = sessToken /\ restoring.rec.tok = row.tok))
    /\ UNCHANGED <<rejected, rowVars, laneVars, dhanWorld, loginStop, dhanActive, sessOp, sessOps>>

\* The expired row is deleted, whatever the row is by now.
RestoreClears ==
    /\ restoring.at = "clear" /\ restoring' = Restored
    /\ ClearDhanSession
    /\ overtaken' = (sessToken # NoAccess)
    /\ UNCHANGED <<sessionVars, laneVars, dhanWorld, loginStop, dhanActive, sessOp, sessOps>>

DhanSessionNext ==
    \/ ConsentBegin \/ ConsentExchange \/ PassBegin \/ FetchBegin \/ PasteBegin
    \/ NetSucceeds \/ NetFails \/ installDhanAccessToken \/ restartRecycle \/ restartStart
    \/ PassCheck \/ PassDue \/ LogoutDhan \/ SwitchLanes
    \/ ProcessEnds \/ RestoreReads \/ RestoreAdopts \/ RestoreClears
    \/ \E n \in LaneNames : LaneSubscribe(n) \/ LaneLost(n) \/ FeedSessionLost(n)
    \/ OldFeedSessionLost
    \/ \E t \in AccessTokens : TokenDies(t)
    \/ PauseEnds

DhanSessionSpec == DhanSessionInit /\ [][DhanSessionNext]_dhanSessionVars

-----------------------------------------------------------------------------
(* Properties                                                              *)

\* restartDhanRuntime: when no credential operation is under way and the
\* session is good, no lane in use runs on another token than the session's:
\* "the socket opened with the previous token must not survive"
\* (dhansession.go:188).  The box lane is exempt after a consent login, and every lane is
\* when Restore took the token back (overtaken), as it restarts none.
SocketsOnSession ==
    sessOp = Idle /\ ~overtaken /\ SessionFor.authenticated =>
        \A n \in LaneNames :
            \/ current[n].sock \in {NoAccess, sessToken}
            \/ n = "box" /\ sessToken \in byConsent

\* installDhanAccessToken, onDhanSessionLost, LogoutDhan, Restore: between
\* operations the stored session is the one in memory, unless the last access
\* to the row failed, or the process has just begun and Restore is about to bring it
\* back.  A restart brings back neither a dropped session nor an older one: exempt is
\* what a Restore leaves that stored or deleted over a login or a loss of its own time.
StoredSession ==
    sessOp = Idle /\ ~doubt /\ ~overtaken =>
        \/ row.tok = sessToken
        \/ restoring.at # "no" /\ ~restoring.changed /\ sessToken = NoAccess

\* A step of a lane's callback that takes a session down.
CallbackClears ==
    sessOp = Idle /\ UNCHANGED <<sessOp, sessOps>> /\ sessToken # NoAccess /\ sessToken' = NoAccess

\* onDhanFeedSessionLost: "A stopped, superseded feed must not clear a token
\* installed while its callback was queued" (dhansession.go:272), except
\* that of a box lane a consent login left alone, and of one that Restore left behind.
KeepsLiveToken ==
    CallbackClears => \/ sessToken \in deadTokens
                      \/ current["box"].lost /\ sessToken \in byConsent
                      \/ overtaken

\* The session in memory is the stored one and that of every lane's socket, and no late
\* callback ends a live one.
SessionKept == [][KeepsLiveToken /\ SocketsOnSession' /\ StoredSession']_dhanSessionVars

\* The inductive invariant, for the two readings above: what the run on a token owes to the lanes is
\* owed at every moment, except between a token's adoption and the restart of the runtime.

Sources == {"none", "consent", "service", "manual"}
AnyToken == AccessTokens \cup {NoAccess}
DhanTypeOK ==
    /\ sessToken \in AnyToken /\ rejected \in AnyToken /\ sessSource \in Sources
    /\ issued \in 0 .. MaxTokens /\ byConsent \subseteq AccessTokens
    /\ fate \in [AccessTokens -> {"good", "dead", "lapsed"}]
    /\ row \in [tok : AnyToken, src : Sources] /\ doubt \in BOOLEAN
    /\ loginStop \subseteq {"paused", "stopped"}
    /\ current \in [LaneNames -> [sock : AnyToken, lost : BOOLEAN]] /\ oldLost \in BOOLEAN
    /\ dhanActive \in BOOLEAN /\ overtaken \in BOOLEAN /\ sessOps \in Nat
    /\ restoring \in [at : {"no", "load", "adopt", "clear"}, rec : [tok : AnyToken, src : Sources],
                      changed : BOOLEAN]
    /\ sessOp \in [kind : {"none", "consent", "auto", "fetch", "paste"},
                   at : {"none", "net", "check", "due", "save", "recycle", "start"},
                   tok : AnyToken, old : AnyToken, src : Sources, both : BOOLEAN]

\* The row is written in the step that changes the token, and is the token's unless Restore is about
\* to adopt it.
Undisturbed == restoring.at # "no" /\ ~restoring.changed
RowFollows == ~doubt /\ ~overtaken /\ ~Undisturbed => row.tok = sessToken

\* As long as nobody else has touched the session, a new process has none, nor a socket, and the row
\* is the one Restore has read.  What it adopts is a token.
RestoreQuiet ==
    /\ Undisturbed =>
        /\ sessToken = NoAccess /\ (sessOp.at = "save" => sessOp.old = NoAccess)
        /\ sessOp.at \notin {"recycle", "start"}
        /\ current = [n \in LaneNames |-> NoLane]
        /\ restoring.at \in {"adopt", "clear"} => ~doubt /\ restoring.rec = row
    /\ restoring.at # "no" => ~overtaken
    /\ restoring.at = "adopt" => restoring.rec.tok # NoAccess
    /\ restoring.changed => restoring.at # "no"

\* Only a consent login leaves the box lane out of the restart, and what it leaves is its own.  An
\* operation knows the token that its own replaces.
RestartsAll ==
    /\ sessOp.at = "recycle" /\ ~overtaken => sessOp.both \/ sessToken \in byConsent
    /\ sessOp.at = "save" => sessOp.both /\ sessOp.tok # NoAccess
    /\ sessOp.at = "save" /\ ~overtaken => sessOp.old \in {NoAccess, sessToken}
    /\ sessOp.at \in {"net", "check", "due"} => sessOp.both = (sessOp.kind # "consent")

\* A lane's socket is on the session's token or closed.
LanesFollow ==
    sessOp.at # "recycle" /\ ~overtaken =>
        /\ current["fut"].sock \in {NoAccess, sessToken}
        /\ current["box"].sock \in {NoAccess, sessToken} \/ sessToken \in byConsent \cup {NoAccess}

\* A callback that waits on a lane in use speaks of the session's token.
LostIsDead ==
    sessOp.at # "recycle" /\ ~overtaken /\ sessToken # NoAccess =>
        /\ current["fut"].lost => sessToken \in deadTokens
        /\ current["box"].lost => sessToken \in deadTokens \cup byConsent

DhanIInv == DhanTypeOK /\ RowFollows /\ RestoreQuiet /\ RestartsAll /\ LanesFollow /\ LostIsDead
=============================================================================
