------------------------------ MODULE Session ------------------------------
(***************************************************************************)
(* The account session of one computer: the tokens the plugin keeps in     *)
(* memory (ApiClient.cpp) and among the DPAPI secrets (Settings.cpp), the  *)
(* threads that find them expired and rotate them without a lock, the      *)
(* sign-in dialog with its browser detour (Dialogs.cpp), signing out, and  *)
(* the server's devices and refresh tokens as these requests use them.     *)
(*                                                                         *)
(* Every answer with tokens brings an access and a refresh token; both are *)
(* named by the number of that answer, 0 being no token.                   *)
(***************************************************************************)
EXTENDS Naturals, FiniteSets

CONSTANTS
    Threads,      \* the threads that make requests: worker, poller, websocket
    UI,           \* the thread of the dialogs
    MaxIssues,    \* bound: answers with tokens
    MaxEvents     \* bound: signing out, restarts, revocations, answers lost and secrets
                  \* that cannot be written

ASSUME SessionAssumption ==
    UI \notin Threads /\ MaxIssues \in Nat /\ MaxEvents \in Nat

VARIABLES
    issued,    \* server: answers with tokens so far
    device,    \* server: the device each answer was given to
    valid,     \* server: refresh tokens neither used nor revoked
    revoked,   \* server: revoked devices
    expired,   \* access tokens past their time
    login,     \* server: the Google sign-in the dialog waits for
    memory,    \* accessToken_, refreshToken_
    disk,      \* the secrets access_token, refresh_token
    th,        \* what each thread is doing
    dialog,    \* the sign-in dialog
    signedOut, \* history: the last command carried out was to sign out
    mishaps,   \* history: what may cost the session, see Mishaps
    events

server == <<issued, device, valid, revoked, expired, login>>
vars == <<server, memory, disk, th, dialog, signedOut, mishaps, events>>

Issues == 1..MaxIssues
Tokens == [access : 0..MaxIssues, refresh : 0..MaxIssues]
NoTokens == [access |-> 0, refresh |-> 0]

\* pc: sent (a request is under way), lookup and rotate (POST /auth/refresh), then the
\* four assignments that install the tokens of an answer, or their absence.
Idle == [pc |-> "idle", job |-> "sync", token |-> 0, got |-> 0, again |-> FALSE]
Installing == {"access", "refresh", "saveAccess", "saveRefresh"}

\* lost: an answer that changed the server; unsaved: a secret not written or deleted;
\* crash: Notepad++ ended in between; overlap: two threads installed tokens at once;
\* refused: the logout itself met a 401, and the refresh went to another thread.
Mishaps == {"lost", "unsaved", "crash", "overlap", "refused"}

Event == events < MaxEvents /\ events' = events + 1
hasTokens == memory.refresh # 0

-----------------------------------------------------------------------------
(* The server.                                                             *)

Accepted(n) == n # 0 /\ n \notin expired /\ device[n] \notin revoked

\* Tokens for device d; used: the refresh token they replace.
Issue(d, used) ==
    /\ issued < MaxIssues
    /\ issued' = issued + 1
    /\ device' = [device EXCEPT ![issued + 1] = d]
    /\ valid' = (valid \ {used}) \cup {issued + 1}

\* Devices are numbered by the first answer given to them.
NewDevice == issued + 1

RevokeDevice(d) ==
    /\ revoked' = revoked \cup {d}
    /\ valid' = {n \in valid : device[n] # d}

-----------------------------------------------------------------------------
(* ApiClient::request and refreshAccessToken.                              *)

Goto(t, pc) == th' = [th EXCEPT ![t].pc = pc]

\* Another thread is installing tokens when t begins to.
Overlap(t) ==
    IF \E s \in (Threads \cup {UI}) \ {t} : th[s].pc \in Installing THEN {"overlap"} ELSE {}

Install(t, n) == th' = [th EXCEPT ![t].pc = "access", ![t].got = n, ![t].token = 0]

\* The request returns.  logout() clears the tokens whatever the answer was.
Return(t) ==
    IF th[t].job = "logout"
    THEN /\ Install(t, 0)
         /\ mishaps' = mishaps \cup Overlap(t) \cup
               IF th[t].pc = "sent" /\ Accepted(th[t].token) THEN {} ELSE {"refused"}
    ELSE th' = [th EXCEPT ![t] = Idle] /\ UNCHANGED mishaps

Request(t) ==
    /\ th[t].pc = "idle" /\ hasTokens
    /\ th' = [th EXCEPT ![t] = [Idle EXCEPT !.pc = "sent", !.token = memory.access]]
    /\ UNCHANGED <<server, memory, disk, dialog, signedOut, mishaps, events>>

\* Mutant: a 401 is final.
AnsweredNoRefresh(t) ==
    /\ th[t].pc = "sent"
    /\ Return(t)
    /\ IF Accepted(th[t].token) /\ th[t].job = "logout" THEN RevokeDevice(device[th[t].token])
       ELSE UNCHANGED <<revoked, valid>>
    /\ UNCHANGED <<issued, device, expired, login, memory, disk, dialog, signedOut, events>>

\* Mutant: the server takes the logout and keeps the device.
AnsweredNoRevoke(t) ==
    /\ th[t].pc = "sent"
    /\ IF ~Accepted(th[t].token) /\ ~th[t].again /\ hasTokens
       THEN /\ th' = [th EXCEPT ![t].pc = "lookup", ![t].token = memory.refresh]
            /\ UNCHANGED mishaps
       ELSE Return(t)
    /\ UNCHANGED <<server, memory, disk, dialog, signedOut, events>>

\* A single retry on 401, if there is a refresh token.
Answered(t) ==
    /\ th[t].pc = "sent"
    /\ IF ~Accepted(th[t].token) /\ ~th[t].again /\ hasTokens
       THEN /\ th' = [th EXCEPT ![t].pc = "lookup", ![t].token = memory.refresh]
            /\ UNCHANGED mishaps
       ELSE Return(t)
    /\ IF Accepted(th[t].token) /\ th[t].job = "logout" THEN RevokeDevice(device[th[t].token])
       ELSE UNCHANGED <<revoked, valid>>
    /\ UNCHANGED <<issued, device, expired, login, memory, disk, dialog, signedOut, events>>

\* The transport fails.  A logout that is not carried out leaves the device active.
RequestLost(t) ==
    /\ th[t].pc \in {"sent", "lookup"} /\ Event
    /\ IF th[t].job = "logout" THEN Install(t, 0) ELSE th' = [th EXCEPT ![t] = Idle]
    /\ mishaps' = mishaps \cup {"lost"}
    /\ UNCHANGED <<server, memory, disk, dialog, signedOut>>

\* handleRefresh: the token is looked up ...
Lookup(t) ==
    /\ th[t].pc = "lookup"
    /\ IF th[t].token \in valid /\ device[th[t].token] \notin revoked
       THEN Goto(t, "rotate") /\ UNCHANGED mishaps
       ELSE Return(t)
    /\ UNCHANGED <<server, memory, disk, dialog, signedOut, events>>

\* Mutant: mem.go's RotateRefreshToken does not ask whether the token is still good.
RotateRefreshTokenUnchecked(t) ==
    /\ th[t].pc = "rotate"
    /\ Issue(device[th[t].token], th[t].token)
    /\ Install(t, issued + 1) /\ mishaps' = mishaps \cup Overlap(t)
    /\ UNCHANGED <<revoked, expired, login, memory, disk, dialog, signedOut, events>>

\* ... and replaced if it is still good.
RotateRefreshToken(t) ==
    /\ th[t].pc = "rotate"
    /\ IF th[t].token \in valid
       THEN /\ Issue(device[th[t].token], th[t].token)
            /\ Install(t, issued + 1) /\ mishaps' = mishaps \cup Overlap(t)
       ELSE Return(t) /\ UNCHANGED <<issued, device, valid>>
    /\ UNCHANGED <<revoked, expired, login, memory, disk, dialog, signedOut, events>>

\* The old token is used up and nobody learns the new one.
RotateLost(t) ==
    /\ th[t].pc = "rotate" /\ th[t].token \in valid /\ Event
    /\ Issue(device[th[t].token], th[t].token)
    /\ IF th[t].job = "logout" THEN Install(t, 0) ELSE th' = [th EXCEPT ![t] = Idle]
    /\ mishaps' = mishaps \cup {"lost"}
    /\ UNCHANGED <<revoked, expired, login, memory, disk, dialog, signedOut>>

\* setTokens, clearTokens and refreshAccessToken: two assignments ...
SetAccess(t) ==
    /\ th[t].pc = "access"
    /\ memory' = [memory EXCEPT !.access = th[t].got]
    /\ Goto(t, "refresh")
    /\ UNCHANGED <<server, disk, dialog, signedOut, mishaps, events>>

SetRefresh(t) ==
    /\ th[t].pc = "refresh"
    /\ memory' = [memory EXCEPT !.refresh = th[t].got]
    /\ Goto(t, "saveAccess")
    /\ UNCHANGED <<server, disk, dialog, signedOut, mishaps, events>>

\* ... then onTokensRotated, acceptTokenResponse or signOut: two secrets saved or
\* deleted; that it failed is not noticed.
Saved(field, t) ==
    \/ disk' = [disk EXCEPT ![field] = th[t].got] /\ UNCHANGED <<mishaps, events>>
    \/ Event /\ mishaps' = mishaps \cup {"unsaved"} /\ UNCHANGED disk

SaveAccess(t) ==
    /\ th[t].pc = "saveAccess"
    /\ Saved("access", t)
    /\ Goto(t, "saveRefresh")
    /\ UNCHANGED <<server, memory, dialog, signedOut>>

\* Mutant: signing out forgets the tokens but leaves them among the secrets.
SaveRefreshNotDeleted(t) ==
    /\ th[t].pc = "saveRefresh"
    /\ disk' = IF th[t].got = 0 THEN memory ELSE [disk EXCEPT !.refresh = th[t].got]
    /\ th' = [th EXCEPT ![t] = Idle]
    /\ signedOut' = (th[t].job = "logout")
    /\ UNCHANGED <<server, memory, dialog, mishaps, events>>

\* Mutant: onTokensRotated saves the access token only.
SaveRefreshForgotten(t) ==
    /\ th[t].pc = "saveRefresh"
    /\ IF th[t].got = 0 \/ th[t].job = "signIn"
       THEN /\ Saved("refresh", t) /\ th' = [th EXCEPT ![t] = Idle]
            /\ signedOut' = (th[t].got = 0)
       ELSE /\ th' = [th EXCEPT ![t] = [@ EXCEPT !.pc = "sent", !.token = memory.access,
                                                 !.got = 0, !.again = TRUE]]
            /\ UNCHANGED <<disk, signedOut, mishaps, events>>
    /\ UNCHANGED <<server, memory, dialog>>

\* Then the request that met the 401 is made again, or the command is done.
SaveRefresh(t) ==
    /\ th[t].pc = "saveRefresh"
    /\ Saved("refresh", t)
    /\ IF th[t].got = 0 \/ th[t].job = "signIn"
       THEN th' = [th EXCEPT ![t] = Idle] /\ signedOut' = (th[t].got = 0)
       ELSE /\ th' = [th EXCEPT ![t] = [@ EXCEPT !.pc = "sent", !.token = memory.access,
                                                 !.got = 0, !.again = TRUE]]
            /\ UNCHANGED signedOut
    /\ UNCHANGED <<server, memory, dialog>>

-----------------------------------------------------------------------------
(* The sign-in dialog and the menu.                                        *)

\* cmdSignIn shows the dialog to someone who is not signed in.
showSignIn ==
    /\ dialog = "closed" /\ th[UI].pc = "idle" /\ ~hasTokens
    /\ dialog' = "open"
    /\ UNCHANGED <<server, memory, disk, th, signedOut, mishaps, events>>

Cancel ==
    /\ dialog # "closed" /\ th[UI].pc = "idle"
    /\ dialog' = "closed" /\ login' = "none"
    /\ UNCHANGED <<issued, device, valid, revoked, expired, memory, disk, th, signedOut,
                   mishaps, events>>

\* 200 to a sign-in: a new device, then setTokens and acceptTokenResponse.
SignedIn ==
    /\ Issue(NewDevice, 0)
    /\ dialog' = "closed"
    /\ th' = [th EXCEPT ![UI] = [Idle EXCEPT !.pc = "access", !.job = "signIn",
                                             !.got = issued + 1]]
    /\ mishaps' = mishaps \cup Overlap(UI)

SignInLost ==
    /\ Event /\ Issue(NewDevice, 0)
    /\ mishaps' = mishaps \cup {"lost"}
    /\ UNCHANGED <<th, dialog>>

\* ID_SIGNIN_OK: email and password.
signIn ==
    /\ dialog = "open" /\ th[UI].pc = "idle"
    /\ (SignedIn /\ UNCHANGED events) \/ SignInLost
    /\ UNCHANGED <<revoked, expired, login, memory, disk, signedOut>>

startGoogleSignIn ==
    /\ dialog = "open" /\ th[UI].pc = "idle"
    /\ dialog' = "waiting" /\ login' = "pending"
    /\ UNCHANGED <<issued, device, valid, revoked, expired, memory, disk, th, signedOut, mishaps,
                   events>>

\* The user, in the browser: signs in, or is refused.
Browser(outcome) ==
    /\ login = "pending"
    /\ login' = outcome
    /\ UNCHANGED <<issued, device, valid, revoked, expired, memory, disk, th, dialog, signedOut,
                   mishaps, events>>

\* The timer.  202 and a lost answer keep the dialog waiting.
pollGoogleSignIn ==
    /\ dialog = "waiting" /\ th[UI].pc = "idle"
    /\ \/ login = "ready" /\ login' = "none" /\ SignedIn /\ UNCHANGED events
       \/ login = "ready" /\ login' = "consumed" /\ SignInLost
       \/ /\ login \in {"error", "consumed"}
          /\ dialog' = "open" /\ login' = "none"
          /\ UNCHANGED <<issued, device, valid, th, mishaps, events>>
    /\ UNCHANGED <<revoked, expired, memory, disk, signedOut>>

\* kGooglePollLimitMs, or the sign-in has expired on the server.
GoogleTimeout ==
    /\ dialog = "waiting" /\ th[UI].pc = "idle"
    /\ dialog' = "open" /\ login' = "none"
    /\ UNCHANGED <<issued, device, valid, revoked, expired, memory, disk, th, signedOut, mishaps,
                   events>>

\* cmdSignOut.
signOut ==
    /\ dialog = "closed" /\ th[UI].pc = "idle" /\ Event
    /\ th' = [th EXCEPT ![UI] =
                 IF hasTokens THEN [Idle EXCEPT !.pc = "sent", !.job = "logout",
                                                !.token = memory.access]
                 ELSE [Idle EXCEPT !.pc = "saveAccess", !.job = "logout"]]
    /\ UNCHANGED <<server, memory, disk, dialog, signedOut, mishaps>>

\* Notepad++ ends at any moment and init loads the secrets, if both are there.
Restart ==
    /\ Event
    /\ memory' = IF disk.access # 0 /\ disk.refresh # 0 THEN disk ELSE NoTokens
    /\ th' = [t \in Threads \cup {UI} |-> Idle]
    /\ dialog' = "closed" /\ login' = "none"
    /\ mishaps' = mishaps \cup
          IF \E t \in DOMAIN th : th[t].pc # "idle" THEN {"crash"} ELSE {}
    /\ UNCHANGED <<issued, device, valid, revoked, expired, disk, signedOut>>

\* Manage Devices on another computer.
Revoke(d) ==
    /\ d \in {device[n] : n \in 1..issued} \ revoked /\ Event
    /\ RevokeDevice(d)
    /\ UNCHANGED <<issued, device, expired, login, memory, disk, th, dialog, signedOut, mishaps>>

\* Time, for the access tokens somebody still has.  The last of the bound do not expire.
Expire(n) ==
    /\ n \in {memory.access, disk.access} \cup {th[t].token : t \in Threads \cup {UI}}
    /\ n < MaxIssues /\ n \notin expired
    /\ expired' = expired \cup {n}
    /\ UNCHANGED <<issued, device, valid, revoked, login, memory, disk, th, dialog, signedOut,
                   mishaps, events>>

-----------------------------------------------------------------------------
Init ==
    /\ issued = 0 /\ device = [n \in Issues |-> 0] /\ valid = {} /\ revoked = {}
    /\ expired = {} /\ login = "none"
    /\ memory = NoTokens /\ disk = NoTokens
    /\ th = [t \in Threads \cup {UI} |-> Idle] /\ dialog = "closed"
    /\ signedOut = FALSE /\ mishaps = {} /\ events = 0

Steps(t) ==
    \/ Answered(t) \/ Lookup(t) \/ RotateRefreshToken(t)
    \/ SetAccess(t) \/ SetRefresh(t) \/ SaveAccess(t) \/ SaveRefresh(t)
Losses(t) == RequestLost(t) \/ RotateLost(t)
Dialogs ==
    \/ showSignIn \/ Cancel \/ signIn \/ startGoogleSignIn \/ pollGoogleSignIn \/ GoogleTimeout
    \/ signOut
World ==
    \/ Restart \/ Browser("ready") \/ Browser("error")
    \/ \E n \in Issues : Expire(n) \/ Revoke(n)

Next ==
    \/ \E t \in Threads : Request(t)
    \/ \E t \in Threads \cup {UI} : Steps(t) \/ Losses(t)
    \/ Dialogs \/ World

\* The threads loop and requests are answered; nothing is assumed of the user.
Fairness == (\A t \in Threads : WF_vars(Request(t) \/ Steps(t))) /\ WF_vars(Steps(UI))
Spec == Init /\ [][Next]_vars /\ Fairness

-----------------------------------------------------------------------------
(* Properties.                                                             *)

\* Every variable holds a value of its type.
TypeOK ==
    /\ issued \in 0..MaxIssues /\ device \in [Issues -> 0..MaxIssues]
    /\ valid \subseteq Issues /\ revoked \subseteq Issues /\ expired \subseteq Issues
    /\ memory \in Tokens /\ disk \in Tokens
    /\ th \in [Threads \cup {UI} ->
                 [pc : Installing \cup {"idle", "sent", "lookup", "rotate"},
                  job : {"sync", "signIn", "logout"}, token : 0..MaxIssues,
                  got : 0..MaxIssues, again : BOOLEAN]]
    /\ dialog \in {"closed", "open", "waiting"}
    /\ login \in {"none", "pending", "ready", "error", "consumed"}
    /\ signedOut \in BOOLEAN /\ mishaps \subseteq Mishaps

AtRest == \A t \in Threads \cup {UI} : th[t].pc = "idle"

\* However the threads' rotations interleave, the session is not lost: at rest the
\* refresh token in memory, which a single-use exchange replaces each time, is one the
\* server still takes, and the secrets are the same pair.  Only a lost answer, a failed
\* save, a crash in between or two installations at once can break it.
SessionSurvives ==
    AtRest /\ mishaps = {} /\ hasTokens /\ device[memory.refresh] \notin revoked =>
       memory.refresh \in valid /\ disk = memory

\* security-model.md:61 "rotated on every use": two threads that exchange the same token
\* at the same time get one new token between them, so that no copy of an old one
\* stays good.
OneRefreshToken == \A m, n \in valid : device[m] = device[n] => m = n

\* Once the user has signed out, the computer stays signed out, a restart included: no
\* thread that was refreshing brings the tokens back.
SignedOutStays == AtRest /\ signedOut /\ mishaps = {} => memory = NoTokens /\ disk = NoTokens

\* Signing in again and again does not fill the account with devices: what signed out,
\* or was refused, is revoked on the server (MaxDevices counts the others).
NoOrphanDevice ==
    mishaps = {} => Cardinality({device[n] : n \in 1..issued} \ revoked) <= 1

\* An expired access token is replaced: a signed-in computer gets its requests through
\* again, unless the device was revoked, the user signed out, or a mishap happened.
SessionRecovers ==
    hasTokens ~> (Accepted(memory.access) \/ ~hasTokens \/ mishaps # {} \/ revoked # {})
=============================================================================
