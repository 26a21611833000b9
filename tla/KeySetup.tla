------------------------------ MODULE KeySetup ------------------------------
(***************************************************************************)
(* Who holds the account's master key: the setup wizard that mints it on   *)
(* the first computer, the recovery wrap kept beside it, and pairing, which *)
(* carries it to another computer under a short code.  The computers keep   *)
(* the key in memory and among the DPAPI secrets (SyncEngine.cpp,           *)
(* core/KeySetup.cpp, Dialogs.cpp); the server keeps the codes              *)
(* (device_handlers.go, postgres.go).                                       *)
(*                                                                         *)
(* A master key is named by the number of the minting that made it, 0 being *)
(* no key; the recovery string made for a key has the key's number.         *)
(***************************************************************************)
EXTENDS Naturals, Sequences

CONSTANTS
    Computers,
    MaxKeys,    \* bound: keys minted
    MaxCodes,   \* bound: pairing codes requested
    MaxEvents   \* bound: restarts, signing out, cancelled dialogs, expired codes, lost
                \* answers, secrets that cannot be written, read or deleted

ASSUME KeySetupAssumption == MaxKeys \in Nat /\ MaxCodes \in Nat /\ MaxEvents \in Nat

VARIABLES
    key,       \* masterKey_ in memory
    secrets,   \* master_key, recovery_wrapped (by the key inside), recovery_key_display
    signedIn,
    ui,        \* the thread of the menu and the dialogs
    minted,    \* keys minted so far
    codes,     \* server: the table pairing_codes
    late,      \* server: polls whose caller gave up before the code was consumed
    given,     \* history: how often the key of a code was handed out
    mishaps,   \* history: see Mishaps
    events

server == <<codes, late, given>>
vars == <<key, secrets, signedIn, ui, minted, server, mishaps, events>>

Keys == 0..MaxKeys
Codes == 1..MaxCodes
Secrets == [master : Keys, wrap : Keys, display : Keys]
\* user: the computer that asked; wrapped: the key an approval put there.
Code == [user : Computers, wrapped : Keys, consumed : BOOLEAN, expired : BOOLEAN]

\* code, got: the pairing under way and the key it brought; agreed: the user accepted
\* that the key on this computer is replaced.
At(pc) == [pc |-> pc, code |-> 0, got |-> 0, agreed |-> FALSE]
Places == {"setup", "asked", "idle", "saveKey", "saveWrap", "saveDisplay",
           "wait", "consume", "install", "savePaired", "dropWrap", "dropDisplay"}

\* unsaved, undeleted, unread: a secret could not be; lost: an answer did not arrive;
\* abandoned: the server went on with a poll its caller gave up; reapproved: a code was
\* approved again; cancelled, expired, crash: the pairing or the setup was cut short.
Mishaps == {"unsaved", "undeleted", "unread", "lost", "abandoned", "reapproved",
            "cancelled", "expired", "crash"}

Event == events < MaxEvents /\ events' = events + 1
Mishap(m) == Event /\ mishaps' = mishaps \cup {m}
Quiet == UNCHANGED <<mishaps, events>>
Goto(d, pc) == ui' = [ui EXCEPT ![d].pc = pc]
Done(d) == ui' = [ui EXCEPT ![d] = At("idle")]
hasMasterKey(d) == key[d] # 0

-----------------------------------------------------------------------------
(* First-run setup.                                                        *)

\* startEngine shows the wizard to someone who is not signed in; without it, or after
\* it was declined, signing in is in the menu.
SignIn(d) ==
    /\ ui[d].pc \in {"setup", "idle"} /\ ~signedIn[d]
    /\ signedIn' = [signedIn EXCEPT ![d] = TRUE]
    /\ IF ui[d].pc = "setup" /\ ~hasMasterKey(d) THEN Goto(d, "asked") ELSE Done(d)
    /\ UNCHANGED <<key, secrets, minted, server, mishaps, events>>

\* The wizard, or its question about another computer, is declined.
Decline(d) ==
    /\ ui[d].pc \in {"setup", "asked"}
    /\ Done(d)
    /\ UNCHANGED <<key, secrets, signedIn, minted, server, mishaps, events>>

\* Mutant: whoever calls this the first computer gets a new key.
applyWizardKeyStepAlways(d) ==
    /\ ui[d].pc \in {"asked", "idle"} /\ minted < MaxKeys
    /\ minted' = minted + 1
    /\ key' = [key EXCEPT ![d] = minted + 1]
    /\ Goto(d, "saveKey")
    /\ UNCHANGED <<secrets, signedIn, server, mishaps, events>>

\* "No - this is the first computer."  A key that is present is kept.
applyWizardKeyStep(d) ==
    /\ ui[d].pc = "asked" /\ ~hasMasterKey(d) /\ minted < MaxKeys
    /\ minted' = minted + 1
    /\ key' = [key EXCEPT ![d] = minted + 1]
    /\ Goto(d, "saveKey")
    /\ UNCHANGED <<secrets, signedIn, server, mishaps, events>>

\* saveSecret(name, value): what follows depends on the caller.
Written(d, name, n) == secrets' = [secrets EXCEPT ![d][name] = n]

\* finishFirstRunKeys: a key that cannot be saved is given up.
SaveMinted(d) ==
    /\ ui[d].pc = "saveKey"
    /\ \/ Written(d, "master", key[d]) /\ Goto(d, "saveWrap") /\ Quiet /\ UNCHANGED key
       \/ Mishap("unsaved") /\ key' = [key EXCEPT ![d] = 0] /\ Done(d) /\ UNCHANGED secrets
    /\ UNCHANGED <<signedIn, minted, server>>

\* writeLocalRecoveryWrap, whose result is ignored: the wrap, then the string to show.
SaveWrap(d) ==
    /\ ui[d].pc = "saveWrap"
    /\ \/ Written(d, "wrap", key[d]) /\ Goto(d, "saveDisplay") /\ Quiet
       \/ Mishap("unsaved") /\ Done(d) /\ UNCHANGED secrets
    /\ UNCHANGED <<key, signedIn, minted, server>>

SaveDisplay(d) ==
    /\ ui[d].pc = "saveDisplay"
    /\ \/ Written(d, "display", key[d]) /\ Quiet
       \/ Mishap("unsaved") /\ UNCHANGED secrets
    /\ Done(d)
    /\ UNCHANGED <<key, signedIn, minted, server>>

-----------------------------------------------------------------------------
(* Get my notes, on the computer that wants the key.                       *)

NewCode(d) ==
    /\ Len(codes) < MaxCodes
    /\ codes' = Append(codes, [user |-> d, wrapped |-> 0, consumed |-> FALSE, expired |-> FALSE])

\* The wizard's "Yes" or the menu.  A computer with a key asks before it goes on.
getMyNotes(d) ==
    /\ ui[d].pc \in {"asked", "idle"} /\ signedIn[d]
    /\ NewCode(d)
    /\ \/ /\ ui' = [ui EXCEPT ![d] = [At("wait") EXCEPT !.code = Len(codes) + 1,
                                                        !.agreed = hasMasterKey(d)]]
          /\ Quiet
       \/ Mishap("lost") /\ Done(d)
    /\ UNCHANGED <<key, secrets, signedIn, minted, late, given>>

\* Mutant: a computer that has a key does not look at the answer.
PollOnlyWithoutKey(d) ==
    LET c == codes[ui[d].code] IN
    /\ ui[d].pc = "wait" /\ ~hasMasterKey(d)
    /\ \/ (c.expired \/ c.consumed) /\ Done(d)
       \/ ~c.expired /\ ~c.consumed /\ c.wrapped # 0
          /\ ui' = [ui EXCEPT ![d].pc = "consume", ![d].got = c.wrapped]
    /\ UNCHANGED <<key, secrets, signedIn, minted, server, mishaps, events>>

\* The timer of the dialog, and pairPoll up to the store's next call: 410 ends the
\* waiting, an approved code is about to be consumed.
Poll(d) ==
    LET c == codes[ui[d].code] IN
    /\ ui[d].pc = "wait"
    /\ \/ (c.expired \/ c.consumed) /\ Done(d)
       \/ ~c.expired /\ ~c.consumed /\ c.wrapped # 0
          /\ ui' = [ui EXCEPT ![d].pc = "consume", ![d].got = c.wrapped]
    /\ UNCHANGED <<key, secrets, signedIn, minted, server, mishaps, events>>

\* Mutant: the code stays good after it has been used.
ConsumePairingCodeForgotten(d) ==
    /\ ui[d].pc = "consume"
    /\ given' = [given EXCEPT ![ui[d].code] = @ + 1]
    /\ \/ Goto(d, "install") /\ Quiet
       \/ Mishap("lost") /\ ui' = [ui EXCEPT ![d].pc = "wait", ![d].got = 0]
    /\ UNCHANGED <<key, secrets, signedIn, minted, codes, late>>

\* The code is consumed and the answer sent.  It may be lost: the next poll gets 410.
ConsumePairingCode(d) ==
    /\ ui[d].pc = "consume"
    /\ codes' = [codes EXCEPT ![ui[d].code].consumed = TRUE]
    /\ given' = [given EXCEPT ![ui[d].code] = @ + 1]
    /\ \/ Goto(d, "install") /\ Quiet
       \/ Mishap("lost") /\ ui' = [ui EXCEPT ![d].pc = "wait", ![d].got = 0]
    /\ UNCHANGED <<key, secrets, signedIn, minted, late>>

\* The caller times out while the server is between its two calls ...
GiveUp(d) ==
    /\ ui[d].pc = "consume" /\ Mishap("abandoned")
    /\ late' = late \cup {ui[d].code}
    /\ ui' = [ui EXCEPT ![d].pc = "wait", ![d].got = 0]
    /\ UNCHANGED <<key, secrets, signedIn, minted, codes, given>>

\* ... which goes on.
LateConsume(c) ==
    /\ c \in late
    /\ late' = late \ {c}
    /\ codes' = [codes EXCEPT ![c].consumed = TRUE]
    /\ given' = [given EXCEPT ![c] = @ + 1]
    /\ UNCHANGED <<key, secrets, signedIn, ui, minted, mishaps, events>>

\* completePairing: installWrappedMasterKey opens the answer, the key replaces the one in
\* memory, is saved or given up, and the recovery wrap of the earlier key is dropped.
Install(d) ==
    /\ ui[d].pc = "install"
    /\ key' = [key EXCEPT ![d] = ui[d].got]
    /\ Goto(d, "savePaired")
    /\ UNCHANGED <<secrets, signedIn, minted, server, mishaps, events>>

SavePaired(d) ==
    /\ ui[d].pc = "savePaired"
    /\ \/ Written(d, "master", key[d]) /\ Goto(d, "dropWrap") /\ Quiet /\ UNCHANGED key
       \/ Mishap("unsaved") /\ key' = [key EXCEPT ![d] = 0] /\ Done(d) /\ UNCHANGED secrets
    /\ UNCHANGED <<signedIn, minted, server>>

Deleted(d, name) ==
    \/ Written(d, name, 0) /\ Quiet
    \/ secrets[d][name] # 0 /\ Mishap("undeleted") /\ UNCHANGED secrets

\* Mutant: only the string that is shown is dropped.
DropWrapKept(d) ==
    /\ ui[d].pc = "dropWrap"
    /\ Goto(d, "dropDisplay")
    /\ UNCHANGED <<key, secrets, signedIn, minted, server, mishaps, events>>

DropWrap(d) ==
    /\ ui[d].pc = "dropWrap"
    /\ Deleted(d, "wrap")
    /\ Goto(d, "dropDisplay")
    /\ UNCHANGED <<key, signedIn, minted, server>>

DropDisplay(d) ==
    /\ ui[d].pc = "dropDisplay"
    /\ Deleted(d, "display")
    /\ Done(d)
    /\ UNCHANGED <<key, signedIn, minted, server>>

-----------------------------------------------------------------------------
(* Allow another computer, and what cuts a pairing short.                  *)

\* approvePairing and pairApprove: not one's own code, not a used or expired one; a
\* second approval replaces the first.
ApprovePairingCode(d, c) ==
    /\ ui[d].pc = "idle" /\ signedIn[d] /\ hasMasterKey(d)
    /\ c \in DOMAIN codes /\ codes[c].user # d
    /\ ~codes[c].consumed /\ ~codes[c].expired
    /\ codes' = [codes EXCEPT ![c].wrapped = key[d]]
    /\ mishaps' = mishaps \cup IF codes[c].wrapped \in {0, key[d]} THEN {} ELSE {"reapproved"}
    /\ UNCHANGED <<key, secrets, signedIn, ui, minted, late, given, events>>

\* IDCANCEL, or kPairPollLimitMs; the code stays on the server.
Cancel(d) ==
    /\ ui[d].pc = "wait" /\ Mishap("cancelled")
    /\ Done(d)
    /\ UNCHANGED <<key, secrets, signedIn, minted, server>>

\* Time, for a code somebody waits for.
Expire(c) ==
    /\ \E d \in Computers : ui[d].pc \in {"wait", "consume"} /\ ui[d].code = c
    /\ ~codes[c].expired /\ Mishap("expired")
    /\ codes' = [codes EXCEPT ![c].expired = TRUE]
    /\ UNCHANGED <<key, secrets, signedIn, ui, minted, late, given>>

SignOut(d) ==
    /\ ui[d].pc = "idle" /\ signedIn[d] /\ Event
    /\ signedIn' = [signedIn EXCEPT ![d] = FALSE]
    /\ UNCHANGED <<key, secrets, ui, minted, server, mishaps>>

\* Notepad++ ends at any moment and init loads the key; that it cannot be read is not
\* noticed.
Restart(d) ==
    /\ Event
    /\ LET cut == IF ui[d].pc \in {"setup", "asked", "idle"} THEN {} ELSE {"crash"} IN
       \/ key' = [key EXCEPT ![d] = secrets[d].master] /\ mishaps' = mishaps \cup cut
       \/ /\ secrets[d].master # 0
          /\ key' = [key EXCEPT ![d] = 0] /\ mishaps' = mishaps \cup cut \cup {"unread"}
    /\ ui' = [ui EXCEPT ![d] = At(IF signedIn[d] THEN "idle" ELSE "setup")]
    /\ UNCHANGED <<secrets, signedIn, minted, server>>

-----------------------------------------------------------------------------
Init ==
    /\ key = [d \in Computers |-> 0]
    /\ secrets = [d \in Computers |-> [master |-> 0, wrap |-> 0, display |-> 0]]
    /\ signedIn = [d \in Computers |-> FALSE] /\ ui = [d \in Computers |-> At("setup")]
    /\ minted = 0 /\ codes = <<>> /\ late = {} /\ given = [c \in Codes |-> 0]
    /\ mishaps = {} /\ events = 0

\* What the threads do by themselves once a dialog or a command has been started.
Steps(d) ==
    \/ SaveMinted(d) \/ SaveWrap(d) \/ SaveDisplay(d)
    \/ Poll(d) \/ ConsumePairingCode(d)
    \/ Install(d) \/ SavePaired(d) \/ DropWrap(d) \/ DropDisplay(d)
Commands(d) ==
    \/ SignIn(d) \/ Decline(d) \/ applyWizardKeyStep(d) \/ getMyNotes(d) \/ Cancel(d)
    \/ SignOut(d) \/ Restart(d) \/ \E c \in Codes : ApprovePairingCode(d, c)

Next ==
    \/ \E d \in Computers : Steps(d) \/ GiveUp(d) \/ Commands(d)
    \/ \E c \in Codes : LateConsume(c) \/ Expire(c)

\* The dialog's timer fires and the server answers; nothing is assumed of the users.
Fairness == \A d \in Computers : WF_vars(Steps(d))
Spec == Init /\ [][Next]_vars /\ Fairness

-----------------------------------------------------------------------------
(* Properties.                                                             *)

\* Every variable holds a value of its type.
TypeOK ==
    /\ key \in [Computers -> Keys] /\ secrets \in [Computers -> Secrets]
    /\ signedIn \in [Computers -> BOOLEAN]
    /\ ui \in [Computers -> [pc : Places, code : 0..MaxCodes, got : Keys, agreed : BOOLEAN]]
    /\ minted \in Keys /\ codes \in Seq(Code)
    /\ late \subseteq Codes /\ mishaps \subseteq Mishaps

\* KeySetup.h:44 "A key already installed ... is never replaced": the key among the
\* secrets changes only if the user agreed to it in Get my notes.  A key that was not
\* read at the start, or was given up because it could not be saved, counts as none
\* there and is replaced without a question.
InstalledKeyKept ==
    [][\A d \in Computers :
          secrets[d].master # 0 /\ secrets'[d].master # secrets[d].master =>
             ui[d].agreed \/ mishaps \cap {"unread", "unsaved"} # {}]_vars

AtRest == {"setup", "asked", "idle"}

\* Between two commands the computer works with the key it will find after a restart, and
\* the recovery string in the settings opens a wrap of that key, whatever keys were
\* minted, replaced or fetched before.
SecretsAgree ==
    \A d \in Computers :
       ui[d].pc \in AtRest /\ mishaps \cap {"unsaved", "undeleted", "unread", "crash"} = {}
          => /\ key[d] = secrets[d].master
             /\ secrets[d].display = secrets[d].wrap
             /\ secrets[d].wrap \in {0, secrets[d].master}

\* protocol-v1.md:174 "Codes expire after 5 minutes and are single-use": the key under a
\* code is handed out once, unless a poll that was given up runs beside the next one.
SingleUse == "abandoned" \notin mishaps => \A c \in Codes : given[c] <= 1

\* A computer that waits for a code another one has approved ends up with that key on
\* its disk, if nothing cuts the pairing short.
PairingFinishes ==
    \A d \in Computers : \A n \in 1..MaxKeys :
       (ui[d].pc = "wait" /\ codes[ui[d].code].wrapped = n /\ ~codes[ui[d].code].consumed)
          ~> (secrets[d].master = n \/ mishaps # {})
=============================================================================
