--------------------------- MODULE SessionProofs ---------------------------
(***************************************************************************)
(* Proofs about Session, for any number of threads and any bounds: the      *)
(* server keeps one refresh token per device; the session survives the      *)
(* rotations of any number of threads; signing out is final; and signing in *)
(* again leaves no device behind.                                           *)
(***************************************************************************)
EXTENDS Session, FiniteSetTheorems, TLAPS

Actors == Threads \cup {UI}
Places == Installing \cup {"idle", "sent", "lookup", "rotate"}
\* What a thread and the two places tokens are kept in may hold once n answers were given.
ThreadTo(n) == [pc : Places, job : {"sync", "signIn", "logout"}, token : 0..n, got : 0..n,
                again : BOOLEAN]
TokensTo(n) == [access : 0..n, refresh : 0..n]

\* The tokens that anyone knows were issued, to a device that was one by then.
ServerType ==
    /\ issued \in 0..MaxIssues /\ device \in [Issues -> 0..MaxIssues]
    /\ \A n \in 1..issued : device[n] \in 1..issued
    /\ valid \subseteq 1..issued /\ revoked \subseteq 1..issued
ClientType ==
    /\ memory \in TokensTo(issued) /\ disk \in TokensTo(issued)
    /\ th \in [Actors -> ThreadTo(issued)]
RestType ==
    /\ expired \subseteq Issues /\ dialog \in {"closed", "open", "waiting"}
    /\ login \in {"none", "pending", "ready", "error", "consumed"}
    /\ signedOut \in BOOLEAN /\ mishaps \subseteq Mishaps /\ events \in Nat

TypeInv == ServerType /\ ClientType /\ RestType

\* One refresh token per device, and none of a revoked device.
TokenInv == OneRefreshToken /\ \A n \in valid : device[n] \notin revoked

\* Only the dialogs' thread signs in and out; no tokens are installed by signing out only.
Installs(t) == th[t].pc \in Installing
JobInv ==
    /\ \A t \in Threads : th[t].job = "sync" /\ (Installs(t) => th[t].got # 0)
    /\ \/ th[UI].pc = "idle" \/ th[UI].job = "logout"
       \/ th[UI].job = "signIn" /\ Installs(UI) /\ th[UI].got # 0
    /\ dialog # "closed" => th[UI].pc = "idle"

Live == {device[n] : n \in 1..issued} \ revoked

\* While nothing that excuses it happens, one thread at a time installs tokens, and the
\* four places they are kept in agree as far as it has come ...
Alone == \A s, t \in Actors : s # t => ~(Installs(s) /\ Installs(t))
Nobody == \A t \in Actors : ~Installs(t)
Halfway(t) ==
    LET g == th[t].got IN
    /\ th[t].pc \in {"refresh", "saveAccess", "saveRefresh"} => memory.access = g
    /\ th[t].pc \in {"saveAccess", "saveRefresh"} => memory.refresh = g
    /\ th[t].pc = "saveRefresh" => disk.access = g
Agree ==
    /\ Nobody => memory.access = memory.refresh /\ disk = memory
    /\ \A t \in Actors : Halfway(t)

\* ... the newest refresh token is good while its device is ...
Good(n) == n # 0 /\ device[n] \notin revoked => n \in valid
Fresh ==
    /\ Nobody => Good(memory.refresh)
    /\ \A t \in Actors : Installs(t) => Good(th[t].got)

\* ... and there is a device only while the computer is signed in or about to be.
Present ==
    /\ \A a, b \in Live : a = b
    /\ memory.refresh = 0 /\ ~Installs(UI) => Live = {}
    /\ Installs(UI) /\ th[UI].got = 0 => Live = {}
    /\ \A t \in Actors : Installs(t) /\ th[t].got # 0 /\ th[t].job # "signIn" => memory.refresh # 0
    /\ dialog # "closed" => memory.refresh = 0
    /\ signedOut => memory.refresh = 0 \/ (Installs(UI) /\ th[UI].job = "signIn")

SessionInv == mishaps = {} => Alone /\ Agree /\ Fresh /\ Present

-----------------------------------------------------------------------------
(* What the steps do, in a form the proofs below share.                    *)

\* Thread t goes to pc with the given fields, the others stay.
Moves(t, pc, job, token, got) ==
    /\ th'[t].pc = pc /\ th'[t].job = job /\ th'[t].token = token /\ th'[t].got = got
    /\ \A s \in Actors \ {t} : th'[s] = th[s]

Rotates == \E n \in valid : Issue(device[n], n) /\ revoked' = revoked
Revokes == \E d \in Live : RevokeDevice(d) /\ UNCHANGED <<issued, device>>
SignsIn == Issue(NewDevice, 0) /\ revoked' = revoked
ServerStays == UNCHANGED <<issued, device, valid, revoked>>

\* What a thread may hold stays possible as more answers are given.
LEMMA ThreadGrows ==
    ASSUME NEW m \in Nat, NEW n \in Nat, m <= n
    PROVE  ThreadTo(m) \subseteq ThreadTo(n) /\ TokensTo(m) \subseteq TokensTo(n)
  BY DEF ThreadTo, TokensTo

\* A thread with nothing to do.
LEMMA IdleFields ==
    ASSUME NEW n \in Nat
    PROVE  /\ Idle \in ThreadTo(n) /\ Idle.pc = "idle" /\ Idle.job = "sync"
           /\ Idle.token = 0 /\ Idle.got = 0
  BY DEF Idle, ThreadTo, Places

\* A thread that has finished.
LEMMA MovesIdle ==
    ASSUME th \in [Actors -> ThreadTo(issued)], issued \in Nat, NEW m \in Nat, issued <= m,
           NEW t \in Actors, th' = [th EXCEPT ![t] = Idle]
    PROVE  th' \in [Actors -> ThreadTo(m)] /\ Moves(t, "idle", "sync", 0, 0)
  <1>1. th \in [Actors -> ThreadTo(m)]
    BY ThreadGrows
  <1> QED BY <1>1, IdleFields DEF Moves

\* A thread that goes on.
LEMMA MovesOn ==
    ASSUME th \in [Actors -> ThreadTo(issued)], NEW t \in Actors, NEW p \in Places, Goto(t, p)
    PROVE  /\ th' \in [Actors -> ThreadTo(issued)]
           /\ Moves(t, p, th[t].job, th[t].token, th[t].got)
  BY DEF Moves, Goto, ThreadTo

\* A thread that begins to install the tokens of answer n, or to clear them.
LEMMA MovesInstall ==
    ASSUME th \in [Actors -> ThreadTo(issued)], issued \in Nat, NEW m \in Nat, issued <= m,
           NEW t \in Actors, NEW n \in 0..m, Install(t, n)
    PROVE  th' \in [Actors -> ThreadTo(m)] /\ Moves(t, "access", th[t].job, 0, n)
  <1>1. th \in [Actors -> ThreadTo(m)] /\ th[t] \in ThreadTo(m)
    BY ThreadGrows
  <1>2. th' = [th EXCEPT ![t] = [th[t] EXCEPT !.pc = "access", !.got = n, !.token = 0]]
    BY <1>1 DEF Install
  <1> DEFINE r == [th[t] EXCEPT !.pc = "access", !.got = n, !.token = 0]
  <1>3. r.pc = "access" /\ r.got = n /\ r.token = 0 /\ r.job = th[t].job /\ r \in ThreadTo(m)
    <2>1. "access" \in Places /\ 0 \in 0..m
      BY DEF Places, Installing
    <2> QED BY <1>1, <2>1 DEF ThreadTo
  <1> HIDE DEF r
  <1>4. th' = [th EXCEPT ![t] = r]
    BY <1>2 DEF r
  <1> QED BY <1>1, <1>3, <1>4 DEF Moves

\* A thread that does something new.
LEMMA MovesTo ==
    ASSUME th \in [Actors -> ThreadTo(issued)], issued \in Nat, NEW m \in Nat, issued <= m,
           NEW t \in Actors, NEW r \in ThreadTo(m), th' = [th EXCEPT ![t] = r]
    PROVE  th' \in [Actors -> ThreadTo(m)] /\ Moves(t, r.pc, r.job, r.token, r.got)
  <1>1. th \in [Actors -> ThreadTo(m)]
    BY ThreadGrows
  <1> QED BY <1>1 DEF Moves

\* The server's state after each of the things that can happen to it.
LEMMA ServerTyped ==
    ASSUME ServerType, Rotates \/ Revokes \/ SignsIn \/ ServerStays
    PROVE  ServerType' /\ issued' \in Nat /\ issued <= issued'
  <1> USE SessionAssumption
  <1>0. /\ issued \in Nat /\ issued <= MaxIssues /\ device \in [Issues -> 0..MaxIssues]
        /\ \A n \in 1..issued : device[n] \in 1..issued
        /\ valid \subseteq 1..issued /\ revoked \subseteq 1..issued
    BY DEF ServerType
  <1>1. ASSUME NEW d \in 1..(issued + 1), NEW u, Issue(d, u), revoked' = revoked
        PROVE  ServerType' /\ issued' \in Nat /\ issued <= issued'
    <2>1. issued' = issued + 1 /\ issued + 1 \in Issues /\ d \in 0..MaxIssues
      BY <1>0, <1>1 DEF Issue, Issues
    <2>2. device' \in [Issues -> 0..MaxIssues]
      BY <1>0, <1>1, <2>1 DEF Issue
    <2>3. \A n \in 1..(issued + 1) : device'[n] \in 1..(issued + 1)
      <3> SUFFICES ASSUME NEW n \in 1..(issued + 1) PROVE device'[n] \in 1..(issued + 1)
        OBVIOUS
      <3>1. CASE n = issued + 1
        BY <1>0, <1>1, <2>1, <3>1 DEF Issue
      <3>2. CASE n # issued + 1
        BY <1>0, <1>1, <2>1, <3>2 DEF Issue, Issues
      <3> QED BY <3>1, <3>2
    <2>4. valid' \subseteq 1..(issued + 1)
      <3>1. 1..issued \subseteq 1..(issued + 1) /\ issued + 1 \in 1..(issued + 1)
        BY <1>0
      <3> QED BY <1>0, <1>1, <3>1, Zenon DEF Issue
    <2>5. revoked' \subseteq 1..(issued + 1) /\ issued + 1 \in 0..MaxIssues
      BY <1>0, <1>1, <2>1 DEF Issues
    <2> QED BY <1>0, <2>1, <2>2, <2>3, <2>4, <2>5 DEF ServerType
  <1>2. CASE Rotates
    <2>1. PICK n \in valid : Issue(device[n], n) /\ revoked' = revoked
      BY <1>2 DEF Rotates
    <2>2. device[n] \in 1..(issued + 1)
      BY <1>0
    <2> QED BY <1>1, <2>1, <2>2
  <1>3. CASE SignsIn
    BY <1>0, <1>1, <1>3 DEF SignsIn, NewDevice
  <1>4. CASE Revokes
    <2>1. PICK d \in Live : RevokeDevice(d) /\ UNCHANGED <<issued, device>>
      BY <1>4 DEF Revokes
    <2>2. d \in 1..issued
      BY <1>0 DEF Live
    <2>3. revoked' \subseteq 1..issued /\ valid' \subseteq 1..issued
      BY <1>0, <2>1, <2>2 DEF RevokeDevice
    <2> QED BY <1>0, <2>1, <2>3 DEF ServerType
  <1>5. CASE ServerStays
    BY <1>0, <1>5 DEF ServerStays, ServerType
  <1> QED BY <1>2, <1>3, <1>4, <1>5

\* The rest of the client stays as it is.
RestStays == UNCHANGED <<memory, disk, dialog, signedOut>>
Others(t) == \A s \in Actors \ {t} : th'[s] = th[s]

\* A request goes on or ends, and no tokens come of it.
Asks(t) ==
    /\ ~Installs(t) /\ th'[t].pc \in {"idle", "sent", "lookup", "rotate"} /\ Others(t)
    /\ \/ th'[t].pc = "idle" /\ th'[t].job = "sync"
       \/ th[t].pc # "idle" /\ th'[t].job = th[t].job
       \/ t \in Threads /\ th'[t].job = "sync"
       \/ t = UI /\ dialog = "closed" /\ th'[t].job = "logout"
    /\ ServerStays /\ RestStays /\ mishaps' = mishaps

\* A request fails, which is a mishap; one that was to sign out clears the tokens.
Fails(t) ==
    /\ th[t].pc \in {"sent", "lookup", "rotate"}
    /\ \/ Moves(t, "idle", "sync", 0, 0)
       \/ th[t].job = "logout" /\ Moves(t, "access", "logout", 0, 0)
    /\ ServerStays \/ Rotates
    /\ RestStays /\ mishaps' # {}

\* The server signs the computer out, and the tokens are to be cleared.
LogsOut(t) ==
    /\ th[t].pc = "sent" /\ th[t].job = "logout" /\ Moves(t, "access", "logout", 0, 0)
    /\ Revokes /\ RestStays /\ mishaps' = mishaps \cup Overlap(t)

\* The refresh token is replaced, and the new tokens are to be installed.
Rotated(t) ==
    /\ th[t].pc = "rotate" /\ Moves(t, "access", th[t].job, 0, issued')
    /\ Rotates /\ RestStays /\ mishaps' = mishaps \cup Overlap(t)

\* The end of a request, for the actions that leave the server's answer at that.
LEMMA Returns ==
    ASSUME ServerType, ClientType, NEW t \in Actors, Return(t), th[t].pc \in {"sent", "lookup", "rotate"},
           issued' = issued, RestStays
    PROVE  /\ ClientType'
           /\ \/ /\ th[t].job # "logout" /\ Moves(t, "idle", "sync", 0, 0) /\ mishaps' = mishaps
              \/ /\ th[t].job = "logout" /\ Moves(t, "access", "logout", 0, 0)
                 /\ mishaps' = mishaps \cup Overlap(t) \cup
                       IF th[t].pc = "sent" /\ Accepted(th[t].token) THEN {} ELSE {"refused"}
  <1>0. issued \in Nat /\ 0 \in 0..issued
    BY SessionAssumption DEF ServerType
  <1>1. CASE th[t].job = "logout"
    <2>1. th' \in [Actors -> ThreadTo(issued)] /\ Moves(t, "access", "logout", 0, 0)
      BY <1>0, <1>1, MovesInstall DEF ClientType, Return
    <2> QED BY <1>1, <2>1 DEF ClientType, RestStays, Return
  <1>2. CASE th[t].job # "logout"
    <2>1. th' \in [Actors -> ThreadTo(issued)] /\ Moves(t, "idle", "sync", 0, 0)
      BY <1>0, <1>2, MovesIdle DEF ClientType, Return
    <2> QED BY <1>2, <2>1 DEF ClientType, RestStays, Return
  <1> QED BY <1>1, <1>2

\* The tokens and places of a thread.
LEMMA ThreadFields ==
    ASSUME ClientType, NEW t \in Actors
    PROVE  /\ th[t].pc \in Places /\ th[t].job \in {"sync", "signIn", "logout"}
           /\ th[t].token \in 0..issued /\ th[t].got \in 0..issued /\ th[t].again \in BOOLEAN
           /\ th[t] \in ThreadTo(issued)
           /\ memory.access \in 0..issued /\ memory.refresh \in 0..issued
           /\ disk.access \in 0..issued /\ disk.refresh \in 0..issued
  <1>1. th[t] \in ThreadTo(issued)
    BY DEF ClientType
  <1>2. memory \in TokensTo(issued) /\ disk \in TokensTo(issued)
    BY DEF ClientType
  <1>3. /\ memory.access \in 0..issued /\ memory.refresh \in 0..issued
        /\ disk.access \in 0..issued /\ disk.refresh \in 0..issued
    BY <1>2 DEF TokensTo
  <1> QED BY <1>1, <1>3 DEF ThreadTo

\* A request that a thread makes.
LEMMA RequestKind ==
    ASSUME TypeInv, NEW t \in Threads, Request(t)
    PROVE  ServerType' /\ ClientType' /\ Asks(t)
  <1>0. t \in Actors /\ issued \in Nat /\ th \in [Actors -> ThreadTo(issued)]
    BY SessionAssumption DEF Actors, TypeInv, ServerType, ClientType
  <1> DEFINE r == [Idle EXCEPT !.pc = "sent", !.token = memory.access]
  <1>1. r \in ThreadTo(issued) /\ r.pc = "sent" /\ r.job = "sync"
    <2>1. memory.access \in 0..issued /\ "sent" \in Places /\ 0 \in 0..issued
      BY <1>0, ThreadFields DEF TypeInv, Places
    <2> QED BY <2>1 DEF Idle, ThreadTo
  <1>2. th' = [th EXCEPT ![t] = r]
    BY DEF Request
  <1> HIDE DEF r
  <1>3. th' \in [Actors -> ThreadTo(issued)] /\ Moves(t, "sent", "sync", r.token, r.got)
    <2>1. issued <= issued
      BY <1>0
    <2>2. th' \in [Actors -> ThreadTo(issued)] /\ Moves(t, r.pc, r.job, r.token, r.got)
      BY <1>0, <1>1, <1>2, <2>1, MovesTo
    <2> QED BY <1>1, <2>2
  <1>4. th[t].pc = "idle" /\ ServerStays /\ RestStays /\ mishaps' = mishaps
    BY DEF Request, server, ServerStays, RestStays
  <1>5. ServerType' /\ ClientType'
    BY <1>3, <1>4 DEF TypeInv, ServerType, ClientType, ServerStays, RestStays
  <1>6. Asks(t)
    BY <1>3, <1>4 DEF Asks, Moves, Others, Installs, Installing
  <1> QED BY <1>5, <1>6

\* A request is answered: a 401 is followed by the exchange of the refresh token.
LEMMA AnsweredKind ==
    ASSUME TypeInv, NEW t \in Actors, Answered(t)
    PROVE  ServerType' /\ ClientType' /\ (Asks(t) \/ Fails(t) \/ LogsOut(t))
  <1>0. issued \in Nat /\ th \in [Actors -> ThreadTo(issued)] /\ th[t].pc = "sent"
    BY SessionAssumption DEF TypeInv, ServerType, ClientType, Answered
  <1>1. RestStays /\ issued' = issued
    BY DEF Answered, RestStays
  <1>2. CASE ~Accepted(th[t].token) /\ ~th[t].again /\ hasTokens
    <2>1. th' = [th EXCEPT ![t] = [th[t] EXCEPT !.pc = "lookup", !.token = memory.refresh]]
      BY <1>0, <1>2 DEF Answered
    <2> DEFINE r == [th[t] EXCEPT !.pc = "lookup", !.token = memory.refresh]
    <2>2. r \in ThreadTo(issued) /\ r.pc = "lookup" /\ r.job = th[t].job
      <3>1. memory.refresh \in 0..issued /\ "lookup" \in Places /\ th[t] \in ThreadTo(issued)
        BY ThreadFields DEF TypeInv, Places
      <3> QED BY <3>1 DEF ThreadTo
    <2>3. th' = [th EXCEPT ![t] = r]
      BY <2>1
    <2> HIDE DEF r
    <2>4. th' \in [Actors -> ThreadTo(issued)] /\ Moves(t, "lookup", th[t].job, r.token, r.got)
      <3>1. issued <= issued
        BY <1>0
      <3>2. th' \in [Actors -> ThreadTo(issued)] /\ Moves(t, r.pc, r.job, r.token, r.got)
        BY <1>0, <2>2, <2>3, <3>1, MovesTo
      <3> QED BY <2>2, <3>2
    <2>5. ServerStays /\ mishaps' = mishaps
      BY <1>2 DEF Answered, ServerStays
    <2>6. ServerType' /\ ClientType'
      BY <1>1, <2>4, <2>5 DEF TypeInv, ServerType, ClientType, ServerStays, RestStays
    <2>7. Asks(t)
      BY <1>0, <1>1, <2>4, <2>5 DEF Asks, Moves, Others, Installs, Installing
    <2> QED BY <2>6, <2>7
  <1>3. CASE ~(~Accepted(th[t].token) /\ ~th[t].again /\ hasTokens)
    <2>1. Return(t)
      BY <1>3 DEF Answered
    <2>2. /\ ClientType'
          /\ \/ /\ th[t].job # "logout" /\ Moves(t, "idle", "sync", 0, 0) /\ mishaps' = mishaps
             \/ /\ th[t].job = "logout" /\ Moves(t, "access", "logout", 0, 0)
                /\ mishaps' = mishaps \cup Overlap(t) \cup
                      IF Accepted(th[t].token) THEN {} ELSE {"refused"}
      BY <1>0, <1>1, <2>1, Returns DEF TypeInv
    <2>3. CASE th[t].job # "logout"
      <3>1. ServerStays
        BY <2>3 DEF Answered, ServerStays
      <3>2. Asks(t)
        BY <1>0, <1>1, <2>2, <2>3, <3>1 DEF Asks, Moves, Others, Installs, Installing
      <3> QED BY <2>2, <3>1, <3>2, ServerTyped DEF TypeInv
    <2>4. CASE th[t].job = "logout" /\ ~Accepted(th[t].token)
      <3>1. ServerStays
        BY <2>4 DEF Answered, ServerStays
      <3>2. Fails(t)
        BY <1>0, <1>1, <2>2, <2>4, <3>1 DEF Fails
      <3> QED BY <2>2, <3>1, <3>2, ServerTyped DEF TypeInv
    <2>5. CASE th[t].job = "logout" /\ Accepted(th[t].token)
      <3>1. device[th[t].token] \in Live
        <4>1. th[t].token \in 1..issued
          BY <1>0, <2>5, ThreadFields DEF TypeInv, Accepted
        <4> QED BY <2>5, <4>1 DEF Accepted, Live
      <3>2. Revokes
        BY <2>5, <3>1 DEF Answered, Revokes
      <3>3. mishaps' = mishaps \cup Overlap(t)
        BY <2>2, <2>5
      <3>4. LogsOut(t)
        BY <1>0, <1>1, <2>2, <2>5, <3>2, <3>3 DEF LogsOut
      <3> QED BY <2>2, <3>2, <3>4, ServerTyped DEF TypeInv
    <2> QED BY <2>3, <2>4, <2>5
  <1> QED BY <1>2, <1>3

\* The exchange of the refresh token, and the answers that are lost.
LEMMA RefreshKind ==
    ASSUME TypeInv, NEW t \in Actors,
           Lookup(t) \/ RotateRefreshToken(t) \/ RequestLost(t) \/ RotateLost(t)
    PROVE  ServerType' /\ ClientType' /\ (Asks(t) \/ Fails(t) \/ Rotated(t))
  <1>0. /\ issued \in Nat /\ 0 \in 0..issued /\ th \in [Actors -> ThreadTo(issued)]
        /\ valid \subseteq 1..issued /\ issued <= issued
    BY SessionAssumption DEF TypeInv, ServerType, ClientType
  <1>1. RestStays /\ th[t].pc \in {"sent", "lookup", "rotate"}
    BY DEF Lookup, RotateRefreshToken, RequestLost, RotateLost, RestStays
  <1>2. ASSUME Return(t), ServerStays, th[t].pc # "sent"
        PROVE  ServerType' /\ ClientType' /\ (Asks(t) \/ Fails(t))
    <2>1. /\ ClientType'
          /\ \/ /\ th[t].job # "logout" /\ Moves(t, "idle", "sync", 0, 0) /\ mishaps' = mishaps
             \/ /\ th[t].job = "logout" /\ Moves(t, "access", "logout", 0, 0)
                /\ mishaps' = mishaps \cup Overlap(t) \cup {"refused"}
      BY <1>1, <1>2, Returns DEF TypeInv, ServerStays
    <2>2. CASE th[t].job # "logout"
      BY <1>1, <1>2, <2>1, <2>2, ServerTyped
         DEF TypeInv, Asks, Moves, Others, Installs, Installing
    <2>3. CASE th[t].job = "logout"
      BY <1>1, <1>2, <2>1, <2>3, ServerTyped DEF TypeInv, Fails
    <2> QED BY <2>2, <2>3
  <1>3. CASE Lookup(t)
    <2>1. ServerStays /\ th[t].pc = "lookup"
      BY <1>3 DEF Lookup, server, ServerStays
    <2>2. CASE Goto(t, "rotate") /\ mishaps' = mishaps
      <3>1. /\ th' \in [Actors -> ThreadTo(issued)]
            /\ Moves(t, "rotate", th[t].job, th[t].token, th[t].got)
        BY <1>0, <2>2, MovesOn DEF Places
      <3>2. ServerType' /\ ClientType'
        BY <1>1, <2>1, <3>1 DEF TypeInv, ServerType, ClientType, ServerStays, RestStays
      <3>3. Asks(t)
        BY <1>1, <2>1, <2>2, <3>1 DEF Asks, Moves, Others, Installs, Installing
      <3> QED BY <3>2, <3>3
    <2>3. CASE Return(t)
      BY <1>2, <2>1, <2>3
    <2> QED BY <1>3, <2>2, <2>3 DEF Lookup
  <1>4. CASE RotateRefreshToken(t)
    <2>0. th[t].pc = "rotate" /\ revoked' = revoked
      BY <1>4 DEF RotateRefreshToken
    <2>1. CASE th[t].token \in valid
      <3>1. /\ Issue(device[th[t].token], th[t].token) /\ Install(t, issued + 1)
            /\ mishaps' = mishaps \cup Overlap(t)
        BY <1>4, <2>1 DEF RotateRefreshToken
      <3>2. Rotates /\ issued' = issued + 1
        BY <2>0, <2>1, <3>1 DEF Rotates, Issue
      <3>3. ServerType' /\ issued + 1 \in Nat /\ issued <= issued + 1 /\ issued + 1 \in 0..(issued + 1)
        BY <1>0, <3>2, ServerTyped DEF TypeInv
      <3>4. /\ th' \in [Actors -> ThreadTo(issued + 1)]
            /\ Moves(t, "access", th[t].job, 0, issued + 1)
        BY <1>0, <3>1, <3>3, MovesInstall
      <3>5. ClientType'
        BY <1>0, <1>1, <3>2, <3>3, <3>4, ThreadGrows DEF TypeInv, ClientType, RestStays
      <3>6. Rotated(t)
        BY <1>1, <2>0, <3>1, <3>2, <3>4 DEF Rotated
      <3> QED BY <3>3, <3>5, <3>6
    <2>2. CASE th[t].token \notin valid
      <3>1. Return(t) /\ ServerStays
        BY <1>4, <2>2 DEF RotateRefreshToken, ServerStays
      <3> QED BY <1>2, <2>0, <3>1
    <2> QED BY <2>1, <2>2
  <1>5. CASE RequestLost(t) \/ RotateLost(t)
    <2>1. "lost" \in mishaps'
      BY <1>5 DEF RequestLost, RotateLost
    <2>2. ServerStays \/ Rotates
      BY <1>5 DEF RequestLost, RotateLost, server, ServerStays, Rotates
    <2>3. ServerType' /\ issued' \in Nat /\ issued <= issued' /\ 0 \in 0..issued'
      BY <1>0, <2>2, ServerTyped DEF TypeInv
    <2>4. /\ th' \in [Actors -> ThreadTo(issued')]
          /\ \/ Moves(t, "idle", "sync", 0, 0)
             \/ th[t].job = "logout" /\ Moves(t, "access", "logout", 0, 0)
      <3>1. CASE th[t].job = "logout"
        <4>1. Install(t, 0)
          BY <1>5, <3>1 DEF RequestLost, RotateLost
        <4> QED BY <1>0, <2>3, <3>1, <4>1, MovesInstall
      <3>2. CASE th[t].job # "logout"
        <4>1. th' = [th EXCEPT ![t] = Idle]
          BY <1>5, <3>2 DEF RequestLost, RotateLost
        <4> QED BY <1>0, <2>3, <4>1, MovesIdle
      <3> QED BY <3>1, <3>2
    <2>5. ClientType'
      BY <1>0, <1>1, <2>3, <2>4, ThreadGrows DEF TypeInv, ClientType, RestStays
    <2>6. Fails(t)
      BY <1>1, <2>1, <2>2, <2>4 DEF Fails
    <2> QED BY <2>3, <2>5, <2>6
  <1> QED BY <1>3, <1>4, <1>5

\* The four assignments that install tokens, and where the thread goes on.
WritesAccess(t) ==
    /\ th[t].pc = "access" /\ Moves(t, "refresh", th[t].job, th[t].token, th[t].got)
    /\ memory'.access = th[t].got /\ memory'.refresh = memory.refresh
    /\ UNCHANGED <<disk, signedOut, mishaps>>
WritesRefresh(t) ==
    /\ th[t].pc = "refresh" /\ Moves(t, "saveAccess", th[t].job, th[t].token, th[t].got)
    /\ memory'.access = memory.access /\ memory'.refresh = th[t].got
    /\ UNCHANGED <<disk, signedOut, mishaps>>
WritesAccessSecret(t) ==
    /\ th[t].pc = "saveAccess" /\ Moves(t, "saveRefresh", th[t].job, th[t].token, th[t].got)
    /\ \/ /\ disk'.access = th[t].got /\ disk'.refresh = disk.refresh /\ mishaps' = mishaps
       \/ mishaps' # {}
    /\ UNCHANGED <<memory, signedOut>>
WritesRefreshSecret(t) ==
    /\ th[t].pc = "saveRefresh"
    /\ \/ /\ disk'.access = disk.access /\ disk'.refresh = th[t].got /\ mishaps' = mishaps
       \/ mishaps' # {}
    /\ \/ /\ th[t].got = 0 \/ th[t].job = "signIn"
          /\ Moves(t, "idle", "sync", 0, 0) /\ (signedOut' => th[t].got = 0)
       \/ /\ th[t].got # 0 /\ th[t].job # "signIn"
          /\ Moves(t, "sent", th[t].job, memory.access, 0) /\ signedOut' = signedOut
    /\ memory' = memory
Writes(t) ==
    /\ WritesAccess(t) \/ WritesRefresh(t) \/ WritesAccessSecret(t) \/ WritesRefreshSecret(t)
    /\ ServerStays /\ dialog' = dialog

\* Saving a secret, and what is left if that fails.
LEMMA SavedKind ==
    ASSUME TypeInv, NEW t \in Actors, NEW f \in {"access", "refresh"}, Saved(f, t)
    PROVE  /\ disk' \in TokensTo(issued)
           /\ \/ /\ disk' = [disk EXCEPT ![f] = th[t].got] /\ mishaps' = mishaps
              \/ mishaps' # {}
  <1>1. issued \in Nat /\ disk \in TokensTo(issued) /\ th[t].got \in 0..issued
    BY SessionAssumption, ThreadFields DEF TypeInv, ServerType, ClientType
  <1>2. CASE disk' = [disk EXCEPT ![f] = th[t].got] /\ mishaps' = mishaps
    <2>1. CASE f = "access"
      BY <1>1, <1>2, <2>1 DEF TokensTo
    <2>2. CASE f = "refresh"
      BY <1>1, <1>2, <2>2 DEF TokensTo
    <2> QED BY <1>2, <2>1, <2>2
  <1>3. CASE mishaps' = mishaps \cup {"unsaved"} /\ disk' = disk
    BY <1>1, <1>3
  <1> QED BY <1>2, <1>3 DEF Saved

\* The installation of tokens, step by step.
LEMMA InstallKind ==
    ASSUME TypeInv, NEW t \in Actors,
           SetAccess(t) \/ SetRefresh(t) \/ SaveAccess(t) \/ SaveRefresh(t)
    PROVE  ServerType' /\ ClientType' /\ Writes(t)
  <1>0. /\ issued \in Nat /\ th \in [Actors -> ThreadTo(issued)] /\ issued <= issued
        /\ memory \in TokensTo(issued) /\ disk \in TokensTo(issued)
        /\ th[t].got \in 0..issued /\ memory.access \in 0..issued /\ 0 \in 0..issued
        /\ th[t] \in ThreadTo(issued)
    BY SessionAssumption, ThreadFields DEF TypeInv, ServerType, ClientType
  <1>1. ServerStays /\ dialog' = dialog
    BY DEF SetAccess, SetRefresh, SaveAccess, SaveRefresh, server, ServerStays
  <1>2. ServerType' /\ issued' = issued
    BY <1>1, ServerTyped DEF TypeInv, ServerStays
  <1>p. {"refresh", "saveAccess", "saveRefresh", "sent"} \subseteq Places
    BY DEF Places, Installing
  <1>3. CASE SetAccess(t)
    <2>1. /\ th' \in [Actors -> ThreadTo(issued)]
          /\ Moves(t, "refresh", th[t].job, th[t].token, th[t].got)
      BY <1>0, <1>3, <1>p, MovesOn DEF SetAccess
    <2>2. /\ memory' \in TokensTo(issued)
          /\ memory'.access = th[t].got /\ memory'.refresh = memory.refresh
      BY <1>0, <1>3 DEF SetAccess, TokensTo
    <2>3. th[t].pc = "access" /\ UNCHANGED <<disk, signedOut, mishaps>>
      BY <1>3 DEF SetAccess
    <2> QED BY <1>0, <1>1, <1>2, <2>1, <2>2, <2>3 DEF ClientType, Writes, WritesAccess
  <1>4. CASE SetRefresh(t)
    <2>1. /\ th' \in [Actors -> ThreadTo(issued)]
          /\ Moves(t, "saveAccess", th[t].job, th[t].token, th[t].got)
      BY <1>0, <1>4, <1>p, MovesOn DEF SetRefresh
    <2>2. /\ memory' \in TokensTo(issued)
          /\ memory'.refresh = th[t].got /\ memory'.access = memory.access
      BY <1>0, <1>4 DEF SetRefresh, TokensTo
    <2>3. th[t].pc = "refresh" /\ UNCHANGED <<disk, signedOut, mishaps>>
      BY <1>4 DEF SetRefresh
    <2> QED BY <1>0, <1>1, <1>2, <2>1, <2>2, <2>3 DEF ClientType, Writes, WritesRefresh
  <1>5. CASE SaveAccess(t)
    <2>1. /\ th' \in [Actors -> ThreadTo(issued)]
          /\ Moves(t, "saveRefresh", th[t].job, th[t].token, th[t].got)
      BY <1>0, <1>5, <1>p, MovesOn DEF SaveAccess
    <2>2. /\ disk' \in TokensTo(issued)
          /\ \/ /\ disk'.access = th[t].got /\ disk'.refresh = disk.refresh
                /\ mishaps' = mishaps
             \/ mishaps' # {}
      <3>1. /\ disk' \in TokensTo(issued)
            /\ \/ disk' = [disk EXCEPT !.access = th[t].got] /\ mishaps' = mishaps
               \/ mishaps' # {}
        BY <1>5, SavedKind DEF SaveAccess
      <3> QED BY <1>0, <3>1 DEF TokensTo
    <2>3. th[t].pc = "saveAccess" /\ UNCHANGED <<memory, signedOut>>
      BY <1>5 DEF SaveAccess
    <2> QED BY <1>0, <1>1, <1>2, <2>1, <2>2, <2>3 DEF ClientType, Writes, WritesAccessSecret
  <1>6. CASE SaveRefresh(t)
    <2>1. /\ disk' \in TokensTo(issued)
          /\ \/ /\ disk'.access = disk.access /\ disk'.refresh = th[t].got
                /\ mishaps' = mishaps
             \/ mishaps' # {}
      <3>1. /\ disk' \in TokensTo(issued)
            /\ \/ disk' = [disk EXCEPT !.refresh = th[t].got] /\ mishaps' = mishaps
               \/ mishaps' # {}
        BY <1>6, SavedKind DEF SaveRefresh
      <3> QED BY <1>0, <3>1 DEF TokensTo
    <2>2. th[t].pc = "saveRefresh" /\ memory' = memory
      BY <1>6 DEF SaveRefresh
    <2>3. CASE th[t].got = 0 \/ th[t].job = "signIn"
      <3>1. th' = [th EXCEPT ![t] = Idle] /\ (signedOut' => th[t].got = 0)
        BY <1>6, <2>3 DEF SaveRefresh
      <3>2. th' \in [Actors -> ThreadTo(issued)] /\ Moves(t, "idle", "sync", 0, 0)
        BY <1>0, <3>1, MovesIdle
      <3> QED BY <1>0, <1>1, <1>2, <2>1, <2>2, <2>3, <3>1, <3>2
              DEF ClientType, Writes, WritesRefreshSecret
    <2>4. CASE ~(th[t].got = 0 \/ th[t].job = "signIn")
      <3> DEFINE r == [th[t] EXCEPT !.pc = "sent", !.token = memory.access, !.got = 0,
                                    !.again = TRUE]
      <3>1. th' = [th EXCEPT ![t] = r] /\ signedOut' = signedOut
        BY <1>6, <2>4 DEF SaveRefresh
      <3>2. /\ r \in ThreadTo(issued) /\ r.pc = "sent" /\ r.job = th[t].job
            /\ r.token = memory.access /\ r.got = 0
        <4>1. "sent" \in Places
          BY <1>p
        <4> QED BY <1>0, <4>1 DEF ThreadTo
      <3> HIDE DEF r
      <3>3. th' \in [Actors -> ThreadTo(issued)] /\ Moves(t, r.pc, r.job, r.token, r.got)
        BY <1>0, <3>1, <3>2, MovesTo
      <3> QED BY <1>0, <1>1, <1>2, <2>1, <2>2, <2>4, <3>1, <3>2, <3>3
              DEF ClientType, Writes, WritesRefreshSecret
    <2> QED BY <2>3, <2>4
  <1> QED BY <1>3, <1>4, <1>5, <1>6

\* The dialog opens or closes, the browser answers, time passes.
Shows ==
    /\ th' = th /\ ServerStays /\ UNCHANGED <<memory, disk, signedOut, mishaps>>
    /\ \/ dialog' = dialog \/ dialog' = "closed"
       \/ th[UI].pc = "idle" /\ (memory.refresh = 0 \/ dialog # "closed")

\* A sign-in succeeds and its tokens are to be installed, or its answer is lost.
SignInAnswered ==
    /\ th[UI].pc = "idle" /\ dialog # "closed" /\ dialog' = "closed"
    /\ SignsIn /\ Moves(UI, "access", "signIn", 0, issued')
    /\ UNCHANGED <<memory, disk, signedOut>> /\ mishaps' = mishaps \cup Overlap(UI)
SignInUnanswered == SignsIn /\ th' = th /\ RestStays /\ mishaps' # {}

\* Signing out without tokens: the secrets are deleted all the same.
Clears ==
    /\ th[UI].pc = "idle" /\ dialog = "closed" /\ memory.refresh = 0
    /\ Moves(UI, "saveAccess", "logout", 0, 0)
    /\ ServerStays /\ RestStays /\ mishaps' = mishaps

Restarts ==
    /\ memory' = IF disk.access # 0 /\ disk.refresh # 0 THEN disk ELSE NoTokens
    /\ \A t \in Actors : th'[t].pc = "idle" /\ th'[t].job = "sync" /\ th'[t].got = 0
    /\ mishaps' # {} \/ (mishaps' = mishaps /\ \A t \in Actors : th[t].pc = "idle")
    /\ dialog' = "closed" /\ ServerStays /\ UNCHANGED <<disk, signedOut>>

RevokedElsewhere == Revokes /\ th' = th /\ RestStays /\ mishaps' = mishaps

\* What the dialogs do.
LEMMA DialogKind ==
    ASSUME TypeInv, Dialogs
    PROVE  /\ ServerType' /\ ClientType'
           /\ Shows \/ SignInAnswered \/ SignInUnanswered \/ Clears \/ Asks(UI)
  <1>0. /\ issued \in Nat /\ th \in [Actors -> ThreadTo(issued)] /\ issued <= issued
        /\ UI \in Actors /\ memory.access \in 0..issued /\ 0 \in 0..issued
    BY SessionAssumption, ThreadFields DEF TypeInv, ServerType, ClientType, Actors
  <1>1. ASSUME th' = th, UNCHANGED <<issued, device, valid, revoked, memory, disk>>
        PROVE  ServerType' /\ ClientType'
    BY <1>1 DEF TypeInv, ServerType, ClientType
  <1>2. CASE showSignIn \/ Cancel \/ startGoogleSignIn \/ GoogleTimeout
    <2>1. th' = th /\ UNCHANGED <<issued, device, valid, revoked, memory, disk>>
      BY <1>2 DEF showSignIn, Cancel, startGoogleSignIn, GoogleTimeout, server
    <2>2. Shows
      BY <1>2, <2>1 DEF Shows, ServerStays, showSignIn, Cancel, startGoogleSignIn, GoogleTimeout,
         hasTokens
    <2> QED BY <1>1, <2>1, <2>2
  <1>3. ASSUME SignedIn, revoked' = revoked, UNCHANGED <<memory, disk, signedOut>>,
               th[UI].pc = "idle", dialog # "closed"
        PROVE  ServerType' /\ ClientType' /\ SignInAnswered
    <2>1. SignsIn /\ issued' = issued + 1
      BY <1>3 DEF SignedIn, SignsIn, Issue
    <2>2. ServerType' /\ issued + 1 \in Nat /\ issued <= issued + 1
      BY <1>0, <2>1, ServerTyped DEF TypeInv
    <2> DEFINE r == [Idle EXCEPT !.pc = "access", !.job = "signIn", !.got = issued + 1]
    <2>3. /\ r \in ThreadTo(issued + 1) /\ r.pc = "access" /\ r.job = "signIn"
          /\ r.token = 0 /\ r.got = issued + 1
      <3>1. "access" \in Places /\ 0 \in 0..(issued + 1) /\ issued + 1 \in 0..(issued + 1)
        BY <1>0 DEF Places, Installing
      <3> QED BY <3>1 DEF Idle, ThreadTo
    <2>4. th' = [th EXCEPT ![UI] = r]
      BY <1>3 DEF SignedIn
    <2> HIDE DEF r
    <2>5. th' \in [Actors -> ThreadTo(issued + 1)] /\ Moves(UI, r.pc, r.job, r.token, r.got)
      BY <1>0, <2>2, <2>3, <2>4, MovesTo
    <2>6. ClientType'
      BY <1>0, <1>3, <2>1, <2>2, <2>5, ThreadGrows DEF TypeInv, ClientType
    <2>7. SignInAnswered
      BY <1>3, <2>1, <2>3, <2>5 DEF SignInAnswered, SignedIn
    <2> QED BY <2>2, <2>6, <2>7
  <1>4. ASSUME SignInLost, revoked' = revoked, UNCHANGED <<memory, disk, signedOut>>
        PROVE  ServerType' /\ ClientType' /\ SignInUnanswered
    <2>1. SignsIn /\ th' = th /\ RestStays /\ mishaps' # {}
      BY <1>4 DEF SignInLost, SignsIn, RestStays
    <2>2. ServerType' /\ issued' \in Nat /\ issued <= issued'
      BY <2>1, ServerTyped DEF TypeInv
    <2>3. ClientType'
      BY <1>0, <2>1, <2>2, ThreadGrows DEF TypeInv, ClientType, RestStays
    <2> QED BY <2>1, <2>2, <2>3 DEF SignInUnanswered
  <1>5. CASE signIn
    BY <1>3, <1>4, <1>5 DEF signIn
  <1>6. CASE pollGoogleSignIn
    <2>1. /\ revoked' = revoked /\ UNCHANGED <<memory, disk, signedOut>>
          /\ th[UI].pc = "idle" /\ dialog # "closed"
      BY <1>6 DEF pollGoogleSignIn
    <2>2. CASE SignedIn \/ SignInLost
      BY <1>3, <1>4, <2>1, <2>2
    <2>3. CASE dialog' = "open" /\ UNCHANGED <<issued, device, valid, th, mishaps, events>>
      BY <1>1, <2>1, <2>3 DEF Shows, ServerStays
    <2> QED BY <1>6, <2>2, <2>3 DEF pollGoogleSignIn
  <1>7. CASE signOut
    <2>0. /\ dialog = "closed" /\ th[UI].pc = "idle" /\ ServerStays /\ RestStays
          /\ mishaps' = mishaps
      BY <1>7 DEF signOut, server, ServerStays, RestStays
    <2>p. {"sent", "saveAccess"} \subseteq Places
      BY DEF Places, Installing
    <2>1. CASE hasTokens
      <3> DEFINE r == [Idle EXCEPT !.pc = "sent", !.job = "logout", !.token = memory.access]
      <3>1. r \in ThreadTo(issued) /\ r.pc = "sent" /\ r.job = "logout"
        BY <1>0, <2>p DEF Idle, ThreadTo
      <3>2. th' = [th EXCEPT ![UI] = r]
        BY <1>7, <2>1 DEF signOut
      <3> HIDE DEF r
      <3>3. th' \in [Actors -> ThreadTo(issued)] /\ Moves(UI, r.pc, r.job, r.token, r.got)
        BY <1>0, <3>1, <3>2, MovesTo
      <3>4. ServerType' /\ ClientType'
        BY <2>0, <3>3 DEF TypeInv, ServerType, ClientType, ServerStays, RestStays
      <3>5. Asks(UI)
        BY <2>0, <3>1, <3>3 DEF Asks, Moves, Others, Installs, Installing
      <3> QED BY <3>4, <3>5
    <2>2. CASE ~hasTokens
      <3> DEFINE r == [Idle EXCEPT !.pc = "saveAccess", !.job = "logout"]
      <3>1. /\ r \in ThreadTo(issued) /\ r.pc = "saveAccess" /\ r.job = "logout"
            /\ r.token = 0 /\ r.got = 0
        BY <1>0, <2>p DEF Idle, ThreadTo
      <3>2. th' = [th EXCEPT ![UI] = r]
        BY <1>7, <2>2 DEF signOut
      <3> HIDE DEF r
      <3>3. th' \in [Actors -> ThreadTo(issued)] /\ Moves(UI, r.pc, r.job, r.token, r.got)
        BY <1>0, <3>1, <3>2, MovesTo
      <3>4. ServerType' /\ ClientType'
        BY <2>0, <3>3 DEF TypeInv, ServerType, ClientType, ServerStays, RestStays
      <3>5. Clears
        BY <2>0, <2>2, <3>1, <3>3 DEF Clears, hasTokens
      <3> QED BY <3>4, <3>5
    <2> QED BY <2>1, <2>2
  <1> QED BY <1>2, <1>5, <1>6, <1>7 DEF Dialogs

\* What happens without the user of this computer.
LEMMA WorldKind ==
    ASSUME TypeInv, World
    PROVE  ServerType' /\ ClientType' /\ (Shows \/ Restarts \/ RevokedElsewhere)
  <1>0. /\ issued \in Nat /\ th \in [Actors -> ThreadTo(issued)] /\ 0 \in 0..issued
        /\ memory \in TokensTo(issued) /\ disk \in TokensTo(issued)
    BY SessionAssumption DEF TypeInv, ServerType, ClientType
  <1>1. CASE Restart
    <2>1. ServerStays /\ dialog' = "closed" /\ UNCHANGED <<disk, signedOut>>
      BY <1>1 DEF Restart, ServerStays
    <2>2. th' = [t \in Actors |-> Idle]
      BY <1>1 DEF Restart, Actors
    <2>3. /\ th' \in [Actors -> ThreadTo(issued)]
          /\ \A t \in Actors : th'[t].pc = "idle" /\ th'[t].job = "sync" /\ th'[t].got = 0
      BY <1>0, <2>2, IdleFields
    <2>4. memory' = IF disk.access # 0 /\ disk.refresh # 0 THEN disk ELSE NoTokens
      BY <1>1 DEF Restart
    <2>5. NoTokens \in TokensTo(issued)
      BY <1>0 DEF NoTokens, TokensTo
    <2>6. ServerType' /\ ClientType'
      BY <1>0, <2>1, <2>3, <2>4, <2>5 DEF TypeInv, ServerType, ClientType, ServerStays
    <2>7. mishaps' # {} \/ (mishaps' = mishaps /\ \A t \in Actors : th[t].pc = "idle")
      <3>1. CASE \E t \in DOMAIN th : th[t].pc # "idle"
        BY <1>1, <3>1 DEF Restart
      <3>2. CASE ~\E t \in DOMAIN th : th[t].pc # "idle"
        BY <1>0, <1>1, <3>2 DEF Restart
      <3> QED BY <3>1, <3>2
    <2> QED BY <2>1, <2>3, <2>4, <2>6, <2>7 DEF Restarts
  <1>2. CASE Browser("ready") \/ Browser("error") \/ \E n \in Issues : Expire(n)
    <2>1. th' = th /\ dialog' = dialog /\ ServerStays /\ UNCHANGED <<memory, disk, signedOut, mishaps>>
      BY <1>2 DEF Browser, Expire, ServerStays
    <2> QED BY <2>1 DEF Shows, TypeInv, ServerType, ClientType, ServerStays
  <1>3. ASSUME NEW d \in Issues, Revoke(d)
        PROVE  ServerType' /\ ClientType' /\ RevokedElsewhere
    <2>1. d \in Live /\ RevokeDevice(d) /\ UNCHANGED <<issued, device>>
      BY <1>3 DEF Revoke, Live
    <2>2. Revokes /\ th' = th /\ RestStays /\ mishaps' = mishaps
      BY <1>3, <2>1 DEF Revoke, Revokes, RestStays
    <2>3. ServerType'
      BY <2>2, ServerTyped DEF TypeInv
    <2> QED BY <1>0, <2>1, <2>2, <2>3 DEF ClientType, RestStays, RevokedElsewhere
  <1> QED BY <1>1, <1>2, <1>3 DEF World

\* Every step is of one of these kinds.
StepKind ==
    \/ \E t \in Actors : Asks(t) \/ Fails(t) \/ LogsOut(t) \/ Rotated(t) \/ Writes(t)
    \/ Shows \/ SignInAnswered \/ SignInUnanswered \/ Clears \/ Restarts \/ RevokedElsewhere

\* The kinds are all there is, and each of them keeps the types.
LEMMA StepKinds ==
    ASSUME TypeInv, Next
    PROVE  ServerType' /\ ClientType' /\ StepKind
  <1>1. ASSUME NEW t \in Threads, Request(t) PROVE ServerType' /\ ClientType' /\ StepKind
    BY <1>1, RequestKind DEF Actors, StepKind
  <1>2. ASSUME NEW t \in Actors, Steps(t) \/ Losses(t)
        PROVE  ServerType' /\ ClientType' /\ StepKind
    BY <1>2, AnsweredKind, RefreshKind, InstallKind DEF Steps, Losses, StepKind
  <1>3. CASE Dialogs
    <2>1. UI \in Actors
      BY DEF Actors
    <2> QED BY <1>3, <2>1, DialogKind DEF StepKind
  <1>4. CASE World
    BY <1>4, WorldKind DEF StepKind
  <1> QED BY <1>1, <1>2, <1>3, <1>4 DEF Next, Actors

-----------------------------------------------------------------------------
(* Types.                                                                  *)

\* The first state has the types.
LEMMA TypeInvInit == Init => TypeInv
  <1> SUFFICES ASSUME Init PROVE TypeInv
    OBVIOUS
  <1> USE SessionAssumption
  <1>1. ServerType
    BY DEF Init, ServerType, Issues
  <1>2. ClientType
    <2>1. NoTokens \in TokensTo(0) /\ Idle \in ThreadTo(0)
      BY IdleFields DEF NoTokens, TokensTo
    <2> QED BY <2>1 DEF Init, ClientType, Actors
  <1>3. RestType
    BY DEF Init, RestType
  <1> QED BY <1>1, <1>2, <1>3 DEF TypeInv

\* The other variables keep theirs.
LEMMA RestTyped ==
    ASSUME RestType, Next
    PROVE  RestType'
  <1>m. /\ {"lost", "unsaved", "crash", "overlap", "refused"} \subseteq Mishaps
        /\ \A t : Overlap(t) \subseteq Mishaps
    BY DEF Mishaps, Overlap
  <1>1. ASSUME NEW t \in Actors, Return(t) PROVE mishaps' \subseteq Mishaps
    BY <1>1, <1>m DEF Return, RestType
  <1>2. ASSUME Event PROVE events' \in Nat
    BY <1>2 DEF Event, RestType
  <1>3. ASSUME NEW t \in Actors, Steps(t) \/ Losses(t) PROVE RestType'
    <2>1. CASE Answered(t)
      BY <1>1, <2>1 DEF Answered, RestType
    <2>2. CASE Lookup(t)
      BY <1>1, <2>2 DEF Lookup, RestType, server
    <2>3. CASE RotateRefreshToken(t)
      BY <1>1, <1>m, <2>3 DEF RotateRefreshToken, RestType
    <2>4. CASE SetAccess(t) \/ SetRefresh(t)
      BY <2>4 DEF SetAccess, SetRefresh, RestType, server
    <2>5. CASE SaveAccess(t)
      BY <1>2, <1>m, <2>5 DEF SaveAccess, Saved, RestType, server
    <2>6. CASE SaveRefresh(t)
      <3>1. mishaps' \subseteq Mishaps /\ events' \in Nat
        BY <1>2, <1>m, <2>6 DEF SaveRefresh, Saved, RestType
      <3>2. UNCHANGED <<expired, login, dialog>>
        BY <2>6 DEF SaveRefresh, server
      <3>3. signedOut' \in BOOLEAN
        BY <2>6, Zenon DEF SaveRefresh, RestType
      <3> QED BY <3>1, <3>2, <3>3 DEF RestType
    <2>7. CASE RequestLost(t) \/ RotateLost(t)
      BY <1>2, <1>m, <2>7 DEF RequestLost, RotateLost, RestType, server
    <2> QED BY <1>3, <2>1, <2>2, <2>3, <2>4, <2>5, <2>6, <2>7 DEF Steps, Losses
  <1>4. ASSUME NEW t \in Threads, Request(t) PROVE RestType'
    BY <1>4 DEF Request, RestType, server
  <1>5. CASE Dialogs
    <2>1. CASE showSignIn \/ Cancel \/ startGoogleSignIn \/ GoogleTimeout
      BY <2>1 DEF showSignIn, Cancel, startGoogleSignIn, GoogleTimeout, RestType, server
    <2>2. CASE signIn
      BY <1>2, <1>m, <2>2 DEF signIn, SignedIn, SignInLost, RestType
    <2>3. CASE pollGoogleSignIn
      BY <1>2, <1>m, <2>3 DEF pollGoogleSignIn, SignedIn, SignInLost, RestType
    <2>4. CASE signOut
      BY <1>2, <2>4 DEF signOut, RestType, server
    <2> QED BY <1>5, <2>1, <2>2, <2>3, <2>4 DEF Dialogs
  <1>6. CASE World
    <2>1. CASE Restart
      BY <1>2, <1>m, <2>1 DEF Restart, RestType
    <2>2. CASE Browser("ready") \/ Browser("error")
      BY <2>2 DEF Browser, RestType
    <2>3. CASE \E n \in Issues : Expire(n) \/ Revoke(n)
      BY <1>2, <2>3 DEF Expire, Revoke, RestType
    <2> QED BY <1>6, <2>1, <2>2, <2>3 DEF World
  <1> QED BY <1>3, <1>4, <1>5, <1>6 DEF Next, Actors

\* Every step keeps the types.
LEMMA TypeInvNext == TypeInv /\ [Next]_vars => TypeInv'
  <1>1. ASSUME TypeInv, Next PROVE TypeInv'
    BY <1>1, StepKinds, RestTyped DEF TypeInv
  <1>2. ASSUME TypeInv, UNCHANGED vars PROVE TypeInv'
    BY <1>2 DEF vars, server, TypeInv, ServerType, ClientType, RestType
  <1> QED BY <1>1, <1>2

\* Every variable keeps its type: whatever tokens the threads and the secrets hold were
\* issued, to a device the server knows.
THEOREM TypeCorrect == Spec => []TypeOK
  <1>1. TypeInv => TypeOK
    <2> SUFFICES ASSUME TypeInv PROVE TypeOK
      OBVIOUS
    <2>1. issued \in Nat /\ MaxIssues \in Nat /\ issued <= MaxIssues
      BY SessionAssumption DEF TypeInv, ServerType
    <2>2. valid \subseteq Issues /\ revoked \subseteq Issues
      BY <2>1 DEF TypeInv, ServerType, Issues
    <2>3. TokensTo(issued) \subseteq Tokens
      BY <2>1 DEF TokensTo, Tokens
    <2>4. th \in [Actors -> ThreadTo(MaxIssues)]
      BY <2>1, ThreadGrows DEF TypeInv, ClientType
    <2> QED BY <2>2, <2>3, <2>4
            DEF TypeInv, TypeOK, ServerType, ClientType, RestType, Actors, ThreadTo, Places
  <1> QED BY <1>1, TypeInvInit, TypeInvNext, PTL DEF Spec

-----------------------------------------------------------------------------
(* The server's tokens.                                                    *)

\* A new token goes to a new device or replaces the one token of its device, and the
\* tokens of a revoked device are gone.
LEMMA TokenStep ==
    ASSUME ServerType, TokenInv, Rotates \/ Revokes \/ SignsIn \/ ServerStays
    PROVE  TokenInv'
  <1> USE SessionAssumption
  <1>0. /\ issued \in Nat /\ issued <= MaxIssues /\ device \in [Issues -> 0..MaxIssues]
        /\ \A n \in 1..issued : device[n] \in 1..issued
        /\ valid \subseteq 1..issued /\ revoked \subseteq 1..issued
    BY DEF ServerType
  <1>1. ASSUME NEW d, NEW u, Issue(d, u), revoked' = revoked, d \notin revoked,
               \A n \in valid \ {u} : device[n] # d
        PROVE  TokenInv'
    <2>1. /\ device'[issued + 1] = d /\ valid' = (valid \ {u}) \cup {issued + 1}
          /\ \A n \in 1..issued : device'[n] = device[n]
      BY <1>0, <1>1 DEF Issue, Issues
    <2>2. \A n \in valid \ {u} : device'[n] = device[n] /\ n # issued + 1
      BY <1>0, <2>1
    <2> HIDE DEF Issue
    <2>3. ASSUME NEW m \in valid', NEW n \in valid', device'[m] = device'[n]
          PROVE  m = n
      BY <1>1, <2>1, <2>2, <2>3 DEF TokenInv, OneRefreshToken
    <2>4. ASSUME NEW n \in valid' PROVE device'[n] \notin revoked'
      BY <1>1, <2>1, <2>2 DEF TokenInv
    <2> QED BY <2>3, <2>4 DEF TokenInv, OneRefreshToken
  <1>2. CASE Rotates
    <2>1. PICK n \in valid : Issue(device[n], n) /\ revoked' = revoked
      BY <1>2 DEF Rotates
    <2>2. device[n] \notin revoked /\ \A m \in valid \ {n} : device[m] # device[n]
      BY DEF TokenInv, OneRefreshToken
    <2> QED BY <1>1, <2>1, <2>2
  <1>3. CASE SignsIn
    <2>1. NewDevice \notin revoked /\ \A m \in valid \ {0} : device[m] # NewDevice
      BY <1>0 DEF NewDevice
    <2> QED BY <1>1, <1>3, <2>1 DEF SignsIn
  <1>4. CASE Revokes
    BY <1>4 DEF Revokes, RevokeDevice, TokenInv, OneRefreshToken
  <1>5. CASE ServerStays
    BY <1>5 DEF ServerStays, TokenInv, OneRefreshToken
  <1> QED BY <1>2, <1>3, <1>4, <1>5

\* What a step does to the server.
LEMMA ServerKinds ==
    ASSUME StepKind
    PROVE  Rotates \/ Revokes \/ SignsIn \/ ServerStays
  BY DEF StepKind, Asks, Fails, LogsOut, Rotated, Writes, Shows, SignInAnswered, SignInUnanswered,
     Clears, Restarts, RevokedElsewhere

\* TokenInv is an invariant.
LEMMA TokenInvNext == TypeInv /\ TokenInv /\ [Next]_vars => TokenInv'
  <1>1. ASSUME TypeInv, TokenInv, Next PROVE TokenInv'
    BY <1>1, StepKinds, ServerKinds, TokenStep DEF TypeInv
  <1>2. ASSUME TokenInv, UNCHANGED vars PROVE TokenInv'
    BY <1>2 DEF vars, server, TokenInv, OneRefreshToken
  <1> QED BY <1>1, <1>2

\* No token is good at first.
LEMMA TokenInvInit == Init => TokenInv
  BY DEF Init, TokenInv, OneRefreshToken

\* However many threads exchange a refresh token at the same time, and whatever is lost,
\* revoked or restarted, the server never takes two refresh tokens of one device.
THEOREM OneRefreshTokenCorrect == Spec => []OneRefreshToken
  <1>1. TokenInv => OneRefreshToken
    BY DEF TokenInv
  <1> QED BY <1>1, TypeInvInit, TypeInvNext, TokenInvInit, TokenInvNext, PTL DEF Spec

-----------------------------------------------------------------------------
(* Who installs tokens, and for what.                                      *)

\* Two pairs of tokens are the same if both halves are.
LEMMA TokensEqual ==
    ASSUME NEW n \in Nat, NEW a \in TokensTo(n), NEW b \in TokensTo(n),
           a.access = b.access, a.refresh = b.refresh
    PROVE  a = b
  BY DEF TokensTo

\* JobInv is an invariant.
LEMMA JobInvNext == TypeInv /\ JobInv /\ [Next]_vars => JobInv'
  <1> SUFFICES ASSUME TypeInv, JobInv, Next PROVE JobInv'
    <2>1. ASSUME JobInv, UNCHANGED vars PROVE JobInv'
      BY <2>1 DEF vars, JobInv, Installs
    <2> QED BY <2>1
  <1>0. /\ StepKind /\ UI \notin Threads /\ UI \in Actors /\ Threads \subseteq Actors
        /\ ServerType /\ ServerType'
    BY SessionAssumption, StepKinds DEF Actors, TypeInv
  <1> HIDE DEF TypeInv
  <1>1. ASSUME NEW t \in Actors, Asks(t) PROVE JobInv'
    <2>1. t # UI => t \in Threads
      BY DEF Actors
    <2> QED BY <1>0, <1>1, <2>1 DEF Asks, Others, JobInv, Installs, Installing, RestStays
  <1>2. ASSUME NEW t \in Actors, Fails(t) \/ LogsOut(t) PROVE JobInv'
    <2>1. /\ dialog' = dialog /\ th[t].pc \notin Installing \cup {"idle"} /\ Others(t)
          /\ \/ th'[t].pc = "idle" /\ th'[t].job = "sync"
             \/ th[t].job = "logout" /\ th'[t].job = "logout"
      BY <1>2 DEF Fails, LogsOut, RestStays, Moves, Others, Installing
    <2>2. t # UI => t \in Threads /\ th[t].job = "sync"
      BY DEF Actors, JobInv
    <2> QED BY <1>0, <2>1, <2>2 DEF Others, JobInv, Installs, Installing
  <1>3. ASSUME NEW t \in Actors, Rotated(t) PROVE JobInv'
    <2>1. /\ dialog' = dialog /\ th[t].pc = "rotate" /\ Others(t)
          /\ th'[t].pc = "access" /\ th'[t].job = th[t].job /\ th'[t].got = issued'
      BY <1>3 DEF Rotated, RestStays, Moves, Others
    <2>2. issued' # 0
      BY <1>0, <1>3, SessionAssumption DEF Rotated, Rotates, Issue, ServerType
    <2>3. t # UI => t \in Threads
      BY DEF Actors
    <2> QED BY <1>0, <2>1, <2>2, <2>3 DEF Others, JobInv, Installs, Installing
  <1>4. ASSUME NEW t \in Actors, Writes(t) PROVE JobInv'
    <2>1. /\ dialog' = dialog /\ Installs(t) /\ Others(t)
          /\ \/ th'[t].pc = "idle" /\ th'[t].job = "sync"
             \/ Installs(t)' /\ th'[t].job = th[t].job /\ th'[t].got = th[t].got
             \/ /\ th'[t].pc = "sent" /\ th'[t].job = th[t].job
                /\ th[t].job # "signIn"
      BY <1>4 DEF Writes, WritesAccess, WritesRefresh, WritesAccessSecret, WritesRefreshSecret, Moves,
         Others, Installs, Installing
    <2>2. t # UI => t \in Threads
      BY DEF Actors
    <2> QED BY <1>0, <2>1, <2>2 DEF Others, JobInv, Installs, Installing
  <1>5. CASE Shows
    BY <1>5 DEF Shows, JobInv, Installs
  <1>6. CASE SignInAnswered
    <2>1. issued' # 0
      BY <1>0, <1>6, SessionAssumption DEF SignInAnswered, SignsIn, Issue, ServerType
    <2> QED BY <1>0, <1>6, <2>1 DEF SignInAnswered, Moves, JobInv, Installs, Installing
  <1>7. CASE SignInUnanswered \/ RevokedElsewhere
    BY <1>7 DEF SignInUnanswered, RevokedElsewhere, RestStays, JobInv, Installs
  <1>8. CASE Clears
    BY <1>0, <1>8 DEF Clears, RestStays, Moves, JobInv, Installs, Installing
  <1>9. CASE Restarts
    BY <1>0, <1>9 DEF Restarts, JobInv, Installs, Installing
  <1> QED BY <1>0, <1>1, <1>2, <1>3, <1>4, <1>5, <1>6, <1>7, <1>8, <1>9 DEF StepKind

\* Nobody does anything at first.
LEMMA JobInvInit == Init => JobInv
  <1>1. Idle.pc = "idle" /\ Idle.job = "sync" /\ "idle" \notin Installing
    BY DEF Idle, Installing
  <1> QED BY <1>1 DEF Init, JobInv, Installs

-----------------------------------------------------------------------------
(* The session, while nothing that excuses its loss has happened.          *)

Clean == Alone /\ Agree /\ Fresh /\ Present

\* What revoking a device or doing nothing leaves of the server's part.
LEMMA ServerFrame ==
    ASSUME ServerType, ServerStays \/ Revokes
    PROVE  /\ Live' \subseteq Live
           /\ \A n \in 0..issued : Good(n) => Good(n)'
  <1>1. CASE ServerStays
    BY <1>1 DEF ServerStays, Live, Good
  <1>2. CASE Revokes
    BY <1>2 DEF Revokes, RevokeDevice, Live, Good
  <1> QED BY <1>1, <1>2

\* The steps in which nobody begins, goes on with or ends an installation.
LEMMA CleanFrame ==
    ASSUME ServerType, ClientType, Clean, ServerStays \/ Revokes,
           \A s \in Actors : (Installs(s)' <=> Installs(s)),
           \A s \in Actors : Installs(s) => th'[s] = th[s],
           UNCHANGED <<memory, disk, signedOut>>,
           dialog' # "closed" => memory.refresh = 0
    PROVE  Clean'
  <1>0. /\ Live' \subseteq Live /\ \A n \in 0..issued : Good(n) => Good(n)'
        /\ memory' = memory /\ disk' = disk /\ signedOut' = signedOut
        /\ UI \in Actors
    BY ServerFrame DEF Actors
  <1>1. Alone' /\ Nobody' = Nobody
    BY DEF Clean, Alone, Nobody
  <1>2. Agree'
    <2>1. \A t \in Actors : Halfway(t)'
      <3> SUFFICES ASSUME NEW t \in Actors PROVE Halfway(t)'
        OBVIOUS
      <3>1. CASE Installs(t)
        BY <1>0, <3>1 DEF Halfway, Clean, Agree
      <3>2. CASE ~Installs(t)
        <4>1. th'[t].pc \notin Installing
          BY <3>2 DEF Installs
        <4> QED BY <4>1 DEF Halfway, Installing
      <3> QED BY <3>1, <3>2
    <2> QED BY <1>0, <1>1, <2>1 DEF Clean, Agree
  <1>3. Fresh'
    <2>1. memory.refresh \in 0..issued
      BY <1>0, ThreadFields
    <2>2. \A t \in Actors : th[t].got \in 0..issued
      BY ThreadFields
    <2> QED BY <1>0, <1>1, <2>1, <2>2 DEF Clean, Fresh
  <1>4. Present'
    BY <1>0 DEF Clean, Present
  <1> QED BY <1>1, <1>2, <1>3, <1>4 DEF Clean

\* An installation that begins, of the tokens of answer g or, for 0, of none.
LEMMA CleanBegin ==
    ASSUME ServerType, ClientType, Clean, Nobody, NEW t \in Actors, NEW p \in {"access", "saveAccess"},
           NEW j, NEW k, NEW g, Moves(t, p, j, k, g), UNCHANGED <<memory, disk, signedOut>>,
           p = "saveAccess" => memory.refresh = 0 /\ g = 0,
           g # 0 /\ device'[g] \notin revoked' => g \in valid',
           \A a, b \in Live' : a = b,
           t = UI /\ g = 0 => Live' = {},
           t # UI /\ memory.refresh = 0 => Live' = {},
           g # 0 /\ j # "signIn" => memory.refresh # 0,
           dialog' # "closed" => memory.refresh = 0,
           signedOut => memory.refresh = 0 \/ (t = UI /\ j = "signIn")
    PROVE  Clean'
  <1>0. /\ memory' = memory /\ disk' = disk /\ signedOut' = signedOut /\ UI \in Actors
        /\ Installs(t)' /\ \A s \in Actors \ {t} : ~Installs(s)' /\ th'[s] = th[s]
        /\ th'[t].pc = p /\ th'[t].job = j /\ th'[t].got = g
    BY DEF Moves, Nobody, Installs, Installing, Actors
  <1>1. Alone' /\ ~Nobody'
    BY <1>0 DEF Alone, Nobody
  <1>2. Agree'
    <2> SUFFICES ASSUME NEW s \in Actors PROVE Halfway(s)'
      BY <1>1 DEF Agree
    <2>1. CASE s = t
      <3>1. memory.access = memory.refresh
        BY DEF Clean, Agree
      <3> QED BY <1>0, <2>1, <3>1 DEF Halfway
    <2>2. CASE s # t
      <3>1. th'[s].pc \notin Installing
        BY <1>0, <2>2 DEF Installs
      <3> QED BY <3>1 DEF Halfway, Installing
    <2> QED BY <2>1, <2>2
  <1>3. Fresh'
    BY <1>0, <1>1 DEF Fresh, Good
  <1>4. Present'
    <2>1. memory'.refresh = 0 /\ ~Installs(UI)' => Live' = {}
      BY <1>0
    <2>2. Installs(UI)' /\ th'[UI].got = 0 => Live' = {}
      BY <1>0
    <2>3. \A s \in Actors : Installs(s)' /\ th'[s].got # 0 /\ th'[s].job # "signIn"
                               => memory'.refresh # 0
      BY <1>0
    <2>4. signedOut' => memory'.refresh = 0 \/ (Installs(UI)' /\ th'[UI].job = "signIn")
      BY <1>0
    <2> QED BY <1>0, <2>1, <2>2, <2>3, <2>4 DEF Present
  <1> QED BY <1>1, <1>2, <1>3, <1>4 DEF Clean

\* Without an overlap nobody else is installing tokens.
LEMMA NoOverlap ==
    ASSUME NEW t \in Actors, ~Installs(t), Overlap(t) = {}
    PROVE  Nobody
  BY DEF Overlap, Nobody, Installs, Actors

\* The tokens come to nobody who is not signed in: a good token means that there are
\* tokens in memory, or that they are being installed.
LEMMA GoodMeansTokens ==
    ASSUME ServerType, TokenInv, Clean, Nobody, valid # {}
    PROVE  memory.refresh # 0
  <1>1. PICK n \in valid : TRUE
    OBVIOUS
  <1>2. device[n] \in Live
    BY DEF ServerType, TokenInv, Live
  <1>3. ~Installs(UI)
    BY DEF Nobody, Actors
  <1> QED BY <1>2, <1>3 DEF Clean, Present

\* An exchange of the refresh token changes neither the devices nor who has them.
LEMMA RotateFrame ==
    ASSUME ServerType, TokenInv, Rotates
    PROVE  Live' = Live /\ issued' \in valid' /\ valid # {} /\ issued' # 0
  <1> USE SessionAssumption
  <1>1. PICK n \in valid : Issue(device[n], n) /\ revoked' = revoked
    BY DEF Rotates
  <1>2. /\ issued \in Nat /\ issued < MaxIssues /\ device \in [Issues -> 0..MaxIssues]
        /\ n \in 1..issued /\ issued' = issued + 1
    BY <1>1 DEF ServerType, Issue
  <1>3. /\ device'[issued + 1] = device[n] /\ \A m \in 1..issued : device'[m] = device[m]
    BY <1>1, <1>2 DEF Issue, Issues
  <1>4. {device'[m] : m \in 1..(issued + 1)} = {device[m] : m \in 1..issued}
    <2>1. ASSUME NEW m \in 1..(issued + 1) PROVE device'[m] \in {device[i] : i \in 1..issued}
      <3>1. CASE m = issued + 1
        BY <1>2, <1>3, <3>1
      <3>2. CASE m # issued + 1
        BY <1>2, <1>3, <3>2
      <3> QED BY <3>1, <3>2
    <2>2. ASSUME NEW m \in 1..issued PROVE device[m] \in {device'[i] : i \in 1..(issued + 1)}
      <3>1. m \in 1..(issued + 1) /\ device'[m] = device[m]
        BY <1>2, <1>3
      <3> QED BY <3>1
    <2> QED BY <2>1, <2>2
  <1>5. issued' \in valid'
    BY <1>1, <1>2 DEF Issue
  <1> QED BY <1>1, <1>2, <1>4, <1>5 DEF Live

\* A thread is about to install the tokens of a sign-in, of an exchange, or of none.
LEMMA CleanBegins ==
    ASSUME ServerType, ClientType, TokenInv, JobInv, Clean, mishaps' = {},
           \/ \E t \in Actors : LogsOut(t) \/ Rotated(t)
           \/ SignInAnswered \/ Clears
    PROVE  Clean'
  <1> USE SessionAssumption
  <1>0. UI \in Actors /\ UI \notin Threads /\ issued \in Nat
    BY DEF Actors, ServerType
  <1>1. ASSUME NEW t \in Actors, LogsOut(t) PROVE Clean'
    <2>1. /\ ~Installs(t) /\ Overlap(t) = {} /\ Moves(t, "access", "logout", 0, 0)
          /\ UNCHANGED <<memory, disk, signedOut>> /\ dialog' = dialog
      BY <1>1 DEF LogsOut, Installs, Installing, RestStays
    <2>2. Nobody /\ t = UI
      BY <1>1, <2>1, NoOverlap DEF LogsOut, JobInv, Actors
    <2>3. Live' = {}
      <3>1. PICK d \in Live : RevokeDevice(d) /\ UNCHANGED <<issued, device>>
        BY <1>1 DEF LogsOut, Revokes
      <3>2. \A a \in Live : a = d
        BY DEF Clean, Present
      <3> QED BY <3>1, <3>2 DEF Live, RevokeDevice
    <2>5. dialog' # "closed" => memory.refresh = 0
      BY <2>1 DEF Clean, Present
    <2>6. signedOut => memory.refresh = 0
      BY <2>2, <1>0 DEF Clean, Present, Nobody
    <2> QED BY <2>1, <2>2, <2>3, <2>5, <2>6, CleanBegin
  <1>2. ASSUME NEW t \in Actors, Rotated(t) PROVE Clean'
    <2>1. /\ ~Installs(t) /\ Overlap(t) = {} /\ Moves(t, "access", th[t].job, 0, issued')
          /\ UNCHANGED <<memory, disk, signedOut>> /\ dialog' = dialog
      BY <1>2 DEF Rotated, Installs, Installing, RestStays
    <2>2. Nobody
      BY <2>1, NoOverlap
    <2>3. Live' = Live /\ issued' \in valid' /\ valid # {} /\ issued' # 0
      BY <1>2, RotateFrame DEF Rotated
    <2>4. memory.refresh # 0
      BY <2>2, <2>3, GoodMeansTokens
    <2>5. dialog' # "closed" => memory.refresh = 0
      BY <2>1 DEF Clean, Present
    <2>6. signedOut => memory.refresh = 0
      BY <1>0, <2>2 DEF Clean, Present, Nobody
    <2>7. \A a, b \in Live' : a = b
      BY <2>3 DEF Clean, Present
    <2> QED BY <2>1, <2>2, <2>3, <2>4, <2>5, <2>6, <2>7, CleanBegin
  <1>3. CASE SignInAnswered
    <2>1. /\ ~Installs(UI) /\ Overlap(UI) = {} /\ Moves(UI, "access", "signIn", 0, issued')
          /\ UNCHANGED <<memory, disk, signedOut>> /\ dialog' = "closed" /\ dialog # "closed"
      BY <1>3 DEF SignInAnswered, Installs, Installing
    <2>2. Nobody /\ memory.refresh = 0 /\ Live = {}
      BY <1>0, <2>1, NoOverlap DEF Clean, Present
    <2>3. /\ issued' = issued + 1 /\ issued' \in valid' /\ revoked' = revoked
          /\ device' = [device EXCEPT ![issued + 1] = issued + 1]
          /\ issued + 1 \in Issues /\ device \in [Issues -> 0..MaxIssues]
      BY <1>0, <1>3 DEF SignInAnswered, SignsIn, Issue, NewDevice, Issues, ServerType
    <2>4. \A a \in Live' : a = issued + 1
      <3> SUFFICES ASSUME NEW a \in Live' PROVE a = issued + 1
        OBVIOUS
      <3>1. PICK n \in 1..(issued + 1) : a = device'[n] /\ a \notin revoked
        BY <2>3 DEF Live
      <3>2. CASE n = issued + 1
        BY <2>3, <3>1, <3>2
      <3>3. CASE n # issued + 1
        <4>1. n \in 1..issued /\ device'[n] = device[n]
          BY <1>0, <2>3, <3>3 DEF Issues, ServerType
        <4> QED BY <2>2, <3>1, <4>1 DEF Live
      <3> QED BY <3>2, <3>3
    <2>5. issued' \in valid' /\ issued' # 0
      BY <1>0, <2>3
    <2>6. \A a, b \in Live' : a = b
      BY <2>4
    <2> QED BY <1>0, <2>1, <2>2, <2>5, <2>6, CleanBegin
  <1>4. CASE Clears
    <2>1. /\ ~Installs(UI) /\ memory.refresh = 0 /\ Moves(UI, "saveAccess", "logout", 0, 0)
          /\ UNCHANGED <<memory, disk, signedOut>> /\ ServerStays
      BY <1>4 DEF Clears, Installs, Installing, RestStays
    <2>2. Nobody
      <3> SUFFICES ASSUME NEW s \in Actors, Installs(s) PROVE FALSE
        BY DEF Nobody
      <3>1. s \in Threads
        BY <2>1 DEF Actors
      <3>2. th[s].got # 0 /\ th[s].job # "signIn"
        BY <3>1 DEF JobInv
      <3> QED BY <2>1, <3>2 DEF Clean, Present
    <2>3. Live' = {}
      BY <2>1 DEF Clean, Present, ServerStays, Live
    <2> QED BY <1>0, <2>1, <2>2, <2>3, CleanBegin
  <1> QED BY <1>1, <1>2, <1>3, <1>4

\* The four assignments of an installation, which nobody else disturbs.
LEMMA CleanWrites ==
    ASSUME ServerType, ClientType, ClientType', JobInv, Clean, mishaps' = {}, NEW t \in Actors, Writes(t)
    PROVE  Clean'
  <1> DEFINE g == th[t].got
  <1>0. /\ issued \in Nat /\ UI \in Actors /\ UI \notin Threads /\ g \in 0..issued
        /\ memory.refresh \in 0..issued /\ ServerStays /\ dialog' = dialog
    BY SessionAssumption, ThreadFields DEF ServerType, Actors, Writes
  <1>1. Installs(t) /\ Others(t) /\ \A s \in Actors \ {t} : ~Installs(s) /\ ~Installs(s)'
    <2>1. Installs(t) /\ Others(t)
      BY DEF Writes, WritesAccess, WritesRefresh, WritesAccessSecret, WritesRefreshSecret, Moves,
         Others, Installs, Installing
    <2>2. \A s \in Actors \ {t} : ~Installs(s)
      BY <2>1 DEF Clean, Alone
    <2> QED BY <2>1, <2>2 DEF Others, Installs
  <1>2. Live' = Live /\ device' = device /\ valid' = valid /\ revoked' = revoked
    BY <1>0 DEF ServerStays, Live
  <1>3. /\ \A s \in Actors \ {t} : Halfway(s)'
        /\ Alone'
    <2>1. ASSUME NEW s \in Actors \ {t} PROVE Halfway(s)'
      <3>1. th'[s].pc \notin Installing
        BY <1>1 DEF Installs
      <3> QED BY <3>1 DEF Halfway, Installing
    <2> QED BY <1>1, <2>1 DEF Alone
  <1>4. /\ Halfway(t) /\ Good(g) /\ (\A a, b \in Live : a = b)
        /\ g # 0 /\ th[t].job # "signIn" => memory.refresh # 0
    BY <1>1 DEF Clean, Agree, Fresh, Present
  <1>5. /\ g = 0 => t = UI /\ Live = {}
        /\ th[t].job = "signIn" => t = UI /\ g # 0
    BY <1>1 DEF Clean, Present, JobInv, Actors, Installs, Installing
  <1>6. memory.refresh = 0 /\ t # UI => FALSE
    BY <1>4, <1>5
  <1>7. dialog # "closed" => t # UI
    BY <1>1 DEF JobInv, Installs, Installing
  <1>8. dialog = "closed"
    BY <1>6, <1>7 DEF Clean, Present
  <1>9. signedOut => memory.refresh = 0 \/ (t = UI /\ th[t].job = "signIn")
    BY <1>0, <1>1 DEF Clean, Present
  <1>10. ASSUME Installs(t)', th'[t].got = g, th'[t].job = th[t].job, signedOut' = signedOut,
                Halfway(t)', memory'.refresh \in {memory.refresh, g}
         PROVE  Clean'
    <2>1. ~Nobody'
      BY <1>10 DEF Nobody
    <2>2. Agree' /\ Alone'
      BY <1>3, <1>10, <2>1 DEF Agree
    <2>3. Fresh'
      BY <1>1, <1>2, <1>4, <1>10, <2>1 DEF Fresh, Good
    <2>4. Present'
      <3>1. /\ \A a, b \in Live' : a = b
            /\ Installs(UI)' /\ th'[UI].got = 0 => Live' = {}
        BY <1>0, <1>1, <1>2, <1>4, <1>5, <1>10
      <3>2. memory'.refresh = 0 /\ ~Installs(UI)' => Live' = {}
        BY <1>0, <1>2, <1>5, <1>6, <1>10
      <3>3. \A s \in Actors : Installs(s)' /\ th'[s].got # 0 /\ th'[s].job # "signIn"
                                 => memory'.refresh # 0
        BY <1>1, <1>4, <1>10
      <3>4. signedOut' => memory'.refresh = 0 \/ (Installs(UI)' /\ th'[UI].job = "signIn")
        BY <1>4, <1>5, <1>9, <1>10
      <3> QED BY <1>0, <1>8, <3>1, <3>2, <3>3, <3>4 DEF Present
    <2> QED BY <2>2, <2>3, <2>4 DEF Clean
  <1>11. CASE WritesAccess(t)
    <2>1. /\ th'[t].pc = "refresh" /\ th'[t].got = g /\ th'[t].job = th[t].job
          /\ memory'.access = g /\ memory'.refresh = memory.refresh /\ signedOut' = signedOut
      BY <1>11 DEF WritesAccess, Moves
    <2> QED BY <1>10, <2>1 DEF Halfway, Installs, Installing
  <1>12. CASE WritesRefresh(t)
    <2>1. /\ th'[t].pc = "saveAccess" /\ th'[t].got = g /\ th'[t].job = th[t].job
          /\ memory'.access = memory.access /\ memory'.refresh = g /\ signedOut' = signedOut
          /\ th[t].pc = "refresh"
      BY <1>12 DEF WritesRefresh, Moves
    <2> QED BY <1>4, <1>10, <2>1 DEF Halfway, Installs, Installing
  <1>13. CASE WritesAccessSecret(t)
    <2>1. /\ th'[t].pc = "saveRefresh" /\ th'[t].got = g /\ th'[t].job = th[t].job
          /\ memory' = memory /\ signedOut' = signedOut /\ th[t].pc = "saveAccess"
          /\ disk'.access = g
      BY <1>13 DEF WritesAccessSecret, Moves
    <2> QED BY <1>4, <1>10, <2>1 DEF Halfway, Installs, Installing
  <1>14. CASE WritesRefreshSecret(t)
    <2>1. /\ th'[t].pc \in {"idle", "sent"} /\ memory' = memory /\ th[t].pc = "saveRefresh"
          /\ disk'.access = disk.access /\ disk'.refresh = g
          /\ signedOut' => g = 0 \/ (signedOut /\ th[t].job # "signIn")
      BY <1>14 DEF WritesRefreshSecret, Moves
    <2>2. memory.access = g /\ memory.refresh = g /\ disk.access = g
      BY <1>4, <2>1 DEF Halfway
    <2>3. Nobody' /\ ~Installs(t)'
      BY <1>1, <2>1 DEF Nobody, Installs, Installing
    <2>4. disk' = memory'
      <3>1. issued' = issued /\ disk' \in TokensTo(issued) /\ memory' \in TokensTo(issued)
        BY <1>0 DEF ServerStays, ClientType
      <3> QED BY <1>0, <2>1, <2>2, <3>1, TokensEqual
    <2>5. Agree'
      <3>1. Halfway(t)'
        BY <2>1 DEF Halfway
      <3> QED BY <1>3, <2>1, <2>2, <2>4, <3>1 DEF Agree
    <2>6. Fresh'
      BY <1>2, <1>4, <2>1, <2>2, <2>3 DEF Fresh, Good, Nobody
    <2>7. Present'
      <3>1. memory'.refresh = 0 => Live' = {}
        BY <1>2, <1>5, <2>1, <2>2
      <3>2. signedOut' => memory'.refresh = 0
        BY <1>9, <2>1, <2>2
      <3> QED BY <1>0, <1>2, <1>4, <1>8, <2>3, <3>1, <3>2 DEF Present, Nobody
    <2> QED BY <1>3, <2>5, <2>6, <2>7 DEF Clean
  <1> QED BY <1>11, <1>12, <1>13, <1>14 DEF Writes

\* A restart between two commands finds the tokens that were in use.
LEMMA CleanRestart ==
    ASSUME ServerType, ClientType, Clean, mishaps' = {}, Restarts
    PROVE  Clean'
  <1>0. /\ issued \in Nat /\ memory \in TokensTo(issued) /\ disk \in TokensTo(issued)
        /\ UI \in Actors
    BY SessionAssumption DEF ServerType, ClientType, Actors
  <1>1. \A t \in Actors : ~Installs(t) /\ ~Installs(t)'
    BY DEF Restarts, Installs, Installing
  <1>2. memory.access = memory.refresh /\ disk = memory
    BY <1>1 DEF Clean, Agree, Nobody
  <1>3. memory' = memory
    <2>1. CASE disk.access # 0 /\ disk.refresh # 0
      BY <1>2, <2>1 DEF Restarts
    <2>2. CASE ~(disk.access # 0 /\ disk.refresh # 0)
      <3>1. memory.access = 0 /\ memory.refresh = 0 /\ memory' = NoTokens
        BY <1>2, <2>2 DEF Restarts
      <3>2. NoTokens \in TokensTo(issued) /\ NoTokens.access = 0 /\ NoTokens.refresh = 0
        BY <1>0 DEF NoTokens, TokensTo
      <3> QED BY <1>0, <3>1, <3>2, TokensEqual
    <2> QED BY <2>1, <2>2
  <1>4. /\ ServerStays /\ disk' = disk /\ signedOut' = signedOut /\ dialog' = "closed"
    BY DEF Restarts
  <1>5. \A s \in Actors : (Installs(s)' <=> Installs(s))
    BY <1>1
  <1> QED BY <1>1, <1>3, <1>4, <1>5, CleanFrame

\* SessionInv is an invariant.
LEMMA SessionInvNext ==
    TypeInv /\ TokenInv /\ JobInv /\ SessionInv /\ [Next]_vars => SessionInv'
  <1>1. ASSUME TypeInv, TokenInv, JobInv, SessionInv, Next, mishaps' = {}
        PROVE  Clean'
    <2>0. StepKind /\ ServerType /\ ClientType /\ ClientType' /\ UI \in Actors
      BY <1>1, StepKinds DEF TypeInv, Actors
    <2>1. Clean
      <3>1. mishaps = {}
        BY <1>1, <2>0 DEF StepKind, Asks, Fails, LogsOut, Rotated, Writes, WritesAccess, WritesRefresh,
           WritesAccessSecret, WritesRefreshSecret, Shows, SignInAnswered, SignInUnanswered, Clears,
           Restarts, RevokedElsewhere
      <3> QED BY <1>1, <3>1 DEF SessionInv, Clean
    <2>2. ASSUME NEW t \in Actors, Asks(t) PROVE Clean'
      <3>1. \A s \in Actors : (Installs(s)' <=> Installs(s)) /\ (Installs(s) => th'[s] = th[s])
        BY <2>2 DEF Asks, Others, Installs, Installing
      <3>2. ServerStays /\ UNCHANGED <<memory, disk, signedOut>> /\ dialog' = dialog
        BY <2>2 DEF Asks, RestStays
      <3>3. dialog' # "closed" => memory.refresh = 0
        BY <2>1, <3>2 DEF Clean, Present
      <3> QED BY <2>0, <2>1, <3>1, <3>2, <3>3, CleanFrame
    <2>3. ASSUME NEW t \in Actors, Fails(t) PROVE Clean'
      BY <1>1, <2>3 DEF Fails
    <2>4. ASSUME NEW t \in Actors, LogsOut(t) \/ Rotated(t) PROVE Clean'
      BY <1>1, <2>0, <2>1, <2>4, CleanBegins
    <2>5. ASSUME NEW t \in Actors, Writes(t) PROVE Clean'
      BY <1>1, <2>0, <2>1, <2>5, CleanWrites
    <2>6. CASE Shows \/ RevokedElsewhere
      <3>1. /\ th' = th /\ (ServerStays \/ Revokes) /\ UNCHANGED <<memory, disk, signedOut>>
        BY <2>6 DEF Shows, RevokedElsewhere, RestStays
      <3>2. \A s \in Actors : (Installs(s)' <=> Installs(s))
        BY <3>1 DEF Installs
      <3>3. dialog' # "closed" => memory.refresh = 0
        BY <2>1, <2>6 DEF Shows, RevokedElsewhere, RestStays, Clean, Present
      <3> QED BY <2>0, <2>1, <3>1, <3>2, <3>3, CleanFrame
    <2>7. CASE SignInAnswered \/ Clears
      BY <1>1, <2>0, <2>1, <2>7, CleanBegins
    <2>8. CASE SignInUnanswered
      BY <1>1, <2>8 DEF SignInUnanswered
    <2>9. CASE Restarts
      BY <1>1, <2>0, <2>1, <2>9, CleanRestart
    <2> QED BY <2>0, <2>2, <2>3, <2>4, <2>5, <2>6, <2>7, <2>8, <2>9 DEF StepKind
  <1>2. ASSUME SessionInv, UNCHANGED vars PROVE SessionInv'
    BY <1>2 DEF vars, server, SessionInv, Alone, Nobody, Installs, Agree, Halfway, Fresh, Good,
       Present, Live
  <1> QED BY <1>1, <1>2 DEF SessionInv, Clean

\* Nobody is signed in at first.
LEMMA SessionInvInit == Init => SessionInv
  <1> SUFFICES ASSUME Init PROVE Clean
    BY DEF SessionInv, Clean
  <1>1. /\ \A t \in Actors : th[t].pc = "idle" /\ ~Installs(t)
        /\ memory.access = 0 /\ memory.refresh = 0 /\ disk = memory
        /\ dialog = "closed" /\ ~signedOut /\ UI \in Actors
    BY DEF Init, Idle, Actors, NoTokens, Installs, Installing
  <1>2. Live = {}
    BY DEF Init, Live
  <1> QED BY <1>1, <1>2 DEF Clean, Alone, Agree, Nobody, Halfway, Fresh, Good, Present

\* What holds in every state.
LEMMA SessionAlways == Spec => [](TypeInv /\ TokenInv /\ JobInv /\ SessionInv)
  BY TypeInvInit, TypeInvNext, TokenInvInit, TokenInvNext, JobInvInit, JobInvNext, SessionInvInit,
     SessionInvNext, PTL DEF Spec

\* However the rotations of any number of threads interleave, the session is not lost: at
\* rest the refresh token in memory is one the server takes while the device is not
\* revoked, and the secrets hold the same pair.
THEOREM SessionSurvivesCorrect == Spec => []SessionSurvives
  <1>1. SessionInv => SessionSurvives
    <2> SUFFICES ASSUME SessionInv, AtRest, mishaps = {}, hasTokens,
                        device[memory.refresh] \notin revoked
                 PROVE  memory.refresh \in valid /\ disk = memory
      BY DEF SessionSurvives
    <2>1. Nobody
      BY DEF AtRest, Nobody, Installs, Installing, Actors
    <2> QED BY <2>1 DEF SessionInv, Agree, Fresh, Good, hasTokens
  <1> QED BY <1>1, SessionAlways, PTL

\* Once the user has signed out no thread that was refreshing brings the tokens back, not
\* to memory and not to the secrets, a restart included.
THEOREM SignedOutStaysCorrect == Spec => []SignedOutStays
  <1>1. TypeInv /\ SessionInv => SignedOutStays
    <2> SUFFICES ASSUME TypeInv, SessionInv, AtRest, signedOut, mishaps = {}
                 PROVE  memory = NoTokens /\ disk = NoTokens
      BY DEF SignedOutStays
    <2>1. Nobody /\ ~Installs(UI)
      BY DEF AtRest, Nobody, Installs, Installing, Actors
    <2>2. memory.access = 0 /\ memory.refresh = 0 /\ disk = memory
      BY <2>1 DEF SessionInv, Agree, Present
    <2>3. issued \in Nat /\ memory \in TokensTo(issued)
      BY SessionAssumption DEF TypeInv, ServerType, ClientType
    <2>4. NoTokens \in TokensTo(issued) /\ NoTokens.access = 0 /\ NoTokens.refresh = 0
      BY <2>3 DEF NoTokens, TokensTo
    <2> QED BY <2>2, <2>3, <2>4, TokensEqual
  <1> QED BY <1>1, SessionAlways, PTL

\* Signing in and out any number of times leaves at most one device that is not revoked.
THEOREM NoOrphanDeviceCorrect == Spec => []NoOrphanDevice
  <1>1. SessionInv => NoOrphanDevice
    <2> SUFFICES ASSUME SessionInv, mishaps = {} PROVE Cardinality(Live) <= 1
      BY DEF NoOrphanDevice, Live
    <2>1. \A a, b \in Live : a = b
      BY DEF SessionInv, Present
    <2>2. CASE Live = {}
      BY <2>2, FS_EmptySet
    <2>3. CASE Live # {}
      <3>1. PICK a : Live = {a}
        BY <2>1, <2>3
      <3>2. Cardinality({a}) = 1
        BY FS_Singleton
      <3> QED BY <3>1, <3>2
    <2> QED BY <2>2, <2>3
  <1> QED BY <1>1, SessionAlways, PTL
=============================================================================
