--------------------------- MODULE KeySetupProofs ---------------------------
(***************************************************************************)
(* Proofs about KeySetup, for any computers and any bounds: the secrets of  *)
(* a computer agree with each other between two commands, a key that is     *)
(* installed is replaced only with the user's consent, and the key under a  *)
(* pairing code is handed out once.                                         *)
(***************************************************************************)
EXTENDS KeySetup, SequenceTheorems, TLAPS

Dialog == [pc : Places, code : 0..MaxCodes, got : Keys, agreed : BOOLEAN]

\* A computer that polls has a code of the table, and so has a poll that was given up.
CodesKnown ==
    /\ Len(codes) <= MaxCodes /\ late \subseteq 1..Len(codes)
    /\ \A d \in Computers : ui[d].pc \in {"wait", "consume"} => ui[d].code \in 1..Len(codes)

TypeInv ==
    /\ TypeOK /\ CodesKnown
    /\ given \in [Codes -> Nat] /\ events \in Nat

\* What the secrets of computer d hold at each place of its dialogs, if every secret was
\* written, deleted and read: the new key is in memory first, then among the secrets, the
\* wrap follows and the string that is shown comes last.
SecretsAt(d) ==
    LET s == secrets[d] IN
    /\ ui[d].pc \in AtRest \cup {"wait", "consume", "install"} =>
          key[d] = s.master /\ s.display = s.wrap /\ s.wrap \in {0, s.master}
    /\ ui[d].pc = "saveKey" => s.master = 0 /\ s.wrap = 0 /\ s.display = 0
    /\ ui[d].pc = "saveWrap" => key[d] = s.master /\ s.wrap = 0 /\ s.display = 0
    /\ ui[d].pc = "saveDisplay" => key[d] = s.master /\ s.wrap = s.master /\ s.display = 0
    /\ ui[d].pc = "dropWrap" => key[d] = s.master
    /\ ui[d].pc = "dropDisplay" => key[d] = s.master /\ s.wrap = 0

SecretsInv ==
    mishaps \cap {"unsaved", "undeleted", "unread", "crash"} = {} =>
       \A d \in Computers : SecretsAt(d)

\* A computer whose secrets hold a key knows it, and a pairing that would replace it was
\* agreed to; a wizard that mints one met none.
KeptAt(d) ==
    /\ secrets[d].master # 0 => key[d] # 0
    /\ ui[d].pc = "saveKey" => secrets[d].master = 0
    /\ ui[d].pc \in {"wait", "consume", "install", "savePaired"} /\ secrets[d].master # 0
          => ui[d].agreed

\* What a pairing brings is a key.
GotAt(d) == ui[d].pc \in {"consume", "install"} => ui[d].got # 0

KeptInv ==
    /\ \A d \in Computers : GotAt(d)
    /\ mishaps \cap {"unread", "unsaved"} = {} => \A d \in Computers : KeptAt(d)

\* A code that may still be consumed has not been handed out.
CodesUse ==
    /\ late = {}
    /\ \A c \in Codes : given[c] <= 1 /\ (c > Len(codes) => given[c] = 0)
    /\ \A c \in 1..Len(codes) : ~codes[c].consumed => given[c] = 0

\* A code has one computer that polls it.
UseAt(d) ==
    ui[d].pc \in {"wait", "consume"} =>
       /\ codes[ui[d].code].user = d
       /\ ui[d].pc = "consume" => ~codes[ui[d].code].consumed

UseInv == "abandoned" \notin mishaps => CodesUse /\ \A d \in Computers : UseAt(d)

-----------------------------------------------------------------------------
(* Types.                                                                  *)

\* A code of the table in which one field is overwritten is a table of the same length.
LEMMA CodeTableKept ==
    ASSUME NEW s \in Seq(Code), NEW c \in 1..Len(s), NEW e \in Code
    PROVE  [s EXCEPT ![c] = e] \in Seq(Code) /\ Len([s EXCEPT ![c] = e]) = Len(s)
  BY ExceptSeq

\* A code that is marked: consumed, expired or approved.
LEMMA CodeMarked ==
    ASSUME codes \in Seq(Code), NEW c \in 1..Len(codes),
           NEW k \in Keys,
           \/ codes' = [codes EXCEPT ![c].consumed = TRUE]
           \/ codes' = [codes EXCEPT ![c].expired = TRUE]
           \/ codes' = [codes EXCEPT ![c].wrapped = k]
    PROVE  /\ codes' \in Seq(Code) /\ Len(codes') = Len(codes)
           /\ \A b \in 1..Len(codes) : codes'[b].user = codes[b].user
           /\ \A b \in 1..Len(codes) \ {c} : codes'[b] = codes[b]
  <1>0. codes[c] \in Code
    BY ElementOfSeq
  <1>1. PICK e \in Code : codes' = [codes EXCEPT ![c] = e] /\ e.user = codes[c].user
    <2>1. CASE codes' = [codes EXCEPT ![c].consumed = TRUE]
      BY <1>0, <2>1 DEF Code
    <2>2. CASE codes' = [codes EXCEPT ![c].expired = TRUE]
      BY <1>0, <2>2 DEF Code
    <2>3. CASE codes' = [codes EXCEPT ![c].wrapped = k]
      BY <1>0, <2>3 DEF Code
    <2> QED BY <2>1, <2>2, <2>3
  <1>2. codes' \in Seq(Code) /\ Len(codes') = Len(codes)
    BY <1>1, CodeTableKept
  <1>3. \A b \in 1..Len(codes) : codes'[b] = IF b = c THEN e ELSE codes[b]
    BY <1>1
  <1> QED BY <1>1, <1>2, <1>3

\* The first state has the types.
LEMMA TypeInvInit == Init => TypeInv
  <1> SUFFICES ASSUME Init PROVE TypeInv
    OBVIOUS
  <1>1. codes \in Seq(Code) /\ Len(codes) = 0
    BY DEF Init
  <1> QED BY <1>1, KeySetupAssumption
          DEF Init, TypeInv, TypeOK, CodesKnown, At, Places, Keys, Codes, Secrets

\* The computers that do something else than waiting keep what CodesKnown says of them.
LEMMA DialogTyped ==
    ASSUME ui \in [Computers -> Dialog], NEW d \in Computers, NEW pc \in Places,
           ui' = [ui EXCEPT ![d].pc = pc] \/ ui' = [ui EXCEPT ![d] = At(pc)]
    PROVE  /\ ui' \in [Computers -> Dialog] /\ ui'[d].pc = pc
           /\ \A e \in Computers \ {d} : ui'[e] = ui[e]
  <1>1. CASE ui' = [ui EXCEPT ![d].pc = pc]
    BY <1>1 DEF Dialog
  <1>2. CASE ui' = [ui EXCEPT ![d] = At(pc)]
    <2>1. At(pc) \in Dialog /\ At(pc).pc = pc
      BY KeySetupAssumption DEF At, Dialog, Keys
    <2> QED BY <1>2, <2>1
  <1> QED BY <1>1, <1>2

\* The dialog of a computer that waits for the approval of its code.
LEMMA WaitingTyped ==
    ASSUME NEW n \in 0..MaxCodes, NEW a \in BOOLEAN
    PROVE  LET w == [At("wait") EXCEPT !.code = n, !.agreed = a] IN
           w \in Dialog /\ w.pc = "wait" /\ w.code = n /\ w.agreed = a
  <1>1. 0 \in Keys
    BY KeySetupAssumption DEF Keys
  <1> QED BY <1>1 DEF At, Dialog, Places

\* One of the secrets is written.
LEMMA SecretWritten ==
    ASSUME secrets \in [Computers -> Secrets], NEW d \in Computers, NEW n \in Keys,
           NEW name \in {"master", "wrap", "display"}, Written(d, name, n)
    PROVE  /\ secrets' \in [Computers -> Secrets]
           /\ \A e \in Computers \ {d} : secrets'[e] = secrets[e]
           /\ secrets'[d] = [secrets[d] EXCEPT ![name] = n]
  <1>1. secrets[d] \in Secrets
    OBVIOUS
  <1>2. [secrets[d] EXCEPT ![name] = n] \in Secrets
    BY <1>1 DEF Secrets
  <1> QED BY <1>2 DEF Written

\* The steps that touch neither the codes nor the polls under way, and put no computer
\* among those that poll, keep what is known of the codes.
LEMMA CodesKnownKept ==
    ASSUME CodesKnown, NEW d \in Computers, UNCHANGED server,
           \A e \in Computers \ {d} : ui'[e] = ui[e],
           ui'[d].pc \in {"wait", "consume"} =>
              ui[d].pc \in {"wait", "consume"} /\ ui'[d].code = ui[d].code
    PROVE  CodesKnown'
  <1>1. codes' = codes /\ late' = late
    BY DEF server
  <1>2. ASSUME NEW e \in Computers, ui'[e].pc \in {"wait", "consume"}
        PROVE  ui'[e].code \in 1..Len(codes)
    <2>1. CASE e = d
      BY <1>2, <2>1 DEF CodesKnown
    <2>2. CASE e # d
      BY <1>2, <2>2 DEF CodesKnown
    <2> QED BY <2>1, <2>2
  <1> QED BY <1>1, <1>2 DEF CodesKnown

\* What a mishap adds, and what it counts.
LEMMA MishapTyped ==
    ASSUME mishaps \subseteq Mishaps, events \in Nat, NEW m \in Mishaps, Mishap(m)
    PROVE  mishaps' \subseteq Mishaps /\ events' \in Nat
  BY DEF Mishap, Event

\* The commands and steps of one computer keep the types.
LEMMA TypeInvSteps ==
    ASSUME TypeInv, NEW d \in Computers, Steps(d) \/ GiveUp(d)
    PROVE  TypeInv'
  <1> USE KeySetupAssumption
  <1>0. /\ ui \in [Computers -> Dialog] /\ key \in [Computers -> Keys]
        /\ secrets \in [Computers -> Secrets] /\ key[d] \in Keys /\ ui[d] \in Dialog
        /\ mishaps \subseteq Mishaps /\ events \in Nat /\ codes \in Seq(Code)
        /\ given \in [Codes -> Nat]
    BY DEF TypeInv, TypeOK, Dialog
  <1>m. {"unsaved", "undeleted", "lost", "abandoned"} \subseteq Mishaps
    BY DEF Mishaps
  <1>k. 0 \in Keys /\ \A e \in Computers : [key EXCEPT ![d] = 0][e] \in Keys
    BY <1>0 DEF Keys
  <1>w. ASSUME ui[d].pc \in {"wait", "consume"}
        PROVE  /\ ui[d].code \in 1..Len(codes) /\ ui[d].code \in Codes
               /\ codes[ui[d].code] \in Code
    <2>1. ui[d].code \in 1..Len(codes) /\ Len(codes) <= MaxCodes /\ Len(codes) \in Nat
      BY <1>0, <1>w, LenProperties DEF TypeInv, CodesKnown
    <2> QED BY <1>0, <2>1, ElementOfSeq DEF Codes
  <1>1. CASE SaveMinted(d)
    <2>1. PICK p \in {"saveWrap", "idle"} :
             ui' = [ui EXCEPT ![d].pc = p] \/ ui' = [ui EXCEPT ![d] = At(p)]
      BY <1>1 DEF SaveMinted, Goto, Done
    <2>2. /\ ui' \in [Computers -> Dialog] /\ ui'[d].pc = p
          /\ \A e \in Computers \ {d} : ui'[e] = ui[e]
      BY <1>0, <2>1, DialogTyped DEF Places
    <2>3. secrets' \in [Computers -> Secrets] /\ key' \in [Computers -> Keys]
      BY <1>0, <1>1, <1>k, SecretWritten DEF SaveMinted
    <2>4. mishaps' \subseteq Mishaps /\ events' \in Nat
      BY <1>0, <1>1, <1>m, MishapTyped DEF SaveMinted, Quiet
    <2>5. CodesKnown'
      BY <1>1, <2>2, CodesKnownKept DEF SaveMinted, TypeInv
    <2> QED BY <1>0, <1>1, <2>2, <2>3, <2>4, <2>5
            DEF SaveMinted, TypeInv, TypeOK, server, Dialog
  <1>2. CASE SaveWrap(d) \/ SaveDisplay(d)
    <2>1. PICK p \in {"saveDisplay", "idle"} :
             ui' = [ui EXCEPT ![d].pc = p] \/ ui' = [ui EXCEPT ![d] = At(p)]
      BY <1>2 DEF SaveWrap, SaveDisplay, Goto, Done
    <2>2. /\ ui' \in [Computers -> Dialog] /\ ui'[d].pc = p
          /\ \A e \in Computers \ {d} : ui'[e] = ui[e]
      BY <1>0, <2>1, DialogTyped DEF Places
    <2>3. secrets' \in [Computers -> Secrets]
      BY <1>0, <1>2, SecretWritten DEF SaveWrap, SaveDisplay
    <2>4. mishaps' \subseteq Mishaps /\ events' \in Nat
      BY <1>0, <1>2, <1>m, MishapTyped DEF SaveWrap, SaveDisplay, Quiet
    <2>5. CodesKnown'
      BY <1>2, <2>2, CodesKnownKept DEF SaveWrap, SaveDisplay, TypeInv
    <2> QED BY <1>0, <1>2, <2>2, <2>3, <2>4, <2>5
            DEF SaveWrap, SaveDisplay, TypeInv, TypeOK, server, Dialog
  <1>3. CASE Poll(d)
    <2>1. CASE Done(d)
      <3>1. /\ ui' \in [Computers -> Dialog] /\ ui'[d].pc = "idle"
            /\ \A e \in Computers \ {d} : ui'[e] = ui[e]
        BY <1>0, <2>1, DialogTyped DEF Places, Done
      <3>2. CodesKnown'
        BY <1>3, <3>1, CodesKnownKept DEF Poll, TypeInv, server
      <3> QED BY <1>3, <3>1, <3>2 DEF Poll, TypeInv, TypeOK, server, Dialog
    <2>2. CASE ui' = [ui EXCEPT ![d].pc = "consume", ![d].got = codes[ui[d].code].wrapped]
      <3>1. ui[d].pc = "wait" /\ codes[ui[d].code].wrapped \in Keys
        BY <1>3, <1>w DEF Poll, Code
      <3>2. /\ ui' \in [Computers -> Dialog] /\ ui'[d].code = ui[d].code
            /\ \A e \in Computers \ {d} : ui'[e] = ui[e]
        BY <1>0, <2>2, <3>1 DEF Dialog, Places
      <3>3. CodesKnown'
        BY <1>3, <3>1, <3>2, CodesKnownKept DEF Poll, TypeInv, server
      <3> QED BY <1>3, <3>2, <3>3 DEF Poll, TypeInv, TypeOK, server, Dialog
    <2> QED BY <1>3, <2>1, <2>2 DEF Poll
  <1>4. CASE ConsumePairingCode(d) \/ GiveUp(d)
    <2>1. PICK p \in {"install", "wait"} :
             ui' = [ui EXCEPT ![d].pc = p] \/ ui' = [ui EXCEPT ![d].pc = p, ![d].got = 0]
      BY <1>4 DEF ConsumePairingCode, GiveUp, Goto
    <2>2. /\ ui' \in [Computers -> Dialog] /\ ui'[d].code = ui[d].code
          /\ \A e \in Computers \ {d} : ui'[e] = ui[e]
      <3>1. p \in Places
        BY DEF Places
      <3>2. CASE ui' = [ui EXCEPT ![d].pc = p]
        BY <1>0, <3>1, <3>2 DEF Dialog
      <3>3. CASE ui' = [ui EXCEPT ![d].pc = p, ![d].got = 0]
        BY <1>0, <1>k, <3>1, <3>3 DEF Dialog
      <3> QED BY <2>1, <3>2, <3>3
    <2>3. ui[d].pc = "consume"
      BY <1>4 DEF ConsumePairingCode, GiveUp
    <2>4. codes' \in Seq(Code) /\ Len(codes') = Len(codes)
      BY <1>0, <1>4, <1>k, <1>w, <2>3, CodeMarked DEF ConsumePairingCode, GiveUp
    <2>5. given' \in [Codes -> Nat]
      BY <1>0, <1>4, <1>w, <2>3 DEF ConsumePairingCode, GiveUp
    <2>6. late' \subseteq 1..Len(codes)
      BY <1>4, <1>w, <2>3 DEF ConsumePairingCode, GiveUp, TypeInv, CodesKnown
    <2>7. mishaps' \subseteq Mishaps /\ events' \in Nat
      BY <1>0, <1>4, <1>m, MishapTyped DEF ConsumePairingCode, GiveUp, Quiet
    <2>8. Len(codes) <= MaxCodes /\ Len(codes) \in Nat
      BY <1>0 DEF TypeInv, CodesKnown
    <2>9. CodesKnown'
      <3>1. ASSUME NEW e \in Computers, ui'[e].pc \in {"wait", "consume"}
            PROVE  ui'[e].code \in 1..Len(codes)
        BY <1>w, <2>2, <2>3, <3>1 DEF TypeInv, CodesKnown
      <3> QED BY <2>4, <2>6, <2>8, <3>1 DEF CodesKnown
    <2>10. late' \subseteq Codes
      BY <2>6, <2>8 DEF Codes
    <2> QED BY <1>4, <2>2, <2>4, <2>5, <2>7, <2>9, <2>10
            DEF ConsumePairingCode, GiveUp, TypeInv, TypeOK, Dialog
  <1>5. CASE Install(d)
    <2>1. /\ ui' \in [Computers -> Dialog] /\ ui'[d].pc = "savePaired"
          /\ \A e \in Computers \ {d} : ui'[e] = ui[e]
      BY <1>0, <1>5, DialogTyped DEF Places, Install, Goto
    <2>2. key' \in [Computers -> Keys]
      BY <1>0, <1>5 DEF Install, Dialog
    <2>3. CodesKnown'
      BY <1>5, <2>1, CodesKnownKept DEF Install, TypeInv
    <2> QED BY <1>5, <2>1, <2>2, <2>3 DEF Install, TypeInv, TypeOK, server, Dialog
  <1>6. CASE SavePaired(d)
    <2>1. PICK p \in {"dropWrap", "idle"} :
             ui' = [ui EXCEPT ![d].pc = p] \/ ui' = [ui EXCEPT ![d] = At(p)]
      BY <1>6 DEF SavePaired, Goto, Done
    <2>2. /\ ui' \in [Computers -> Dialog] /\ ui'[d].pc = p
          /\ \A e \in Computers \ {d} : ui'[e] = ui[e]
      BY <1>0, <2>1, DialogTyped DEF Places
    <2>3. secrets' \in [Computers -> Secrets] /\ key' \in [Computers -> Keys]
      BY <1>0, <1>6, <1>k, SecretWritten DEF SavePaired
    <2>4. mishaps' \subseteq Mishaps /\ events' \in Nat
      BY <1>0, <1>6, <1>m, MishapTyped DEF SavePaired, Quiet
    <2>5. CodesKnown'
      BY <1>6, <2>2, CodesKnownKept DEF SavePaired, TypeInv
    <2> QED BY <1>0, <1>6, <2>2, <2>3, <2>4, <2>5
            DEF SavePaired, TypeInv, TypeOK, server, Dialog
  <1>7. CASE DropWrap(d) \/ DropDisplay(d)
    <2>1. PICK p \in {"dropDisplay", "idle"} :
             ui' = [ui EXCEPT ![d].pc = p] \/ ui' = [ui EXCEPT ![d] = At(p)]
      BY <1>7 DEF DropWrap, DropDisplay, Goto, Done
    <2>2. /\ ui' \in [Computers -> Dialog] /\ ui'[d].pc = p
          /\ \A e \in Computers \ {d} : ui'[e] = ui[e]
      BY <1>0, <2>1, DialogTyped DEF Places
    <2>3. secrets' \in [Computers -> Secrets]
      BY <1>0, <1>7, <1>k, SecretWritten DEF DropWrap, DropDisplay, Deleted
    <2>4. mishaps' \subseteq Mishaps /\ events' \in Nat
      BY <1>0, <1>7, <1>m, MishapTyped DEF DropWrap, DropDisplay, Deleted, Quiet
    <2>5. CodesKnown'
      BY <1>7, <2>2, CodesKnownKept DEF DropWrap, DropDisplay, TypeInv
    <2> QED BY <1>0, <1>7, <2>2, <2>3, <2>4, <2>5
            DEF DropWrap, DropDisplay, TypeInv, TypeOK, server, Dialog
  <1> QED BY <1>1, <1>2, <1>3, <1>4, <1>5, <1>6, <1>7 DEF Steps

\* The users' commands, restarts included, keep the types.
LEMMA TypeInvCommands ==
    ASSUME TypeInv, NEW d \in Computers, Commands(d)
    PROVE  TypeInv'
  <1> USE KeySetupAssumption
  <1>0. /\ ui \in [Computers -> Dialog] /\ key \in [Computers -> Keys]
        /\ secrets \in [Computers -> Secrets] /\ key[d] \in Keys /\ ui[d] \in Dialog
        /\ mishaps \subseteq Mishaps /\ events \in Nat /\ codes \in Seq(Code)
        /\ given \in [Codes -> Nat] /\ signedIn \in [Computers -> BOOLEAN]
        /\ Len(codes) \in Nat
    BY DEF TypeInv, TypeOK, Dialog
  <1>m. {"unread", "reapproved", "lost", "cancelled", "crash"} \subseteq Mishaps
    BY DEF Mishaps
  <1>k. 0 \in Keys
    BY DEF Keys
  <1>p. ASSUME NEW p \in Places \ {"wait", "consume"}, UNCHANGED server,
               ui' = [ui EXCEPT ![d].pc = p] \/ ui' = [ui EXCEPT ![d] = At(p)]
        PROVE  ui' \in [Computers -> Dialog] /\ CodesKnown'
    <2>1. /\ ui' \in [Computers -> Dialog] /\ ui'[d].pc = p
          /\ \A e \in Computers \ {d} : ui'[e] = ui[e]
      BY <1>0, <1>p, DialogTyped
    <2> QED BY <1>p, <2>1, CodesKnownKept DEF TypeInv
  <1>1. CASE SignIn(d)
    <2>1. PICK p \in {"asked", "idle"} :
             ui' = [ui EXCEPT ![d].pc = p] \/ ui' = [ui EXCEPT ![d] = At(p)]
      BY <1>1 DEF SignIn, Goto, Done
    <2>2. ui' \in [Computers -> Dialog] /\ CodesKnown'
      BY <1>1, <1>p, <2>1 DEF Places, SignIn
    <2>3. signedIn' \in [Computers -> BOOLEAN]
      BY <1>0, <1>1 DEF SignIn
    <2> QED BY <1>1, <2>2, <2>3 DEF SignIn, TypeInv, TypeOK, server, Dialog
  <1>2. CASE Decline(d)
    <2>1. ui' \in [Computers -> Dialog] /\ CodesKnown'
      BY <1>2, <1>p DEF Places, Decline, Done
    <2> QED BY <1>2, <2>1 DEF Decline, TypeInv, TypeOK, server, Dialog
  <1>3. CASE applyWizardKeyStep(d)
    <2>1. ui' \in [Computers -> Dialog] /\ CodesKnown'
      BY <1>3, <1>p DEF Places, applyWizardKeyStep, Goto
    <2>2. minted + 1 \in Keys /\ minted' = minted + 1
      BY <1>3 DEF applyWizardKeyStep, TypeInv, TypeOK, Keys
    <2>3. key' \in [Computers -> Keys]
      BY <1>0, <1>3, <2>2 DEF applyWizardKeyStep
    <2> QED BY <1>3, <2>1, <2>2, <2>3 DEF applyWizardKeyStep, TypeInv, TypeOK, server, Dialog
  <1>4. CASE getMyNotes(d)
    <2>1. [user |-> d, wrapped |-> 0, consumed |-> FALSE, expired |-> FALSE] \in Code
      BY <1>k DEF Code
    <2>2. codes' \in Seq(Code) /\ Len(codes') = Len(codes) + 1 /\ Len(codes) + 1 <= MaxCodes
      BY <1>0, <1>4, <2>1, AppendProperties DEF getMyNotes, NewCode
    <2>3. /\ ui' \in [Computers -> Dialog]
          /\ \A e \in Computers \ {d} : ui'[e] = ui[e]
          /\ ui'[d].pc = "wait" => ui'[d].code = Len(codes) + 1
          /\ ui'[d].pc \in {"wait", "idle"}
      <3>1. CASE ui' = [ui EXCEPT ![d] = [At("wait") EXCEPT !.code = Len(codes) + 1,
                                                            !.agreed = hasMasterKey(d)]]
        <4> DEFINE a == hasMasterKey(d)
                   w == [At("wait") EXCEPT !.code = Len(codes) + 1, !.agreed = a]
        <4>1. a \in BOOLEAN
          BY Zenon DEF hasMasterKey
        <4>2. w \in Dialog /\ w.pc = "wait" /\ w.code = Len(codes) + 1
          <5> HIDE DEF a
          <5>1. Len(codes) + 1 \in 0..MaxCodes
            BY <1>0, <2>2
          <5> QED BY <4>1, <5>1, WaitingTyped, Zenon
        <4>3. ui' = [ui EXCEPT ![d] = w]
          BY <3>1
        <4> HIDE DEF w
        <4> QED BY <1>0, <4>2, <4>3
      <3>2. CASE Done(d)
        BY <1>0, <3>2, DialogTyped DEF Done, Places
      <3> QED BY <1>4, <3>1, <3>2 DEF getMyNotes
    <2>4. mishaps' \subseteq Mishaps /\ events' \in Nat
      BY <1>0, <1>4, <1>m, MishapTyped DEF getMyNotes, Quiet
    <2>5. CodesKnown'
      <3>1. late' \subseteq 1..Len(codes')
        BY <1>0, <1>4, <2>2 DEF getMyNotes, TypeInv, CodesKnown
      <3>2. ASSUME NEW e \in Computers, ui'[e].pc \in {"wait", "consume"}
            PROVE  ui'[e].code \in 1..Len(codes')
        <4>1. CASE e = d
          BY <1>0, <2>2, <2>3, <3>2, <4>1
        <4>2. CASE e # d
          BY <1>0, <2>2, <2>3, <3>2, <4>2 DEF TypeInv, CodesKnown
        <4> QED BY <4>1, <4>2
      <3> QED BY <2>2, <3>1, <3>2 DEF CodesKnown
    <2> QED BY <1>4, <2>2, <2>3, <2>4, <2>5 DEF getMyNotes, TypeInv, TypeOK, Dialog
  <1>5. CASE Cancel(d)
    <2>1. ui' \in [Computers -> Dialog] /\ CodesKnown'
      BY <1>5, <1>p DEF Places, Cancel, Done
    <2>2. mishaps' \subseteq Mishaps /\ events' \in Nat
      BY <1>0, <1>5, <1>m, MishapTyped DEF Cancel
    <2> QED BY <1>5, <2>1, <2>2 DEF Cancel, TypeInv, TypeOK, server, Dialog
  <1>6. CASE SignOut(d)
    <2>1. signedIn' \in [Computers -> BOOLEAN] /\ events' \in Nat
      BY <1>0, <1>6 DEF SignOut, Event
    <2> QED BY <1>6, <2>1 DEF SignOut, TypeInv, TypeOK, CodesKnown, server
  <1>7. CASE Restart(d)
    <2>1. PICK p \in {"idle", "setup"} : ui' = [ui EXCEPT ![d] = At(p)]
      BY <1>7 DEF Restart
    <2>2. ui' \in [Computers -> Dialog] /\ CodesKnown'
      BY <1>7, <1>p, <2>1 DEF Places, Restart
    <2>3. secrets[d].master \in Keys
      BY <1>0 DEF Secrets
    <2>4. key' \in [Computers -> Keys]
      BY <1>0, <1>7, <1>k, <2>3 DEF Restart
    <2>5. mishaps' \subseteq Mishaps /\ events' \in Nat
      BY <1>0, <1>7, <1>m DEF Restart, Event
    <2> QED BY <1>7, <2>2, <2>4, <2>5 DEF Restart, TypeInv, TypeOK, server, Dialog
  <1>8. ASSUME NEW c \in Codes, ApprovePairingCode(d, c) PROVE TypeInv'
    <2>1. c \in 1..Len(codes)
      BY <1>0, <1>8, LenProperties DEF ApprovePairingCode
    <2>2. codes' \in Seq(Code) /\ Len(codes') = Len(codes)
      BY <1>0, <1>8, <2>1, CodeMarked DEF ApprovePairingCode
    <2>3. mishaps' \subseteq Mishaps
      BY <1>0, <1>8, <1>m DEF ApprovePairingCode
    <2> QED BY <1>8, <2>2, <2>3 DEF ApprovePairingCode, TypeInv, TypeOK, CodesKnown
  <1> QED BY <1>1, <1>2, <1>3, <1>4, <1>5, <1>6, <1>7, <1>8 DEF Commands

\* What happens on the server alone keeps the types.
LEMMA TypeInvServer ==
    ASSUME TypeInv, NEW c \in Codes, LateConsume(c) \/ Expire(c)
    PROVE  TypeInv'
  <1>0. /\ codes \in Seq(Code) /\ given \in [Codes -> Nat] /\ mishaps \subseteq Mishaps
        /\ events \in Nat
    BY DEF TypeInv, TypeOK
  <1>1. c \in 1..Len(codes)
    BY DEF TypeInv, CodesKnown, LateConsume, Expire
  <1>2. codes' \in Seq(Code) /\ Len(codes') = Len(codes)
    <2>1. 0 \in Keys
      BY KeySetupAssumption DEF Keys
    <2> QED BY <1>0, <1>1, <2>1, CodeMarked DEF LateConsume, Expire
  <1>3. given' \in [Codes -> Nat]
    BY <1>0 DEF LateConsume, Expire
  <1>4. mishaps' \subseteq Mishaps /\ events' \in Nat
    <2>1. "expired" \in Mishaps
      BY DEF Mishaps
    <2> QED BY <1>0, <2>1, MishapTyped DEF LateConsume, Expire
  <1> QED BY <1>2, <1>3, <1>4 DEF LateConsume, Expire, TypeInv, TypeOK, CodesKnown

\* Every step keeps the types.
LEMMA TypeInvNext == TypeInv /\ [Next]_vars => TypeInv'
  <1> SUFFICES ASSUME TypeInv, [Next]_vars PROVE TypeInv'
    OBVIOUS
  <1>1. CASE UNCHANGED vars
    BY <1>1 DEF vars, server, TypeInv, TypeOK, CodesKnown
  <1> QED BY <1>1, TypeInvSteps, TypeInvCommands, TypeInvServer DEF Next

\* Every variable of the computers and of the server keeps its type, and a poll is
\* always about a code of the table.
THEOREM TypeCorrect == Spec => []TypeOK
  <1>1. TypeInv => TypeOK
    BY DEF TypeInv
  <1> QED BY <1>1, TypeInvInit, TypeInvNext, PTL DEF Spec

-----------------------------------------------------------------------------
(* The secrets of one computer.                                            *)

\* The steps of a computer leave the others alone, and what happened stays happened.
LEMMA OneComputer ==
    ASSUME TypeInv, NEW d \in Computers, Steps(d) \/ GiveUp(d) \/ Commands(d)
    PROVE  /\ \A e \in Computers \ {d} :
                 ui'[e] = ui[e] /\ key'[e] = key[e] /\ secrets'[e] = secrets[e]
           /\ mishaps \subseteq mishaps'
  <1>0. /\ ui \in [Computers -> Dialog] /\ key \in [Computers -> Keys]
        /\ secrets \in [Computers -> Secrets]
    BY DEF TypeInv, TypeOK, Dialog
  <1>1. ASSUME Steps(d) \/ GiveUp(d)
        PROVE  /\ \A e \in Computers \ {d} :
                     ui'[e] = ui[e] /\ key'[e] = key[e] /\ secrets'[e] = secrets[e]
               /\ mishaps \subseteq mishaps'
    BY <1>0, <1>1 DEF Steps, GiveUp, SaveMinted, SaveWrap, SaveDisplay, Poll, ConsumePairingCode,
       Install, SavePaired, DropWrap, DropDisplay, Goto, Done, Written, Deleted, Quiet, Mishap
  <1>2. ASSUME Commands(d)
        PROVE  /\ \A e \in Computers \ {d} :
                     ui'[e] = ui[e] /\ key'[e] = key[e] /\ secrets'[e] = secrets[e]
               /\ mishaps \subseteq mishaps'
    <2>1. CASE SignIn(d) \/ Decline(d) \/ applyWizardKeyStep(d) \/ Cancel(d) \/ SignOut(d)
      BY <1>0, <2>1 DEF SignIn, Decline, applyWizardKeyStep, Cancel, SignOut, Goto, Done, Mishap
    <2>2. CASE getMyNotes(d)
      BY <1>0, <2>2 DEF getMyNotes, Done, Quiet, Mishap
    <2>3. CASE Restart(d)
      BY <1>0, <2>3 DEF Restart
    <2>4. CASE \E c \in Codes : ApprovePairingCode(d, c)
      BY <2>4 DEF ApprovePairingCode
    <2> QED BY <1>2, <2>1, <2>2, <2>3, <2>4 DEF Commands
  <1> QED BY <1>1, <1>2

\* The server changes no computer.
LEMMA ServerAlone ==
    ASSUME NEW c \in Codes, LateConsume(c) \/ Expire(c)
    PROVE  ui' = ui /\ key' = key /\ secrets' = secrets /\ mishaps \subseteq mishaps'
  BY DEF LateConsume, Expire, Mishap

\* The fields of a computer's secrets once one of them has been written.
LEMMA SecretFields ==
    ASSUME secrets \in [Computers -> Secrets], NEW d \in Computers, NEW n \in Keys,
           NEW name \in {"master", "wrap", "display"}, Written(d, name, n)
    PROVE  /\ secrets'[d].master = IF name = "master" THEN n ELSE secrets[d].master
           /\ secrets'[d].wrap = IF name = "wrap" THEN n ELSE secrets[d].wrap
           /\ secrets'[d].display = IF name = "display" THEN n ELSE secrets[d].display
  <1>1. secrets[d] \in Secrets
    OBVIOUS
  <1>2. secrets'[d] = [secrets[d] EXCEPT ![name] = n]
    BY DEF Written
  <1> QED BY <1>1, <1>2 DEF Secrets

\* The place of a dialog once it has gone on or ended.
LEMMA Place ==
    ASSUME ui \in [Computers -> Dialog], NEW d \in Computers
    PROVE  /\ \A pc \in Places : Goto(d, pc) =>
                 /\ ui'[d].pc = pc /\ ui'[d].got = ui[d].got /\ ui'[d].agreed = ui[d].agreed
                 /\ ui'[d].code = ui[d].code
           /\ Done(d) => ui'[d].pc = "idle"
  BY DEF Goto, Done, Dialog, At

\* The place of a dialog that waits.
LEMMA WaitPlace ==
    ASSUME ui \in [Computers -> Dialog], NEW d \in Computers,
           ui' = [ui EXCEPT ![d] = [At("wait") EXCEPT !.code = Len(codes) + 1,
                                                      !.agreed = hasMasterKey(d)]]
    PROVE  ui'[d].pc = "wait" /\ ui'[d].code = Len(codes) + 1 /\ ui'[d].agreed = (key[d] # 0)
  BY Zenon DEF At, hasMasterKey

\* The steps of a computer keep its secrets in agreement.
LEMMA SecretsAtSteps ==
    ASSUME TypeInv, NEW d \in Computers, Steps(d) \/ GiveUp(d), SecretsAt(d),
           mishaps' \cap {"unsaved", "undeleted", "unread", "crash"} = {}
    PROVE  SecretsAt(d)'
  <1>0. /\ ui \in [Computers -> Dialog] /\ key \in [Computers -> Keys]
        /\ secrets \in [Computers -> Secrets] /\ key[d] \in Keys /\ 0 \in Keys
        /\ secrets[d] \in Secrets /\ ui[d] \in Dialog
    BY KeySetupAssumption DEF TypeInv, TypeOK, Dialog, Keys
  <1>m. ~Mishap("unsaved") /\ ~Mishap("undeleted")
    BY DEF Mishap
  <1>1. CASE SaveMinted(d)
    <2>1. /\ Written(d, "master", key[d]) /\ Goto(d, "saveWrap") /\ key' = key
          /\ ui[d].pc = "saveKey"
      BY <1>1, <1>m DEF SaveMinted
    <2>2. ui'[d].pc = "saveWrap"
      BY <1>0, <2>1, Place DEF Places
    <2> QED BY <1>0, <2>1, <2>2, SecretFields DEF SecretsAt, AtRest
  <1>2. CASE SaveWrap(d)
    <2>1. /\ Written(d, "wrap", key[d]) /\ Goto(d, "saveDisplay") /\ key' = key
          /\ ui[d].pc = "saveWrap"
      BY <1>2, <1>m DEF SaveWrap
    <2>2. ui'[d].pc = "saveDisplay"
      BY <1>0, <2>1, Place DEF Places
    <2> QED BY <1>0, <2>1, <2>2, SecretFields DEF SecretsAt, AtRest
  <1>3. CASE SaveDisplay(d)
    <2>1. /\ Written(d, "display", key[d]) /\ Done(d) /\ key' = key
          /\ ui[d].pc = "saveDisplay"
      BY <1>3, <1>m DEF SaveDisplay
    <2>2. ui'[d].pc = "idle"
      BY <1>0, <2>1, Place
    <2> QED BY <1>0, <2>1, <2>2, SecretFields DEF SecretsAt, AtRest
  <1>4. CASE Poll(d) \/ ConsumePairingCode(d) \/ GiveUp(d)
    <2>1. key' = key /\ secrets' = secrets
      BY <1>4 DEF Poll, ConsumePairingCode, GiveUp
    <2>2. ui[d].pc \in {"wait", "consume"} /\ ui'[d].pc \in {"idle", "wait", "consume", "install"}
      BY <1>0, <1>4 DEF Poll, ConsumePairingCode, GiveUp, Goto, Done, At, Dialog
    <2> QED BY <2>1, <2>2 DEF SecretsAt, AtRest
  <1>5. CASE Install(d)
    <2>1. ui'[d].pc = "savePaired"
      BY <1>0, <1>5, Place DEF Install, Places
    <2> QED BY <2>1 DEF SecretsAt, AtRest
  <1>6. CASE SavePaired(d)
    <2>1. Written(d, "master", key[d]) /\ Goto(d, "dropWrap") /\ key' = key
      BY <1>6, <1>m DEF SavePaired
    <2>2. ui'[d].pc = "dropWrap"
      BY <1>0, <2>1, Place DEF Places
    <2> QED BY <1>0, <2>1, <2>2, SecretFields DEF SecretsAt, AtRest
  <1>7. CASE DropWrap(d)
    <2>1. Written(d, "wrap", 0) /\ Goto(d, "dropDisplay") /\ key' = key /\ ui[d].pc = "dropWrap"
      BY <1>7, <1>m DEF DropWrap, Deleted
    <2>2. ui'[d].pc = "dropDisplay"
      BY <1>0, <2>1, Place DEF Places
    <2> QED BY <1>0, <2>1, <2>2, SecretFields DEF SecretsAt, AtRest
  <1>8. CASE DropDisplay(d)
    <2>1. Written(d, "display", 0) /\ Done(d) /\ key' = key /\ ui[d].pc = "dropDisplay"
      BY <1>8, <1>m DEF DropDisplay, Deleted
    <2>2. ui'[d].pc = "idle"
      BY <1>0, <2>1, Place
    <2> QED BY <1>0, <2>1, <2>2, SecretFields DEF SecretsAt, AtRest
  <1> QED BY <1>1, <1>2, <1>3, <1>4, <1>5, <1>6, <1>7, <1>8 DEF Steps

\* So do its commands.
LEMMA SecretsAtCommands ==
    ASSUME TypeInv, NEW d \in Computers, Commands(d), SecretsAt(d),
           mishaps' \cap {"unsaved", "undeleted", "unread", "crash"} = {}
    PROVE  SecretsAt(d)'
  <1>0. /\ ui \in [Computers -> Dialog] /\ key \in [Computers -> Keys]
        /\ secrets \in [Computers -> Secrets] /\ ui[d] \in Dialog
    BY DEF TypeInv, TypeOK, Dialog
  <1>1. CASE SignIn(d) \/ Decline(d) \/ Cancel(d) \/ getMyNotes(d)
    <2>1. key' = key /\ secrets' = secrets
      BY <1>1 DEF SignIn, Decline, Cancel, getMyNotes
    <2>2. ui[d].pc \in {"setup", "asked", "idle", "wait"} /\ ui'[d].pc \in {"idle", "asked", "wait"}
      <3>1. CASE SignIn(d) \/ Decline(d) \/ Cancel(d)
        BY <1>0, <3>1, Place DEF SignIn, Decline, Cancel, Places
      <3>2. CASE getMyNotes(d)
        BY <1>0, <3>2, Place, WaitPlace DEF getMyNotes
      <3> QED BY <1>1, <3>1, <3>2
    <2> QED BY <2>1, <2>2 DEF SecretsAt, AtRest
  <1>2. CASE applyWizardKeyStep(d)
    <2>1. ui'[d].pc = "saveKey" /\ secrets' = secrets /\ ui[d].pc = "asked" /\ key[d] = 0
      BY <1>0, <1>2, Place DEF applyWizardKeyStep, Places, hasMasterKey
    <2> QED BY <2>1 DEF SecretsAt, AtRest
  <1>3. CASE SignOut(d) \/ \E c \in Codes : ApprovePairingCode(d, c)
    BY <1>3 DEF SignOut, ApprovePairingCode, SecretsAt
  <1>4. CASE Restart(d)
    <2>1. "unread" \notin mishaps' /\ "crash" \notin mishaps'
      OBVIOUS
    <2>2. /\ key' = [key EXCEPT ![d] = secrets[d].master] /\ ui[d].pc \in AtRest
          /\ secrets' = secrets
      BY <1>4, <2>1 DEF Restart, AtRest
    <2>3. ui'[d].pc \in {"idle", "setup"}
      BY <1>0, <1>4 DEF Restart, At
    <2>4. key'[d] = secrets[d].master
      BY <1>0, <2>2
    <2> QED BY <2>2, <2>3, <2>4 DEF SecretsAt, AtRest
  <1> QED BY <1>1, <1>2, <1>3, <1>4 DEF Commands

\* SecretsInv is an invariant.
LEMMA SecretsInvNext == TypeInv /\ SecretsInv /\ [Next]_vars => SecretsInv'
  <1> SUFFICES ASSUME TypeInv, SecretsInv, [Next]_vars,
                      mishaps' \cap {"unsaved", "undeleted", "unread", "crash"} = {},
                      NEW e \in Computers
               PROVE  SecretsAt(e)'
    BY DEF SecretsInv
  <1>1. ASSUME NEW d \in Computers, Steps(d) \/ GiveUp(d) \/ Commands(d)
        PROVE  SecretsAt(e)'
    <2>1. SecretsAt(e)
      BY <1>1, OneComputer DEF SecretsInv
    <2>2. CASE e = d
      BY <1>1, <2>1, <2>2, SecretsAtSteps, SecretsAtCommands
    <2>3. CASE e # d
      BY <1>1, <2>1, <2>3, OneComputer DEF SecretsAt
    <2> QED BY <2>2, <2>3
  <1>2. ASSUME NEW c \in Codes, LateConsume(c) \/ Expire(c)
        PROVE  SecretsAt(e)'
    BY <1>2, ServerAlone DEF SecretsInv, SecretsAt
  <1>3. CASE UNCHANGED vars
    BY <1>3 DEF vars, SecretsInv, SecretsAt
  <1> QED BY <1>1, <1>2, <1>3 DEF Next

\* Between two commands a computer works with the key it will find after a restart, and
\* the recovery string in its settings opens a wrap of that key, for any number of
\* computers, keys minted, replaced or fetched, unless a secret could not be written,
\* deleted or read, or Notepad++ ended inside the setup.
THEOREM SecretsAgreeCorrect == Spec => []SecretsAgree
  <1>1. Init => SecretsInv
    <2> SUFFICES ASSUME Init, NEW d \in Computers PROVE SecretsAt(d)
      BY DEF SecretsInv
    <2>1. /\ ui[d].pc = "setup" /\ key[d] = 0
          /\ secrets[d] = [master |-> 0, wrap |-> 0, display |-> 0]
      BY DEF Init, At
    <2> QED BY <2>1 DEF SecretsAt, AtRest
  <1>2. SecretsInv => SecretsAgree
    BY DEF SecretsInv, SecretsAt, SecretsAgree
  <1> QED BY <1>1, <1>2, TypeInvInit, TypeInvNext, SecretsInvNext, PTL DEF Spec

-----------------------------------------------------------------------------
(* A key that is installed is kept.                                        *)

\* What a pairing brings is a key, and a computer that has one knows it.
LEMMA KeptAtSteps ==
    ASSUME TypeInv, NEW d \in Computers, Steps(d) \/ GiveUp(d), GotAt(d)
    PROVE  /\ GotAt(d)'
           /\ mishaps' \cap {"unread", "unsaved"} = {} /\ KeptAt(d) => KeptAt(d)'
  <1>0. /\ ui \in [Computers -> Dialog] /\ key \in [Computers -> Keys]
        /\ secrets \in [Computers -> Secrets] /\ key[d] \in Keys /\ 0 \in Keys
        /\ secrets[d] \in Secrets /\ ui[d] \in Dialog
    BY KeySetupAssumption DEF TypeInv, TypeOK, Dialog, Keys
  <1>1. CASE SaveMinted(d) \/ SavePaired(d)
    <2>1. CASE /\ Written(d, "master", key[d]) /\ key' = key
               /\ Goto(d, "saveWrap") \/ Goto(d, "dropWrap")
      <3>1. ui'[d].pc \in {"saveWrap", "dropWrap"}
        BY <1>0, <2>1, Place DEF Places
      <3>2. secrets'[d].master = key[d]
        BY <1>0, <2>1, SecretFields
      <3> QED BY <2>1, <3>1, <3>2 DEF GotAt, KeptAt
    <2>2. CASE Mishap("unsaved") /\ Done(d)
      <3>1. ui'[d].pc = "idle"
        BY <1>0, <2>2, Place
      <3>2. "unsaved" \in mishaps'
        BY <2>2 DEF Mishap
      <3> QED BY <3>1, <3>2 DEF GotAt
    <2> QED BY <1>1, <2>1, <2>2 DEF SaveMinted, SavePaired
  <1>2. CASE SaveWrap(d) \/ SaveDisplay(d) \/ DropWrap(d) \/ DropDisplay(d)
    <2>1. key' = key /\ ui'[d].pc \in {"idle", "saveDisplay", "dropDisplay"}
      BY <1>0, <1>2, Place DEF SaveWrap, SaveDisplay, DropWrap, DropDisplay, Places
    <2>2. secrets'[d].master = secrets[d].master
      BY <1>0, <1>2, SecretFields DEF SaveWrap, SaveDisplay, DropWrap, DropDisplay, Deleted
    <2> QED BY <2>1, <2>2 DEF GotAt, KeptAt
  <1>3. CASE Poll(d) \/ ConsumePairingCode(d) \/ GiveUp(d)
    <2>1. key' = key /\ secrets' = secrets /\ ui[d].pc \in {"wait", "consume"}
      BY <1>3 DEF Poll, ConsumePairingCode, GiveUp
    <2>2. \/ ui'[d].pc = "idle"
          \/ ui'[d].pc \in {"wait", "consume", "install"} /\ ui'[d].agreed = ui[d].agreed
      <3>1. CASE Poll(d)
        BY <1>0, <3>1, Place DEF Poll, Dialog
      <3>2. CASE ConsumePairingCode(d) \/ GiveUp(d)
        BY <1>0, <3>2, Place DEF ConsumePairingCode, GiveUp, Dialog, Places
      <3> QED BY <1>3, <3>1, <3>2
    <2>3. GotAt(d)'
      <3>1. CASE Poll(d)
        BY <1>0, <3>1, Place DEF Poll, Dialog, GotAt
      <3>2. CASE ConsumePairingCode(d) /\ Goto(d, "install")
        BY <1>0, <3>2, Place DEF ConsumePairingCode, Places, GotAt
      <3>3. CASE ui' = [ui EXCEPT ![d].pc = "wait", ![d].got = 0]
        BY <1>0, <3>3 DEF Dialog, GotAt
      <3> QED BY <1>3, <3>1, <3>2, <3>3 DEF ConsumePairingCode, GiveUp
    <2> QED BY <2>1, <2>2, <2>3 DEF KeptAt
  <1>4. CASE Install(d)
    <2>1. /\ ui[d].pc = "install" /\ key'[d] = ui[d].got /\ secrets' = secrets
          /\ ui'[d].pc = "savePaired" /\ ui'[d].agreed = ui[d].agreed
      BY <1>0, <1>4, Place DEF Install, Places
    <2> QED BY <2>1 DEF GotAt, KeptAt
  <1> QED BY <1>1, <1>2, <1>3, <1>4 DEF Steps

\* The same of its commands: the wizard mints only where no key is known, and Get my notes
\* asks where one is.
LEMMA KeptAtCommands ==
    ASSUME TypeInv, NEW d \in Computers, Commands(d), GotAt(d)
    PROVE  /\ GotAt(d)'
           /\ mishaps' \cap {"unread", "unsaved"} = {} /\ KeptAt(d) => KeptAt(d)'
  <1>0. /\ ui \in [Computers -> Dialog] /\ key \in [Computers -> Keys]
        /\ secrets \in [Computers -> Secrets] /\ ui[d] \in Dialog
    BY DEF TypeInv, TypeOK, Dialog
  <1>1. CASE SignIn(d) \/ Decline(d) \/ Cancel(d)
    <2>1. key' = key /\ secrets' = secrets /\ ui'[d].pc \in {"idle", "asked"}
      BY <1>0, <1>1, Place DEF SignIn, Decline, Cancel, Places
    <2> QED BY <2>1 DEF KeptAt, GotAt
  <1>2. CASE getMyNotes(d)
    <2>1. key' = key /\ secrets' = secrets
      BY <1>2 DEF getMyNotes
    <2>2. ui'[d].pc = "idle" \/ (ui'[d].pc = "wait" /\ ui'[d].agreed = (key[d] # 0))
      BY <1>0, <1>2, Place, WaitPlace DEF getMyNotes
    <2> QED BY <2>1, <2>2 DEF KeptAt, GotAt
  <1>3. CASE applyWizardKeyStep(d)
    <2>1. ui'[d].pc = "saveKey" /\ secrets' = secrets /\ key[d] = 0
      BY <1>0, <1>3, Place DEF applyWizardKeyStep, Places, hasMasterKey
    <2> QED BY <2>1 DEF KeptAt, GotAt
  <1>4. CASE SignOut(d) \/ \E c \in Codes : ApprovePairingCode(d, c)
    BY <1>4 DEF SignOut, ApprovePairingCode, KeptAt, GotAt
  <1>5. CASE Restart(d)
    <2>1. secrets' = secrets /\ ui'[d].pc \in {"idle", "setup"}
      BY <1>0, <1>5 DEF Restart, At
    <2>2. "unread" \in mishaps' \/ key'[d] = secrets[d].master
      BY <1>0, <1>5 DEF Restart
    <2> QED BY <2>1, <2>2 DEF KeptAt, GotAt
  <1> QED BY <1>1, <1>2, <1>3, <1>4, <1>5 DEF Commands

\* KeptInv is an invariant.
LEMMA KeptInvNext == TypeInv /\ KeptInv /\ [Next]_vars => KeptInv'
  <1> SUFFICES ASSUME TypeInv, KeptInv, [Next]_vars, NEW e \in Computers
               PROVE  /\ GotAt(e)'
                      /\ mishaps' \cap {"unread", "unsaved"} = {} => KeptAt(e)'
    BY DEF KeptInv
  <1>0. GotAt(e) /\ (mishaps \cap {"unread", "unsaved"} = {} => KeptAt(e))
    BY DEF KeptInv
  <1>1. ASSUME NEW d \in Computers, Steps(d) \/ GiveUp(d) \/ Commands(d)
        PROVE  GotAt(e)' /\ (mishaps' \cap {"unread", "unsaved"} = {} => KeptAt(e)')
    <2>1. mishaps \subseteq mishaps'
      BY <1>1, OneComputer
    <2>2. CASE e = d
      BY <1>0, <1>1, <2>1, <2>2, KeptAtSteps, KeptAtCommands
    <2>3. CASE e # d
      BY <1>0, <1>1, <2>1, <2>3, OneComputer DEF KeptAt, GotAt
    <2> QED BY <2>2, <2>3
  <1>2. ASSUME NEW c \in Codes, LateConsume(c) \/ Expire(c)
        PROVE  GotAt(e)' /\ (mishaps' \cap {"unread", "unsaved"} = {} => KeptAt(e)')
    BY <1>0, <1>2, ServerAlone DEF KeptAt, GotAt
  <1>3. CASE UNCHANGED vars
    BY <1>0, <1>3 DEF vars, KeptAt, GotAt
  <1> QED BY <1>1, <1>2, <1>3 DEF Next

\* The key among the secrets is written by the wizard and by a pairing only.
LEMMA MasterWritten ==
    ASSUME TypeInv, [Next]_vars, NEW e \in Computers, secrets'[e].master # secrets[e].master
    PROVE  ui[e].pc \in {"saveKey", "savePaired"}
  <1>0. /\ secrets \in [Computers -> Secrets] /\ key \in [Computers -> Keys] /\ 0 \in Keys
    BY KeySetupAssumption DEF TypeInv, TypeOK, Keys
  <1>1. ASSUME NEW d \in Computers, Steps(d) \/ GiveUp(d)
        PROVE  ui[e].pc \in {"saveKey", "savePaired"}
    <2>1. e = d
      BY <1>1, OneComputer
    <2>2. CASE SaveWrap(d) \/ SaveDisplay(d) \/ DropWrap(d) \/ DropDisplay(d)
      <3>1. secrets'[d].master = secrets[d].master
        BY <1>0, <2>2, SecretFields DEF SaveWrap, SaveDisplay, DropWrap, DropDisplay, Deleted
      <3> QED BY <2>1, <3>1
    <2>3. CASE Poll(d) \/ ConsumePairingCode(d) \/ Install(d) \/ GiveUp(d)
      BY <2>3 DEF Poll, ConsumePairingCode, Install, GiveUp
    <2>4. CASE SaveMinted(d) \/ SavePaired(d)
      BY <2>1, <2>4 DEF SaveMinted, SavePaired
    <2> QED BY <1>1, <2>2, <2>3, <2>4 DEF Steps
  <1>2. ASSUME NEW d \in Computers, Commands(d)
        PROVE  FALSE
    BY <1>2 DEF Commands, SignIn, Decline, applyWizardKeyStep, getMyNotes, Cancel, SignOut,
       Restart, ApprovePairingCode
  <1>3. ASSUME NEW c \in Codes, LateConsume(c) \/ Expire(c) PROVE FALSE
    BY <1>3, ServerAlone
  <1>4. CASE UNCHANGED vars
    BY <1>4 DEF vars
  <1> QED BY <1>1, <1>2, <1>3, <1>4 DEF Next

\* A key that is installed on a computer is replaced only by a pairing whose question the
\* user answered with yes, crashes and lost answers included; a key that was not read at
\* the start, or was given up because it could not be saved, counts as none.
THEOREM InstalledKeyKeptCorrect == Spec => InstalledKeyKept
  <1> DEFINE Kept ==
         \A d \in Computers :
            secrets[d].master # 0 /\ secrets'[d].master # secrets[d].master =>
               ui[d].agreed \/ mishaps \cap {"unread", "unsaved"} # {}
  <1>1. Init => KeptInv
    <2> SUFFICES ASSUME Init, NEW d \in Computers PROVE GotAt(d) /\ KeptAt(d)
      BY DEF KeptInv
    <2>1. ui[d].pc = "setup" /\ secrets[d].master = 0
      BY DEF Init, At
    <2> QED BY <2>1 DEF KeptAt, GotAt
  <1>2. TypeInv /\ KeptInv /\ [Next]_vars => [Kept]_vars
    <2> SUFFICES ASSUME TypeInv, KeptInv, [Next]_vars, NEW d \in Computers,
                        secrets[d].master # 0, secrets'[d].master # secrets[d].master,
                        mishaps \cap {"unread", "unsaved"} = {}
                 PROVE  ui[d].agreed
      OBVIOUS
    <2>1. ui[d].pc \in {"saveKey", "savePaired"} /\ KeptAt(d)
      BY MasterWritten DEF KeptInv
    <2> QED BY <2>1 DEF KeptAt
  <1> QED BY <1>1, <1>2, TypeInvInit, TypeInvNext, KeptInvNext, PTL DEF Spec, InstalledKeyKept

-----------------------------------------------------------------------------
(* A code is used once.                                                    *)

\* The steps that leave the server alone.
LEMMA UseInvComputers ==
    ASSUME TypeInv, CodesUse, \A e \in Computers : UseAt(e), NEW d \in Computers,
           Steps(d) \/ Commands(d), UNCHANGED server
    PROVE  CodesUse' /\ \A e \in Computers : UseAt(e)'
  <1>0. ui \in [Computers -> Dialog] /\ ui[d] \in Dialog
    BY DEF TypeInv, TypeOK, Dialog
  <1>1. codes' = codes /\ late' = late /\ given' = given
    BY DEF server
  <1>2. \A e \in Computers \ {d} : ui'[e] = ui[e]
    BY OneComputer
  <1>3. UseAt(d)'
    <2>1. CASE Poll(d)
      <3>1. CASE Done(d)
        BY <1>0, <3>1, Place DEF UseAt
      <3>2. CASE ui' = [ui EXCEPT ![d].pc = "consume", ![d].got = codes[ui[d].code].wrapped]
        <4>1. ui'[d].pc = "consume" /\ ui'[d].code = ui[d].code
          BY <1>0, <3>2 DEF Dialog
        <4>2. ui[d].pc = "wait" /\ (~codes[ui[d].code].consumed \/ Done(d))
          BY <2>1 DEF Poll
        <4> QED BY <1>1, <3>1, <4>1, <4>2 DEF UseAt
      <3> QED BY <2>1, <3>1, <3>2 DEF Poll
    <2>2. CASE ui' = ui
      BY <1>1, <2>2 DEF UseAt
    <2>3. CASE ui'[d].pc \notin {"wait", "consume"}
      BY <2>3 DEF UseAt
    <2>4. CASE SaveMinted(d) \/ SaveWrap(d) \/ SaveDisplay(d)
      <3>1. ui'[d].pc \in {"saveWrap", "saveDisplay", "idle"}
        BY <1>0, <2>4, Place DEF SaveMinted, SaveWrap, SaveDisplay, Places
      <3> QED BY <2>3, <3>1
    <2>5. CASE Install(d) \/ SavePaired(d) \/ DropWrap(d) \/ DropDisplay(d)
      <3>1. ui'[d].pc \in {"savePaired", "dropWrap", "dropDisplay", "idle"}
        BY <1>0, <2>5, Place DEF Install, SavePaired, DropWrap, DropDisplay, Places
      <3> QED BY <2>3, <3>1
    <2>6. CASE ConsumePairingCode(d)
      <3>1. ui[d].pc = "consume" /\ ui[d].code \in Codes /\ given \in [Codes -> Nat]
        <4>1. ui[d].code \in 1..Len(codes) /\ Len(codes) \in Nat /\ Len(codes) <= MaxCodes
          BY <2>6 DEF ConsumePairingCode, TypeInv, TypeOK, CodesKnown
        <4> QED BY <2>6, <4>1, KeySetupAssumption DEF ConsumePairingCode, TypeInv, Codes
      <3>2. given'[ui[d].code] = given[ui[d].code] + 1
        BY <2>6, <3>1 DEF ConsumePairingCode
      <3> QED BY <1>1, <3>1, <3>2
    <2>7. CASE Commands(d)
      <3>1. CASE SignIn(d) \/ Decline(d) \/ applyWizardKeyStep(d) \/ Cancel(d)
        <4>1. ui'[d].pc \in {"idle", "asked", "saveKey"}
          BY <1>0, <3>1, Place DEF SignIn, Decline, applyWizardKeyStep, Cancel, Places
        <4> QED BY <2>3, <4>1
      <3>2. CASE getMyNotes(d)
        <4>1. codes \in Seq(Code)
          BY DEF TypeInv, TypeOK
        <4>2. codes' # codes
          BY <3>2, <4>1 DEF getMyNotes, NewCode
        <4> QED BY <1>1, <4>2
      <3>3. CASE SignOut(d) \/ \E c \in Codes : ApprovePairingCode(d, c)
        BY <2>2, <3>3 DEF SignOut, ApprovePairingCode
      <3>4. CASE Restart(d)
        <4>1. ui'[d].pc \in {"idle", "setup"}
          BY <1>0, <3>4 DEF Restart, At
        <4> QED BY <2>3, <4>1
      <3> QED BY <2>7, <3>1, <3>2, <3>3, <3>4 DEF Commands
    <2> QED BY <2>1, <2>4, <2>5, <2>6, <2>7 DEF Steps
  <1>4. ASSUME NEW e \in Computers PROVE UseAt(e)'
    <2>1. CASE e = d
      BY <1>3, <2>1
    <2>2. CASE e # d
      BY <1>1, <1>2, <2>2 DEF UseAt
    <2> QED BY <2>1, <2>2
  <1> QED BY <1>1, <1>4 DEF CodesUse

\* A new code has been handed out to nobody.
LEMMA UseInvNewCode ==
    ASSUME TypeInv, CodesUse, \A e \in Computers : UseAt(e), NEW d \in Computers, getMyNotes(d)
    PROVE  CodesUse' /\ \A e \in Computers : UseAt(e)'
  <1> DEFINE new == [user |-> d, wrapped |-> 0, consumed |-> FALSE, expired |-> FALSE]
  <1>0. /\ ui \in [Computers -> Dialog] /\ codes \in Seq(Code) /\ Len(codes) \in Nat
        /\ Len(codes) < MaxCodes /\ codes' = Append(codes, new) /\ late' = late /\ given' = given
    BY DEF TypeInv, TypeOK, Dialog, getMyNotes, NewCode
  <1>1. /\ Len(codes') = Len(codes) + 1 /\ codes'[Len(codes) + 1] = new
        /\ \A c \in 1..Len(codes) : codes'[c] = codes[c]
    BY <1>0
  <1>2. Len(codes) + 1 \in Codes
    BY <1>0, KeySetupAssumption DEF Codes
  <1>3. CodesUse'
    <2>1. \A c \in Codes : given[c] <= 1 /\ (c > Len(codes) + 1 => given[c] = 0)
      BY <1>0 DEF CodesUse, Codes
    <2>2. ASSUME NEW c \in 1..(Len(codes) + 1), ~codes'[c].consumed PROVE given[c] = 0
      <3>1. CASE c = Len(codes) + 1
        BY <1>0, <1>2, <3>1 DEF CodesUse
      <3>2. CASE c # Len(codes) + 1
        BY <1>0, <1>1, <2>2, <3>2 DEF CodesUse
      <3> QED BY <3>1, <3>2
    <2> QED BY <1>0, <1>1, <2>1, <2>2 DEF CodesUse
  <1>4. ASSUME NEW e \in Computers PROVE UseAt(e)'
    <2>1. CASE e = d
      <3>1. ui'[d].pc = "idle" \/ (ui'[d].pc = "wait" /\ ui'[d].code = Len(codes) + 1)
        BY <1>0, Place, WaitPlace DEF getMyNotes
      <3> QED BY <1>1, <2>1, <3>1 DEF UseAt
    <2>2. CASE e # d
      <3>1. ui'[e] = ui[e]
        BY <2>2, OneComputer DEF Commands
      <3> QED BY <1>1, <3>1 DEF UseAt, TypeInv, CodesKnown
    <2> QED BY <2>1, <2>2
  <1> QED BY <1>3, <1>4

\* Handing out the key of a code: it had not been handed out, and nobody else polls it.
LEMMA UseInvConsume ==
    ASSUME TypeInv, CodesUse, \A e \in Computers : UseAt(e), NEW d \in Computers,
           ConsumePairingCode(d)
    PROVE  CodesUse' /\ \A e \in Computers : UseAt(e)'
  <1> DEFINE n == ui[d].code
  <1>0. /\ ui \in [Computers -> Dialog] /\ ui[d] \in Dialog /\ codes \in Seq(Code)
        /\ Len(codes) \in Nat /\ Len(codes) <= MaxCodes /\ given \in [Codes -> Nat]
    BY DEF TypeInv, TypeOK, Dialog, CodesKnown
  <1>1. ui[d].pc = "consume" /\ n \in 1..Len(codes) /\ n \in Codes
    BY <1>0, KeySetupAssumption DEF ConsumePairingCode, TypeInv, CodesKnown, Codes
  <1>2. /\ codes' \in Seq(Code) /\ Len(codes') = Len(codes)
        /\ \A b \in 1..Len(codes) : codes'[b].user = codes[b].user
        /\ \A b \in 1..Len(codes) \ {n} : codes'[b] = codes[b]
    <2>1. 0 \in Keys
      BY KeySetupAssumption DEF Keys
    <2> HIDE DEF n
    <2>2. codes' = [codes EXCEPT ![n].consumed = TRUE]
      BY DEF ConsumePairingCode, n
    <2> QED BY <1>0, <1>1, <2>1, <2>2, CodeMarked
  <1>3. codes'[n].consumed
    <2>1. codes[n] \in Code
      BY <1>0, <1>1, ElementOfSeq
    <2> QED BY <1>0, <1>1, <2>1 DEF ConsumePairingCode, Code
  <1>4. /\ given'[n] = given[n] + 1 /\ given[n] = 0 /\ late' = {}
        /\ \A c \in Codes \ {n} : given'[c] = given[c]
    BY <1>0, <1>1 DEF ConsumePairingCode, CodesUse, UseAt
  <1>5. CodesUse'
    <2>1. ASSUME NEW c \in Codes PROVE given'[c] <= 1 /\ (c > Len(codes) => given'[c] = 0)
      <3>1. CASE c = n
        BY <1>0, <1>1, <1>4, <3>1
      <3>2. CASE c # n
        BY <1>4, <3>2 DEF CodesUse
      <3> QED BY <3>1, <3>2
    <2>2. ASSUME NEW c \in 1..Len(codes), ~codes'[c].consumed PROVE given'[c] = 0
      <3>1. c # n /\ c \in Codes
        BY <1>0, KeySetupAssumption, <1>3, <2>2 DEF Codes
      <3> QED BY <1>2, <1>4, <2>2, <3>1 DEF CodesUse
    <2> QED BY <1>2, <1>4, <2>1, <2>2 DEF CodesUse
  <1>6. ASSUME NEW e \in Computers PROVE UseAt(e)'
    <2>1. CASE e = d
      <3>1. ui'[d].pc \in {"install", "wait"} /\ ui'[d].code = n
        BY <1>0, Place DEF ConsumePairingCode, Dialog, Places
      <3> QED BY <1>1, <1>2, <2>1, <3>1 DEF UseAt
    <2>2. CASE e # d /\ ui[e].pc \in {"wait", "consume"}
      <3>1. ui'[e] = ui[e]
        BY <2>2, OneComputer DEF Steps
      <3>2. ui[e].code \in 1..Len(codes) /\ ui[e].code # n
        BY <1>1, <2>2 DEF UseAt, TypeInv, CodesKnown
      <3> QED BY <1>2, <3>1, <3>2 DEF UseAt
    <2>3. CASE e # d /\ ui[e].pc \notin {"wait", "consume"}
      <3>1. ui'[e] = ui[e]
        BY <2>3, OneComputer DEF Steps
      <3> QED BY <2>3, <3>1 DEF UseAt
    <2> QED BY <2>1, <2>2, <2>3
  <1> QED BY <1>5, <1>6

\* Approving a code, or its end by time, changes neither who polls it nor whether it was
\* consumed.
LEMMA UseInvMark ==
    ASSUME TypeInv, CodesUse, \A e \in Computers : UseAt(e), NEW c \in 1..Len(codes),
           NEW k \in Keys, ui' = ui, late' = late, given' = given,
           \/ codes' = [codes EXCEPT ![c].expired = TRUE]
           \/ codes' = [codes EXCEPT ![c].wrapped = k]
    PROVE  CodesUse' /\ \A e \in Computers : UseAt(e)'
  <1>0. codes \in Seq(Code) /\ codes[c] \in Code
    BY ElementOfSeq DEF TypeInv, TypeOK
  <1>1. /\ codes' \in Seq(Code) /\ Len(codes') = Len(codes)
        /\ \A b \in 1..Len(codes) : codes'[b].user = codes[b].user
        /\ \A b \in 1..Len(codes) \ {c} : codes'[b] = codes[b]
    BY <1>0, CodeMarked
  <1>2. codes'[c].consumed = codes[c].consumed
    BY <1>0 DEF Code
  <1>3. \A b \in 1..Len(codes) : codes'[b].consumed = codes[b].consumed
    BY <1>1, <1>2
  <1>4. CodesUse'
    BY <1>1, <1>3 DEF CodesUse
  <1>5. \A e \in Computers : UseAt(e)'
    BY <1>1, <1>3 DEF UseAt, TypeInv, CodesKnown
  <1> QED BY <1>4, <1>5

\* UseInv is an invariant.
LEMMA UseInvNext == TypeInv /\ UseInv /\ [Next]_vars => UseInv'
  <1> SUFFICES ASSUME TypeInv, UseInv, [Next]_vars, "abandoned" \notin mishaps'
               PROVE  CodesUse' /\ \A e \in Computers : UseAt(e)'
    BY DEF UseInv
  <1>a. ASSUME mishaps \subseteq mishaps'
        PROVE  CodesUse /\ \A e \in Computers : UseAt(e)
    BY <1>a DEF UseInv
  <1>1. ASSUME NEW d \in Computers, Steps(d) \/ GiveUp(d) \/ Commands(d)
        PROVE  CodesUse' /\ \A e \in Computers : UseAt(e)'
    <2>0. CodesUse /\ \A e \in Computers : UseAt(e)
      BY <1>1, <1>a, OneComputer
    <2>1. CASE GiveUp(d)
      BY <2>1 DEF GiveUp, Mishap
    <2>2. CASE ConsumePairingCode(d)
      BY <2>0, <2>2, UseInvConsume
    <2>3. CASE getMyNotes(d)
      BY <2>0, <2>3, UseInvNewCode
    <2>4. ASSUME NEW c \in Codes, ApprovePairingCode(d, c)
          PROVE  CodesUse' /\ \A e \in Computers : UseAt(e)'
      <3>1. c \in 1..Len(codes) /\ key[d] \in Keys
        BY <2>4, LenProperties DEF ApprovePairingCode, TypeInv, TypeOK
      <3>2. ui' = ui /\ late' = late /\ given' = given
            /\ codes' = [codes EXCEPT ![c].wrapped = key[d]]
        BY <2>4 DEF ApprovePairingCode
      <3> QED BY <2>0, <3>1, <3>2, UseInvMark
    <2>5. CASE Steps(d) /\ ~ConsumePairingCode(d)
      <3>1. UNCHANGED server
        BY <2>5 DEF Steps, SaveMinted, SaveWrap, SaveDisplay, Poll, Install, SavePaired, DropWrap,
           DropDisplay
      <3> QED BY <2>0, <2>5, <3>1, UseInvComputers
    <2>6. CASE /\ Commands(d) /\ ~getMyNotes(d)
               /\ ~\E c \in Codes : ApprovePairingCode(d, c)
      <3>1. UNCHANGED server
        BY <2>6 DEF Commands, SignIn, Decline, applyWizardKeyStep, Cancel, SignOut, Restart
      <3> QED BY <2>0, <2>6, <3>1, UseInvComputers
    <2> QED BY <1>1, <2>1, <2>2, <2>3, <2>4, <2>5, <2>6
  <1>2. ASSUME NEW c \in Codes, LateConsume(c) \/ Expire(c)
        PROVE  CodesUse' /\ \A e \in Computers : UseAt(e)'
    <2>0. CodesUse /\ \A e \in Computers : UseAt(e)
      BY <1>2, <1>a, ServerAlone
    <2>1. CASE LateConsume(c)
      BY <2>0, <2>1 DEF LateConsume, CodesUse
    <2>2. CASE Expire(c)
      <3>1. c \in 1..Len(codes) /\ 0 \in Keys
        BY <2>2, KeySetupAssumption DEF Expire, TypeInv, CodesKnown, Keys
      <3>2. ui' = ui /\ late' = late /\ given' = given
            /\ codes' = [codes EXCEPT ![c].expired = TRUE]
        BY <2>2 DEF Expire
      <3> QED BY <2>0, <3>1, <3>2, UseInvMark
    <2> QED BY <1>2, <2>1, <2>2
  <1>3. CASE UNCHANGED vars
    BY <1>3, <1>a DEF vars, server, CodesUse, UseAt
  <1> QED BY <1>1, <1>2, <1>3 DEF Next

\* The key under a pairing code is handed out once, however the polls, approvals,
\* cancellations and restarts of any number of computers interleave, unless a poll that
\* its caller gave up runs beside the next one.
THEOREM SingleUseCorrect == Spec => []SingleUse
  <1>1. Init => UseInv
    <2> SUFFICES ASSUME Init PROVE UseInv
      OBVIOUS
    <2>1. Len(codes) = 0 /\ late = {} /\ \A c \in Codes : given[c] = 0
      BY DEF Init
    <2>2. \A d \in Computers : ui[d].pc = "setup"
      BY DEF Init, At
    <2> QED BY <2>1, <2>2 DEF UseInv, CodesUse, UseAt
  <1>2. UseInv => SingleUse
    BY DEF UseInv, CodesUse, SingleUse
  <1> QED BY <1>1, <1>2, TypeInvInit, TypeInvNext, UseInvNext, PTL DEF Spec
=============================================================================
