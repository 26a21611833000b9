------------------------------- MODULE Codes -------------------------------
(***************************************************************************)
(* Texts that stand for bytes and are typed by people: base64url, recovery  *)
(* keys (core/Crypto.cpp) and pairing codes (core/KeySetup.cpp).            *)
(*                                                                         *)
(* A character of base64url is its place in the table, 0..63.  A character  *)
(* of a code is its place in the 31-letter alphabet, 0..30; NUL is what the *)
(* place behind the alphabet holds, Dash any separator, Lowered(c) the      *)
(* lower-case form of a letter, Other a character of no alphabet.           *)
(***************************************************************************)
EXTENDS Integers, Sequences, SequencesExt

-----------------------------------------------------------------------------
(* base64url.                                                              *)

\* The characters of one to three bytes.
EncodeGroup(g) ==
    LET byte(k) == IF k <= Len(g) THEN g[k] ELSE 0
        v == byte(1) * 65536 + byte(2) * 256 + byte(3)
        char == <<v \div 262144, (v \div 4096) % 64, (v \div 64) % 64, v % 64>>
    IN SubSeq(char, 1, Len(g) + 1)

base64UrlEncode(data) ==
    FlattenSeq([k \in 1..(Len(data) + 2) \div 3 |->
                   EncodeGroup(SubSeq(data, 3 * k - 2,
                                      IF 3 * k < Len(data) THEN 3 * k ELSE Len(data)))])

\* acc loses the bits above 14; the code's 32 are never read either.
base64UrlDecode(in) ==
    LET step(d, v) ==
          LET acc == (d.acc * 64 + v) % 16384
              bits == d.bits + 6
          IN IF bits < 8 THEN [d EXCEPT !.acc = acc, !.bits = bits]
             ELSE [acc |-> acc, bits |-> bits - 8,
                   out |-> Append(d.out, (acc \div 2 ^ (bits - 8)) % 256)]
    IN FoldLeft(step, [acc |-> 0, bits |-> 0, out |-> <<>>], in).out

-----------------------------------------------------------------------------
(* Recovery keys and pairing codes.                                        *)

NUL == 31
Dash == 32
Other == 33
Lowered(c) == 64 + c
Letters == 0..22
Upper(c) == IF c >= 64 THEN c - 64 ELSE c

\* Groups of four with a dash between them.
Grouped(body) ==
    FlattenSeq([k \in DOMAIN body |->
                   IF k > 1 /\ k % 4 = 1 THEN <<Dash, body[k]>> ELSE <<body[k]>>])

\* "NPSYNC"
Prefix == <<11, 12, 15, 21, 11, 2>>

generateRecoveryKey(raw) ==
    Prefix \o <<Dash>> \o Grouped([k \in DOMAIN raw |-> raw[k] % 32])

\* The message box shows a C string.
Shown(text) ==
    LET nul == {k \in DOMAIN text : text[k] = NUL}
    IN IF nul = {} THEN text ELSE SubSeq(text, 1, Min(nul) - 1)

\* Mutant: the prefix is expected and not removed.
withoutPrefixKept(body) == body

withoutPrefix(body) ==
    IF IsPrefix(Prefix, body) THEN SubSeq(body, Len(Prefix) + 1, Len(body)) ELSE body

\* A refused text is <<>>.
normalizeRecoveryKey(in) ==
    LET typed == SelectSeq(in, LAMBDA c : c # Dash)
        body == withoutPrefix([k \in DOMAIN typed |-> Upper(typed[k])])
    IN IF Len(body) = 20 THEN Prefix \o <<Dash>> \o Grouped(body) ELSE <<>>

normalizePairingCode(in) ==
    LET typed == SelectSeq(in, LAMBDA c : c # Dash)
        raw == [k \in DOMAIN typed |-> Upper(typed[k])]
    IN IF Len(raw) = 8 /\ ToSet(raw) \subseteq 0..30 THEN Grouped(raw) ELSE <<>>
=============================================================================
