--------------------------- MODULE VersionedStore ---------------------------
(***************************************************************************)
(* What the sync server promises its devices, without handlers, retries,   *)
(* blobs or crashes: each file is a register with a version number, every  *)
(* accepted write moves it to the next version in one step, and the feed   *)
(* announces exactly the writes, in the order they happened to a file.     *)
(***************************************************************************)
EXTENDS Naturals

CONSTANTS Files, Payloads, NoPayload

VARIABLES head, feed

Init ==
    /\ head = [f \in Files |-> [version |-> 0, payload |-> NoPayload]]
    /\ feed = {}

\* A write based on the current version is accepted; it and its feed entry
\* become visible together.
Accept(f, p) ==
    /\ head' = [head EXCEPT ![f] = [version |-> @.version + 1, payload |-> p]]
    /\ feed' = feed \cup {[file |-> f, version |-> head[f].version + 1,
                           deleted |-> p.deleted]}

Next == \E f \in Files, p \in Payloads : Accept(f, p)

Spec == Init /\ [][Next]_<<head, feed>>
=============================================================================
