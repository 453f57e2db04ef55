---------------------------- MODULE AppendOnlyLog ----------------------------
(***************************************************************************)
(* What an audit log promises: it only ever grows, at its end, and every   *)
(* entry is written at most once.                                          *)
(***************************************************************************)
EXTENDS Naturals, Sequences

CONSTANT Entries    \* what may be logged

VARIABLE entries    \* what has been logged, oldest first

Write(e) ==
    /\ \A i \in 1 .. Len(entries) : entries[i] # e
    /\ entries' = Append(entries, e)

Init == entries = <<>>
Next == \E e \in Entries : Write(e)
Spec == Init /\ [][Next]_entries
=============================================================================
