---------------------------- MODULE AppendStore ----------------------------
(***************************************************************************)
(* What EdgeFS promises its caller when nothing fails: each file is a      *)
(* string of bytes that grows at its end only; one write() at a time       *)
(* either appends every byte it was given or appends none and is refused.  *)
(***************************************************************************)
EXTENDS Integers, Sequences

CONSTANTS Files, NoFile, WriteLens

VARIABLES content,   \* the bytes a reader of each file would get
          busy,      \* the file being written, or NoFile
          owed,      \* bytes of the request not yet appended
          reported   \* bytes of each file the caller was told are written

vars == <<content, busy, owed, reported>>

(* The n bytes that follow the first p bytes of f.                         *)
BytesOf(f, p, n) == [k \in 1..n |-> <<f, p + k - 1>>]

Init == /\ content = [f \in Files |-> <<>>]
        /\ busy = NoFile
        /\ owed = 0
        /\ reported = [f \in Files |-> 0]

Request(f, len) == /\ busy = NoFile
                   /\ busy' = f
                   /\ owed' = len
                   /\ UNCHANGED <<content, reported>>

Extend == /\ busy # NoFile
          /\ \E n \in 1..owed :
               /\ content' = [content EXCEPT
                    ![busy] = @ \o BytesOf(busy, Len(content[busy]), n)]
               /\ owed' = owed - n
          /\ UNCHANGED <<busy, reported>>

Done == /\ busy # NoFile /\ owed = 0
        /\ reported' = [reported EXCEPT ![busy] = Len(content[busy])]
        /\ busy' = NoFile
        /\ UNCHANGED <<content, owed>>

Refuse == /\ busy # NoFile
          /\ Len(content[busy]) = reported[busy]
          /\ busy' = NoFile /\ owed' = 0
          /\ UNCHANGED <<content, reported>>

Next == \/ \E f \in Files, len \in WriteLens : Request(f, len)
        \/ Extend \/ Done \/ Refuse

Spec == Init /\ [][Next]_vars
=============================================================================
