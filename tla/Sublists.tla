------------------------------ MODULE Sublists ------------------------------
(***************************************************************************)
(* The loop that both joins and the pattern matcher filter a list with     *)
(* (removeExpiredFromSide, enforceMaxStateSize, cleanup, pruneOldEvents):  *)
(* a new list gets what stays, in its order.  It is SelectSeq with a set   *)
(* for the test, written as a recursive function so that facts about it    *)
(* can be proved.                                                          *)
(***************************************************************************)
EXTENDS Naturals, Sequences

\* The members of s that are in S.
Only(s, S) ==
    LET kept[i \in 0 .. Len(s)] ==
          IF i = 0 THEN <<>>
          ELSE IF s[i] \in S THEN Append(kept[i - 1], s[i]) ELSE kept[i - 1]
    IN  kept[Len(s)]
=============================================================================
