----------------------------- MODULE StateBackend ----------------------------
(***************************************************************************)
(* pkg/stream/types.go: what the interface StateBackend promises to the    *)
(* operators that keep their state in one, whatever implements it.  Get    *)
(* answers the value that Put or Restore gave to a key last, until it is   *)
(* removed; one put with a time-to-live may stop showing by itself.        *)
(* Restore brings back what the snapshot holds and removes everything      *)
(* else.                                                                   *)
(***************************************************************************)
CONSTANTS BackendKeys, BackendValues, Nil

VARIABLES
    latest,     \* per key, the value Put or Restore gave it last
    shown,      \* per key, what Get answers
    copy,       \* the snapshot that was taken last, as Restore brings it back
    mortal      \* the keys whose value may go away by itself

backendVars == <<latest, shown, copy, mortal>>

Nothing == [k \in BackendKeys |-> Nil]

BackendInit ==
    /\ latest = Nothing
    /\ shown = Nothing
    /\ copy = Nothing
    /\ mortal = {}

Put(k, v) ==
    /\ latest' = [latest EXCEPT ![k] = v]
    /\ shown' = [shown EXCEPT ![k] = v]
    /\ mortal' \in {mortal, mortal \ {k}}
    /\ UNCHANGED copy

\* What a backend with a time-to-live offers besides.
PutMortal(k, v) ==
    /\ latest' = [latest EXCEPT ![k] = v]
    /\ shown' = [shown EXCEPT ![k] = v]
    /\ mortal' = mortal \cup {k}
    /\ UNCHANGED copy

Without(f, keys) == [k \in BackendKeys |-> IF k \in keys THEN Nil ELSE f[k]]

\* Delete of one key; Close, of all.
Remove(keys) ==
    /\ latest' = Without(latest, keys)
    /\ shown' = Without(shown, keys)
    /\ mortal' \in SUBSET mortal
    /\ UNCHANGED copy

\* Time passes.
Lose ==
    /\ \E keys \in SUBSET mortal : shown' = Without(shown, keys)
    /\ mortal' \in SUBSET mortal
    /\ UNCHANGED <<latest, copy>>

Snapshot ==
    /\ copy' = shown
    /\ UNCHANGED <<latest, shown, mortal>>

Restore ==
    /\ latest' = copy
    /\ shown' = copy
    /\ mortal' \in SUBSET mortal
    /\ UNCHANGED copy

BackendNext ==
    \/ \E k \in BackendKeys, v \in BackendValues : Put(k, v) \/ PutMortal(k, v)
    \/ \E k \in BackendKeys : Remove({k})
    \/ Remove(BackendKeys)
    \/ Lose
    \/ Snapshot
    \/ Restore

BackendSpec == BackendInit /\ [][BackendNext]_backendVars
=============================================================================
