--------------------------- MODULE SnapshotHistory --------------------------
(***************************************************************************)
(* What publishing promises about the comparison snapshots of a well,      *)
(* without saying how publications interleave: versions are handed out one *)
(* after the other without holes, none is ever taken back, and each one    *)
(* goes from draft to under review to published to superseded, skipping    *)
(* nothing and never going back.                                           *)
(***************************************************************************)
EXTENDS Naturals, Sequences, GeowellModel

CONSTANT Wells

VARIABLE history     \* history[w][v]: the state of version v of well w

Init == history = [w \in Wells |-> <<>>]

Drafted(w) == history' = [history EXCEPT ![w] = Append(@, "draft")]

Reviewed(w, v) ==
    /\ history[w][v] = "draft"
    /\ history' = [history EXCEPT ![w][v] = "under_review"]

\* All published versions give way at once.
Superseded(w) ==
    history' = [history EXCEPT ![w] =
                   [v \in DOMAIN history[w] |->
                       IF history[w][v] = "published" THEN "superseded"
                                                      ELSE history[w][v]]]

Published(w, v) ==
    /\ history[w][v] = "under_review"
    /\ history' = [history EXCEPT ![w][v] = "published"]

Next ==
    \E w \in Wells :
        \/ Drafted(w)
        \/ Superseded(w)
        \/ \E v \in DOMAIN history[w] : Reviewed(w, v) \/ Published(w, v)

Spec == Init /\ [][Next]_history
=============================================================================
