------------------------------- MODULE Download -------------------------------
(***************************************************************************)
(* What download_data promises its caller, cmd_download_ultra: the pages   *)
(* of the image reach the partition in order, and the call reports         *)
(* success, which becomes "Transmission OK" at the host, only when every   *)
(* one of them has.                                                        *)
(***************************************************************************)
EXTENDS Naturals

CONSTANT MaxPages

VARIABLES
    busy,       \* a download_data call is in progress
    pages,      \* the number of pages of its image
    written,    \* how many of them the partition holds
    result      \* what the last call returned: "ok", "error", "none" before it

vars == <<busy, pages, written, result>>

Init ==
    /\ busy = FALSE
    /\ pages = 0
    /\ written = 0
    /\ result = "none"

Begin ==
    /\ ~busy
    /\ busy' = TRUE
    /\ pages' \in 0 .. MaxPages
    /\ written' = 0
    /\ result' = "none"

\* One write to storage: it may complete the tail of the page before, too.
Write ==
    /\ busy
    /\ written' \in written + 1 .. written + 2
    /\ written' <= pages
    /\ UNCHANGED <<busy, pages, result>>

Return ==
    /\ busy
    /\ busy' = FALSE
    /\ \/ result' = "error"
       \/ written = pages /\ result' = "ok"
    /\ UNCHANGED <<pages, written>>

Next == Begin \/ Write \/ Return

Spec == Init /\ [][Next]_vars
=============================================================================
