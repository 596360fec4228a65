------------------------------- MODULE Handoff -------------------------------
(***************************************************************************)
(* What nlboot-client's fetch and execute promise the host: the kernel     *)
(* only ever holds, and the host only ever boots, files that one plan      *)
(* names together, and that were fetched for that plan at some time.       *)
(* Which plan the command line of a load or an exec names does not matter, *)
(* and how fetches and loads use files to get there is left to             *)
(* ClientHandoff.                                                          *)
(***************************************************************************)
CONSTANTS
    Files(_),   \* plan -> the files it can be booted with
    NoImage     \* nothing loaded, nothing booted

VARIABLES
    fetched,    \* the plans whose artifacts have been fetched
    image,      \* the files the kernel holds
    booted      \* the files booted last

handoffVars == <<fetched, image, booted>>

HandoffInit == fetched = {} /\ image = NoImage /\ booted = NoImage

\* A fetch completes.  Plans that were fetched before stay usable.
Fetched(plan) ==
    /\ fetched' = fetched \cup {plan}
    /\ UNCHANGED <<image, booted>>

\* A load takes what was fetched for some plan.
Loaded(plan) ==
    /\ plan \in fetched
    /\ image' \in Files(plan)
    /\ UNCHANGED <<fetched, booted>>

\* What was loaded is booted.
Booted ==
    /\ image # NoImage
    /\ booted' = image
    /\ image' = NoImage
    /\ UNCHANGED fetched

HandoffNext ==
    \/ \E plan \in fetched' : Fetched(plan)
    \/ \E plan \in fetched : Loaded(plan)
    \/ Booted

HandoffSpec == HandoffInit /\ [][HandoffNext]_handoffVars
=============================================================================
