------------------------ MODULE ClientHandoffHistory ------------------------
(***************************************************************************)
(* ClientHandoff with the history that Handoff needs: for which plans a    *)
(* cache record was completed.  The evidence directory itself only keeps   *)
(* the last record, and a load may have read an earlier one.               *)
(***************************************************************************)
EXTENDS ClientHandoff

\* No image is the mark for none.
ASSUME NoImageAssumption ==
    /\ NoImage \notin Images
    /\ NoImage \notin [image : Images, plan : Plans]
    /\ NoImage \notin Refs \X Refs

VARIABLE fetched   \* the plans that a readable cache record has named

historyVars == <<vars, fetched>>

\* The plan the cache record names, if it can be read.
Recorded ==
    IF evidence[CacheRecord] \in Unreadable THEN {} ELSE {evidence[CacheRecord].plan}

HistoryInit == Init /\ fetched = {}
HistoryNext == Next /\ fetched' = fetched \cup Recorded'
HistorySpec == HistoryInit /\ [][HistoryNext]_historyVars
-----------------------------------------------------------------------------
\* The refs a plan has under a key, and the kernel and initrd it names.
RefsOf(plan, key) ==
    {ref \in Refs :
        \E i \in DOMAIN PlanArtifacts[plan] : PlanArtifacts[plan][i] = <<key, ref>>}
PlanFiles(plan) == RefsOf(plan, "kernel_ref") \X RefsOf(plan, "initrd_ref")

\* An image as Handoff sees it: the refs of the entries it was loaded from.
FilesOf(l) == IF l = NoImage THEN NoImage ELSE <<l.entries[1].ref, l.entries[2].ref>>
BootedFiles == IF booted = NoImage THEN NoImage ELSE FilesOf(booted.image)

Abstract == INSTANCE Handoff
    WITH Files <- PlanFiles, image <- FilesOf(loaded), booted <- BootedFiles

(***************************************************************************)
(* However fetches, loads and execs interleave, fail and are killed, the   *)
(* client implements Handoff: an image is the kernel and the initrd of one *)
(* plan that had been fetched by then (main.rs:526-575, 598-615, 666-672,  *)
(* 709-715).                                                               *)
(***************************************************************************)
ImplementsHandoff == Abstract!HandoffSpec
=============================================================================
