----------------------------- MODULE Harvesters -----------------------------
(***************************************************************************)
(* sentilyzer-harvest with any -source (cmd/sentilyzer-harvest/main.go):   *)
(* the firehose until it is stopped, or one pass over the feeds or queries *)
(* of a batch source.                                                      *)
(***************************************************************************)
EXTENDS Harvest, BatchHarvest

HarvestersInit ==
    /\ source \in {"bluesky", "rss", "gdelt"}
    /\ HarvestInit /\ BatchInit

HarvestersNext ==
    /\ UNCHANGED source
    /\ \/ source = "bluesky" /\ HarvestNext /\ UNCHANGED batchVars
       \/ source # "bluesky" /\ BatchNext
          /\ UNCHANGED <<log, mode, stream, resume, stop, live, breaks>>

HarvestersSpec == HarvestersInit /\ [][HarvestersNext]_<<harvestVars, batchVars, source>>
=============================================================================
