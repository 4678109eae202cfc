------------------------------- MODULE Report -------------------------------
(***************************************************************************)
(* The first half of main (216-241): the entry model loads, derives and   *)
(* sorts the entries, then build_flame_svg and build_flame_tree fold the  *)
(* sorted rows out["entries"] with metric = args.flame_metric or          *)
(* args.sort (line 236).  EntryModel runs first; FlameTree, its variables *)
(* renamed, starts once to_output has returned.                           *)
(***************************************************************************)
EXTENDS EntryModel

CONSTANTS
    Blank,         \* a chain piece that is empty after strip()
    FileName,      \* file rank -> the file name text
    FlameMetrics   \* the values of --flame-metric (None when not given)

VARIABLES
    stage,        \* "entries" | "flame"
    flameMetric,  \* args.flame_metric
    fentries, fi, st, total, value, rects, height, svg, tree, fphase

flameVars == <<fentries, fi, st, total, value, rects, height, svg, tree, fphase>>

FT == INSTANCE FlameTree
        WITH EntryLists <- {<< >>}, entries <- fentries, i <- fi, phase <- fphase

\* line 236
FlameMetric(fm, sk) == IF fm # None THEN fm ELSE sk

\* a row read with the cycles weight whatever the metric
FlameEntryCycles(r, m) ==
    [chain |-> r.chain,
     loc   |-> FileName[r.file] \o ":" \o ToString(r.line),
     w     |-> r.cycles]

(* A row of out["entries"] as the flame code reads it (678-686):          *)
(* function_chain, the label f"{file}:{line}", and the metric's value.    *)
FlameEntry(r, m) ==
    [chain |-> r.chain,
     loc   |-> FileName[r.file] \o ":" \o ToString(r.line),
     w     |-> IF m = "count" THEN r.count ELSE r.cycles]

ReportInit ==
    /\ Init
    /\ FT!Init
    /\ flameMetric \in FlameMetrics
    /\ stage = "entries"

EntryStep ==
    /\ stage = "entries"
    /\ EntryNext
    /\ UNCHANGED <<stage, flameMetric>> /\ UNCHANGED flameVars

\* main 236-238: the flame builders get the sorted rows.
BeginFlame ==
    /\ stage = "entries"
    /\ phase = "done"
    /\ stage' = "flame"
    /\ fentries' = [j \in DOMAIN out |->
                      FlameEntry(out[j], FlameMetric(flameMetric, sortKey))]
    /\ UNCHANGED <<fi, st, total, value, rects, height, svg, tree, fphase>>
    /\ UNCHANGED <<flameMetric>> /\ UNCHANGED vars

FlameStep ==
    /\ stage = "flame"
    /\ FT!FlameNext
    /\ UNCHANGED <<stage, flameMetric>> /\ UNCHANGED vars

ReportNext == EntryStep \/ BeginFlame \/ FlameStep

ReportSpec == ReportInit /\ [][ReportNext]_<<vars, stage, flameMetric, flameVars>>

-----------------------------------------------------------------------------

\* FlameTree's type invariant over the flame builders' state
FlameTypeOK == FT!FlameTypeOK

\* FlameTree's RollupIsSubtreeSum, over the rows to_output sorted
RollupIsSubtreeSum == FT!RollupIsSubtreeSum

\* FlameTree's FlameLayoutTiles, over the rows to_output sorted
FlameLayoutTiles == FT!FlameLayoutTiles

(* The flame graph and the report header agree: once the svg is built,    *)
(* its root (and the total the widths are scaled by) equals the report's  *)
(* totalCycles or totalCount (lines 196-197) for the metric main chose on *)
(* line 236.                                                              *)
FlameMatchesTotals ==
    svg # "none" =>
        LET m == FlameMetric(flameMetric, sortKey)
            t == IF m = "count" THEN totals.total_count ELSE totals.total_cycles
        IN value[<< >>] = t /\ total = t

=============================================================================
