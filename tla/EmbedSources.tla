---------------------------- MODULE EmbedSources ----------------------------
(***************************************************************************)
(* The source table of build_viewer.py: embed_sources (840-894) collects  *)
(* the (file, line) references of the entries and their inline frames,    *)
(* finds each file under --src-base (locate_source, 897-908) and embeds   *)
(* its whole text ("full") or the merged windows of +-context_lines       *)
(* around the referenced lines ("context"); source_lookup_line (592-620)  *)
(* answers the mixed view's "text of line n of file f" from that table.   *)
(*                                                                         *)
(* A text is a sequence of segments: the characters up to a line break,   *)
(* with `empty` telling whether there are none, and the break: "LF" for   *)
(* "\n" (read_text's universal newlines have turned "\r\n" and "\r"     *)
(* into it, 865), "FF" for any other break str.splitlines() honours       *)
(* ("\f", "\v", "\x1c"-"\x1e", "\x85", "\u2028", "\u2029"), "EOF" for a   *)
(* last segment without a break (never empty).  A line of a list of      *)
(* lines is 0 for "" and i for the characters of segment i.               *)
(*                                                                         *)
(* A file name is a path under src_base, a sequence of names; "" is the   *)
(* empty path, src_base itself.                                           *)
(***************************************************************************)
EXTENDS Integers, Sequences, FiniteSets
LOCAL INSTANCE SequencesExt
LOCAL INSTANCE FiniteSetsExt

CONSTANTS
    Tree,         \* the files under src_base, each a path (sequence of names)
    Dirs,         \* the directories under src_base, src_base itself excluded
    Matches(_, _), \* Matches(pat, n): the glob pattern pat matches the name n
    DiskChoices,  \* the possible contents: functions Tree -> text
    EntryChoices, \* the possible entry lists, each entry [file, line, frames]
    Modes,        \* --embed-source: subset of {"full", "context"}
    Ctxs,         \* --context-lines after max(0, .)
    None

VARIABLES
    disk, mode, ctx, byFile,  \* the inputs (fixed)
    todo,       \* sorted(by_file.items()) not yet embedded
    cur,        \* the file whose ranges are being merged, or None
    path,       \* the path locate_source found for it
    lns,        \* sorted(set(lines)) not yet merged
    ranges,     \* the merged [s, e] ranges so far
    filesMap,   \* files_map
    aborted     \* read_text raised out of embed_sources

vars == <<disk, mode, ctx, byFile, todo, cur, path, lns, ranges, filesMap, aborted>>

Empty == 0

\* text.count("\n")
CountLF(t) == Cardinality({i \in DOMAIN t : t[i].brk = "LF"})

\* text.splitlines()
SplitLines(t) == [i \in DOMAIN t |-> IF t[i].empty THEN Empty ELSE i]

\* ls[a:b] for 0 <= a
PySlice(ls, a, b) ==
    LET hi == Min({b, Len(ls)}) IN IF a + 1 > hi THEN <<>> ELSE SubSeq(ls, a + 1, hi)

\* "\n".join(ls).splitlines(): a last "" leaves only a trailing "\n"
JoinSplit(ls) == IF ls # <<>> /\ Last(ls) = Empty THEN Front(ls) ELSE ls

(* Lines 848-857: file -> the lines referenced in it, by an entry or by  *)
(* one of its inline frames.                                              *)
ByFile(es) ==
    LET refs(e) == {<<e.file, e.line>>} \cup {<<fr.file, fr.line>> : fr \in Range(e.frames)}
        R == UNION {refs(es[i]) : i \in DOMAIN es}
    IN [f \in {r[1] : r \in R} |-> {r[2] : r \in {x \in R : x[1] = f}}]

(* locate_source, 897-908: src_base / fname when it exists, a file or a   *)
(* directory ("" names src_base itself); else matches[0] of               *)
(* src_base.rglob(Path(fname).name), which takes the name as a glob       *)
(* pattern and yields files and directories at any depth, in an order     *)
(* the file system decides; None when nothing matches.                    *)
Locate(f) ==
    IF f \in Tree \cup Dirs \cup {<< >>} THEN {f}
    ELSE LET matches == {p \in Tree \cup Dirs : Matches(Last(f), Last(p))}
         IN IF matches = {} THEN {None} ELSE matches

Init ==
    /\ disk \in DiskChoices
    /\ mode \in Modes
    /\ ctx \in Ctxs
    /\ \E es \in EntryChoices : byFile = ByFile(es)
    /\ todo = SetToSeq(DOMAIN byFile)
    /\ cur = None /\ path = None /\ lns = <<>> /\ ranges = <<>>
    /\ filesMap = <<>>
    /\ aborted = FALSE

\* Fault model: files_map keyed by the path found instead of the name referenced.
OpenFileByPath ==
    /\ ~aborted
    /\ cur = None
    /\ todo # <<>>
    /\ LET f == Head(todo) IN
       \E p \in Locate(f) :
          IF p \in Dirs \cup {<< >>}
          THEN /\ aborted' = TRUE
               /\ UNCHANGED <<todo, cur, path, lns, ranges, filesMap>>
          ELSE /\ CASE p = None ->
                      UNCHANGED <<filesMap, cur, path, lns>>
                 [] mode = "full" ->
                      /\ filesMap' = (p :> [path |-> p, content |-> disk[p]]) @@ filesMap
                      /\ UNCHANGED <<cur, path, lns>>
                 [] OTHER ->
                      /\ cur' = f /\ path' = p
                      /\ lns' = SetToSortSeq(byFile[f], LAMBDA x, y : x < y)
                      /\ UNCHANGED filesMap
               /\ todo' = Tail(todo)
               /\ ranges' = <<>>
               /\ UNCHANGED aborted
    /\ UNCHANGED <<disk, mode, ctx, byFile>>

(* Lines 860-874: locate the next file (skip it when not found) and     *)
(* embed its content, or start merging its ranges.  read_text on a       *)
(* directory raises IsADirectoryError, which neither the except of 867   *)
(* nor main (249) catches: the build stops there.                         *)
OpenFile ==
    /\ ~aborted
    /\ cur = None
    /\ todo # <<>>
    /\ LET f == Head(todo) IN
       \E p \in Locate(f) :
          IF p \in Dirs \cup {<< >>}
          THEN /\ aborted' = TRUE
               /\ UNCHANGED <<todo, cur, path, lns, ranges, filesMap>>
          ELSE /\ CASE p = None ->
                      UNCHANGED <<filesMap, cur, path, lns>>
                 [] mode = "full" ->
                      /\ filesMap' = (f :> [path |-> p, content |-> disk[p]]) @@ filesMap
                      /\ UNCHANGED <<cur, path, lns>>
                 [] OTHER ->
                      /\ cur' = f /\ path' = p
                      /\ lns' = SetToSortSeq(byFile[f], LAMBDA x, y : x < y)
                      /\ UNCHANGED filesMap
               /\ todo' = Tail(todo)
               /\ ranges' = <<>>
               /\ UNCHANGED aborted
    /\ UNCHANGED <<disk, mode, ctx, byFile>>

\* Fault model: `if s <= pe:`, windows that only touch are not merged.
MergeLineTouching ==
    /\ cur # None
    /\ lns # <<>>
    /\ LET ln == Head(lns)
           s == Max({1, ln - ctx})
           e == Min({CountLF(disk[path]) + 1, ln + ctx})
       IN IF ranges # <<>> /\ s <= Last(ranges).e
          THEN ranges' = [ranges EXCEPT ![Len(ranges)].e = Max({Last(ranges).e, e})]
          ELSE ranges' = Append(ranges, [s |-> s, e |-> e])
    /\ lns' = Tail(lns)
    /\ UNCHANGED <<disk, mode, ctx, byFile, todo, cur, path, filesMap, aborted>>

(* Lines 872-884: the window of the next referenced line, clipped to      *)
(* [1, total_lines] with total_lines = count("\n") + 1, merged into the  *)
(* last range when it starts at most one line after it.                   *)
MergeLine ==
    /\ cur # None
    /\ lns # <<>>
    /\ LET ln == Head(lns)
           s == Max({1, ln - ctx})
           e == Min({CountLF(disk[path]) + 1, ln + ctx})
       IN IF ranges # <<>> /\ s <= Last(ranges).e + 1
          THEN ranges' = [ranges EXCEPT ![Len(ranges)].e = Max({Last(ranges).e, e})]
          ELSE ranges' = Append(ranges, [s |-> s, e |-> e])
    /\ lns' = Tail(lns)
    /\ UNCHANGED <<disk, mode, ctx, byFile, todo, cur, path, filesMap, aborted>>

\* Fault model: `text_lines[s : e]`, the 1-based start taken as 0-based.
EmitRangesShifted ==
    /\ cur # None
    /\ lns = <<>>
    /\ LET tl == SplitLines(disk[path]) IN
       filesMap' = (cur :> [path |-> path,
                            ranges |-> [i \in DOMAIN ranges |->
                                 [start |-> ranges[i].s,
                                  content |-> PySlice(tl, ranges[i].s, ranges[i].e)]]])
                   @@ filesMap
    /\ cur' = None /\ path' = None
    /\ UNCHANGED <<disk, mode, ctx, byFile, todo, lns, ranges, aborted>>

(* Lines 885-892: cut every range out of text.splitlines(); a range's     *)
(* content is the list of lines "\n".join puts together.                  *)
EmitRanges ==
    /\ cur # None
    /\ lns = <<>>
    /\ LET tl == SplitLines(disk[path]) IN
       filesMap' = (cur :> [path |-> path,
                            ranges |-> [i \in DOMAIN ranges |->
                                 [start |-> ranges[i].s,
                                  content |-> PySlice(tl, ranges[i].s - 1, ranges[i].e)]]])
                   @@ filesMap
    /\ cur' = None /\ path' = None
    /\ UNCHANGED <<disk, mode, ctx, byFile, todo, lns, ranges, aborted>>

EmbedNext == OpenFile \/ MergeLine \/ EmitRanges

EmbedSpec == Init /\ [][EmbedNext]_vars

Done == todo = <<>> /\ cur = None

(* source_lookup_line, 592-620: line n of the full content, or of the     *)
(* first range whose lines (after the join and splitlines) contain n.     *)
SourceLookupLine(fm, f, n) ==
    IF f \notin DOMAIN fm THEN None
    ELSE IF "content" \in DOMAIN fm[f]
    THEN LET ls == SplitLines(fm[f].content) IN
         IF n <= 0 \/ n > Len(ls) THEN None ELSE ls[n]
    ELSE LET rs == fm[f].ranges
             hits == {i \in DOMAIN rs :
                        rs[i].start <= n /\ n <= rs[i].start + Len(JoinSplit(rs[i].content)) - 1}
         IN IF hits = {} THEN None
            ELSE JoinSplit(rs[Min(hits)].content)[n - rs[Min(hits)].start + 1]
-----------------------------------------------------------------------------
\* the characters a compiler numbers as line n (lines end at "\n"): the
\* non-empty segments after the (n-1)th LF and up to the nth
VisibleLine(t, n) ==
    {i \in DOMAIN t : ~t[i].empty /\ CountLF(SubSeq(t, 1, i - 1)) = n - 1}

\* what the mixed view shows for an answer: None and "" show nothing
Shown(d) == IF d = None \/ d = Empty THEN {} ELSE {d}

\* the window of a referenced line, as a set of lines
Window(n) == Max({1, n - ctx})..Min({CountLF(disk[path]) + 1, n + ctx})

EmbedTypeOK ==
    /\ mode \in Modes /\ ctx \in Ctxs
    /\ cur = None \/ cur \in DOMAIN byFile
    /\ \A i \in DOMAIN ranges : ranges[i] \in [s : Int, e : Int]
    /\ DOMAIN filesMap \subseteq DOMAIN byFile
    /\ \A f \in DOMAIN filesMap : filesMap[f].path \in Tree
    /\ aborted \in BOOLEAN

(***************************************************************************)
(* The ranges embed_sources merges for a file (lines 872-884) are the      *)
(* maximal runs of the union of the referenced lines' clipped windows:    *)
(* together they cover exactly that union, and consecutive ranges are     *)
(* separated by at least one line that no window covers.                 *)
(***************************************************************************)
MergedRuns ==
    (cur # None /\ lns = <<>>) =>
        /\ UNION {ranges[i].s..ranges[i].e : i \in DOMAIN ranges}
              = UNION {Window(n) : n \in byFile[cur]}
        /\ \A i \in 1..(Len(ranges) - 1) : ranges[i + 1].s > ranges[i].e + 1

(***************************************************************************)
(* Once the table is built, source_lookup_line answers every referenced   *)
(* line of an embedded file with that line's text as the compiler counts  *)
(* lines, and never answers any line with another line's text: in full   *)
(* mode and in context mode, through the clipping at total_lines, the     *)
(* 1-based slice of text_lines and the join/splitlines round trip.        *)
(***************************************************************************)
EmbedFaithful ==
    Done =>
        \A f \in DOMAIN filesMap :
            \A n \in (-1)..(Max(byFile[f]) + 2) :
                LET d == SourceLookupLine(filesMap, f, n)
                    truth == VisibleLine(disk[filesMap[f].path], n)
                IN /\ d # None => Shown(d) = truth
                   /\ n \in byFile[f] => Shown(d) = truth

=============================================================================
