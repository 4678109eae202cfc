----------------------------- MODULE EntryModel ----------------------------
(***************************************************************************)
(* The entry model of build_viewer.py: validate_and_load (77-110) with     *)
(* must_str and must_int (113-128), derive (131-160) and to_output         *)
(* (163-202), run by main in that order (222-224).                         *)
(*                                                                         *)
(* The input document is NotArray or a sequence of JSON values.  A JSON    *)
(* value that should be an object is a record of its fields; a field that  *)
(* should be a string is a token or NotStr; a number field is [kind, v]    *)
(* where kind is "int", "bool" (v is 0 or 1), "float" (integral, v its     *)
(* value), "frac" (a float with a fractional part) or "str".  A file name  *)
(* is abstracted to its rank in string order, so that Python's comparison  *)
(* of file names is < on ranks.  A share x / total is kept exact as the    *)
(* record [n, d]; 0.0 is [n |-> 0, d |-> 1].  Chain frames are passed     *)
(* through unexamined and left out; json.loads failing exits like any      *)
(* other schema error and is not modelled apart.                           *)
(***************************************************************************)
EXTENDS Integers, Sequences, TLC
LOCAL INSTANCE SequencesExt

CONSTANTS
    Documents,  \* the input documents the run may be given
    SortKeys,   \* the values of --sort
    NotArray,   \* a document whose top level is not a JSON array
    NotStr,     \* a JSON value that is not a string
    None

VARIABLES
    raw,      \* the parsed document
    sortKey,  \* args.sort
    k,        \* validate_and_load's next index
    entries,  \* the Entry list
    err,      \* the SystemExit raised, or None
    totals,   \* derive's result
    out,      \* to_output's entries
    phase     \* "load" | "output" | "done" | "exit"

vars == <<raw, sortKey, k, entries, err, totals, out, phase>>

\* what must_str and must_int give when they raise SystemExit
Bad == None

(* must_int with min_value 0 (119-128): an int passes (and so does a bool, *)
(* Python's bool being an int), an integral float is converted, anything  *)
(* else raises, and so does a negative value.                              *)
MustIntNoMin(x) ==
    IF x.kind \in {"int", "bool", "float"} THEN x.v ELSE Bad

MustInt(x) ==
    IF x.kind \in {"int", "bool", "float"} /\ x.v >= 0 THEN x.v ELSE Bad

\* must_str (113-116)
MustStr(x) == IF x # NotStr THEN x ELSE Bad

(* Lines 88-93: the first failing check names the field of the SystemExit; *)
(* "none" when the object is accepted.                                    *)
FirstBad(o) ==
    CASE ~o.dict                   -> "object"
      [] MustStr(o.file) = Bad     -> "file"
      [] MustInt(o.line) = Bad     -> "line"
      [] MustInt(o.cycles) = Bad   -> "cycles"
      [] MustInt(o.count) = Bad    -> "count"
      [] MustStr(o.address) = Bad  -> "address"
      [] OTHER                     -> "none"

\* Lines 90-109: the Entry built from an accepted object
ToEntry(o) ==
    [file |-> o.file, line |-> MustInt(o.line), cycles |-> MustInt(o.cycles),
     count |-> MustInt(o.count), address |-> o.address,
     chain |-> IF o.chain # NotStr THEN o.chain ELSE None]

Share(x, tot) == IF tot # 0 THEN [n |-> x, d |-> tot] ELSE [n |-> 0, d |-> 1]

\* a by_file rollup that never stores the new rec under its file
DeriveStepUnstored(bf, e) ==
    IF \E j \in DOMAIN bf : bf[j].file = e.file
    THEN [j \in DOMAIN bf |->
            IF bf[j].file = e.file
            THEN [bf[j] EXCEPT !.cycles = @ + e.cycles, !.count = @ + e.count,
                               !.lines = @ + 1]
            ELSE bf[j]]
    ELSE bf

(* One pass of derive's loop (136-143) over by_file, kept as a sequence   *)
(* in insertion order.                                                     *)
DeriveStep(bf, e) ==
    IF \E j \in DOMAIN bf : bf[j].file = e.file
    THEN [j \in DOMAIN bf |->
            IF bf[j].file = e.file
            THEN [bf[j] EXCEPT !.cycles = @ + e.cycles, !.count = @ + e.count,
                               !.lines = @ + 1]
            ELSE bf[j]]
    ELSE Append(bf, [file |-> e.file, cycles |-> e.cycles, count |-> e.count,
                     lines |-> 1])

\* derive (131-160)
Derive(es) ==
    LET tc == FoldLeft(LAMBDA s, e : s + e.cycles, 0, es)
        bf == FoldLeft(DeriveStep, << >>, es)
    IN [total_cycles |-> tc,
        total_count  |-> FoldLeft(LAMBDA s, e : s + e.count, 0, es),
        files        |-> [j \in DOMAIN bf |->
                            bf[j] @@ [cyclesPct |-> Share(bf[j].cycles, tc)]]]

SortKeyCyclesOnly(e, key) == << -e.cycles, e.file, e.line >>

\* the sort key of lines 169-173
SortKeyOf(e, key) == << -(IF key = "count" THEN e.count ELSE e.cycles), e.file, e.line >>

KeyLess(a, b) ==
    \/ a[1] < b[1]
    \/ a[1] = b[1] /\ a[2] < b[2]
    \/ a[1] = b[1] /\ a[2] = b[2] /\ a[3] < b[3]

(* sorted() (167-174) is stable: entries with equal keys keep their input *)
(* order.                                                                  *)
SortEntries(es, key) ==
    LET idx == SortSeq([j \in DOMAIN es |-> j],
                 LAMBDA a, b : KeyLess(SortKeyOf(es[a], key), SortKeyOf(es[b], key))
                               \/ (SortKeyOf(es[a], key) = SortKeyOf(es[b], key) /\ a < b))
    IN [j \in DOMAIN idx |-> es[idx[j]]]

\* a row of lines 178-188, using the cycle total for both shares
RowCountShareByCycles(e, tot) ==
    [file |-> e.file, line |-> e.line, cycles |-> e.cycles, count |-> e.count,
     address |-> e.address, chain |-> e.chain,
     cyclesPct |-> Share(e.cycles, tot.total_cycles),
     countPct  |-> Share(e.count, tot.total_cycles)]

\* a row of to_output (178-188)
Row(e, tot) ==
    [file |-> e.file, line |-> e.line, cycles |-> e.cycles, count |-> e.count,
     address |-> e.address, chain |-> e.chain,
     cyclesPct |-> Share(e.cycles, tot.total_cycles),
     countPct  |-> Share(e.count, tot.total_count)]

-----------------------------------------------------------------------------

Init ==
    /\ raw \in Documents
    /\ sortKey \in SortKeys
    /\ k = 1
    /\ entries = << >>
    /\ err = None
    /\ totals = None
    /\ out = << >>
    /\ phase = "load"

\* Lines 83-84: the top level is not a list.
RejectDocument ==
    /\ phase = "load"
    /\ raw = NotArray
    /\ err' = [at |-> 0, field |-> "array"]
    /\ phase' = "exit"
    /\ UNCHANGED <<raw, sortKey, k, entries, totals, out>>

(* One iteration of validate_and_load's loop (87-109): append the Entry,  *)
(* or raise SystemExit naming the index and the field.                    *)
LoadObject ==
    /\ phase = "load"
    /\ raw # NotArray
    /\ k <= Len(raw)
    /\ LET bad == FirstBad(raw[k]) IN
         IF bad = "none"
         THEN /\ entries' = Append(entries, ToEntry(raw[k]))
              /\ k' = k + 1
              /\ UNCHANGED <<err, phase>>
         ELSE /\ err' = [at |-> k - 1, field |-> bad]
              /\ phase' = "exit"
              /\ UNCHANGED <<entries, k>>
    /\ UNCHANGED <<raw, sortKey, totals, out>>

\* main line 223: derive, once every object is loaded.
DeriveTotals ==
    /\ phase = "load"
    /\ raw # NotArray
    /\ k > Len(raw)
    /\ totals' = Derive(entries)
    /\ phase' = "output"
    /\ UNCHANGED <<raw, sortKey, k, entries, err, out>>

\* to_output (163-202)
ToOutput ==
    /\ phase = "output"
    /\ out' = [j \in DOMAIN entries |-> Row(SortEntries(entries, sortKey)[j], totals)]
    /\ phase' = "done"
    /\ UNCHANGED <<raw, sortKey, k, entries, err, totals>>

EntryNext == RejectDocument \/ LoadObject \/ DeriveTotals \/ ToOutput

EntrySpec == Init /\ [][EntryNext]_vars

-----------------------------------------------------------------------------

Rows(s) == {s[j] : j \in DOMAIN s}

SumOf(s, F(_)) == FoldLeft(LAMBDA a, x : a + F(x), 0, s)

EntryTypeOK ==
    /\ phase \in {"load", "output", "done", "exit"}
    /\ k \in 1..(IF raw = NotArray THEN 1 ELSE Len(raw) + 1)
    /\ \A e \in Rows(entries) :
          e.line \in Nat /\ e.cycles \in Nat /\ e.count \in Nat /\ e.file # NotStr
    /\ phase = "exit" <=> err # None

(* derive's per-file rollup (136-154): every file of the entries has      *)
(* exactly one record, holding the sums of its entries' cycles and counts *)
(* and their number, and the records' shares of the cycle total add up to *)
(* one (or are all 0.0 when the total is 0).                              *)
FilesRollup ==
    totals # None =>
        LET fs == totals.files
            of(f) == SelectSeq(entries, LAMBDA e : e.file = f)
        IN /\ Len(fs) = Cardinality({e.file : e \in Rows(entries)})
           /\ \A r \in Rows(fs) :
                 /\ r.cycles = SumOf(of(r.file), LAMBDA e : e.cycles)
                 /\ r.count = SumOf(of(r.file), LAMBDA e : e.count)
                 /\ r.lines = Len(of(r.file))
           /\ \A r \in Rows(fs) :
                 IF totals.total_cycles = 0 THEN r.cyclesPct.n = 0
                 ELSE r.cyclesPct.d = totals.total_cycles
           /\ totals.total_cycles # 0 =>
                 SumOf(fs, LAMBDA r : r.cyclesPct.n) = totals.total_cycles

(* Spec section 8 on to_output's rows (186-187): the cyclesPct shares and *)
(* the countPct shares each sum to exactly one when their total is        *)
(* positive, and are all 0.0 when it is 0.                                 *)
SharesSumToOne ==
    phase = "done" =>
        \A f \in {"cycles", "count"} :
          LET pct(r) == IF f = "cycles" THEN r.cyclesPct ELSE r.countPct
              tot == SumOf(entries, LAMBDA e : e[f])
          IN IF tot = 0 THEN \A r \in Rows(out) : pct(r).n = 0
             ELSE /\ \A r \in Rows(out) : pct(r).d = tot
                  /\ SumOf(out, LAMBDA r : pct(r).n) = tot

\* the --sort metric of a row
Metric(r) == IF sortKey = "count" THEN r.count ELSE r.cycles

RowEntry(r) == [file |-> r.file, line |-> r.line, cycles |-> r.cycles,
                count |-> r.count, address |-> r.address, chain |-> r.chain]

(* to_output's order (167-174): the rows are the entries, each as often   *)
(* as in the input, ordered by the --sort metric descending, then file,   *)
(* then line; sorting them again leaves them as they are.                 *)
OutputSorted ==
    phase = "done" =>
        LET es == [j \in DOMAIN out |-> RowEntry(out[j])] IN
        /\ \A e \in Rows(entries) \cup Rows(es) :
              Len(SelectSeq(es, LAMBDA x : x = e)) = Len(SelectSeq(entries, LAMBDA x : x = e))
        /\ \A j \in 1..Len(out) - 1 :
              \/ Metric(out[j]) > Metric(out[j + 1])
              \/ Metric(out[j]) = Metric(out[j + 1]) /\ out[j].file < out[j + 1].file
              \/ Metric(out[j]) = Metric(out[j + 1]) /\ out[j].file = out[j + 1].file
                 /\ out[j].line <= out[j + 1].line
        /\ SortEntries(es, sortKey) = es

=============================================================================
