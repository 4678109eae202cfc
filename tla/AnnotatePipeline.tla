--------------------------- MODULE AnnotatePipeline ---------------------------
(***************************************************************************)
(* The disassembly branch of main (build_viewer.py 273-396): scan the ELF *)
(* objdump listing (DisasmParser), then for every sample entry translate  *)
(* its PC (AddrIndex), cut the instruction window and annotate it through *)
(* the addr2line cache (LineResolver), build the mixed view (MixedView),  *)
(* and set the "mixed" status flag.  When no slice came out of that, the  *)
(* ROM fallback (356-388) disassembles $GEO_PROF_ROM (RomParser) and cuts *)
(* its own slices; the warnings of 389-396 close the run.  The run is one *)
(* sequential pass; the only nondeterminism is what the environment and   *)
(* the external tools do: which listings objdump prints, whether a ROM is *)
(* configured, whether addr2line is on the PATH, and whether each         *)
(* addr2line call fails or prints fewer lines than asked.                 *)
(***************************************************************************)
EXTENDS DisasmParser
LOCAL INSTANCE FiniteSetsExt

CONSTANTS
    Dirs, Bases, Addr2Out, SrcKeys, HasSrcBase,  \* see LineResolver
    EntryLists,   \* the sample entries, each [hex, vma, runtime]
    RuntimeBase,  \* where the program's text was loaded when profiled
    TextBase,     \* --text-base as parsed: RuntimeBase or None
    Context,      \* disasm_slice context (24 in the code)
    MixContext,   \* mixed-view context (60 in the code)
    MaxOut,       \* most lines one addr2line call is modelled to print
    RomModes,     \* subset of {"unset", "bad_base", "ok"}: $GEO_PROF_ROM(_BASE)
    RomListings   \* what `objdump -b binary -D` may print (<<>>: nothing)

AI == INSTANCE AddrIndex WITH NoBase <- None
LR == INSTANCE LineResolver
MV == INSTANCE MixedView
RP == INSTANCE RomParser

VARIABLES
    phase,        \* "scan", "entries", "mix", "finish", "rom", "report", "done"
    entries,      \* out["entries"] not yet processed
    cur,          \* the entry between its slice and its mixed view
    asmOk,        \* status["asm"]["ok"]
    addr2,        \* addr2line_create found a tool
    cache,        \* addr2["cache"]
    asmMap,       \* asm_map: entry address -> slice rows
    asmMix,       \* asm_mix: entry address -> mixed rows
    pcsParsed, pcsAdjusted, slices,  \* status["asm"] counters
    mixedFlag,    \* status["asm"]["mixed"]
    errors,       \* the warnings appended to errors
    source,       \* status["asm"]["source"]: None, "elf" or "rom"
    sampleEntries, romMode, romListing,  \* out["entries"] and the ROM setup (fixed)
    pcOf,         \* history: entry address -> [pc its slice was cut at, vma,
                  \* the disassembly it was cut from]
    mixOf         \* history: entry address -> the disassembly its mixed view came from

pipeVars == <<phase, entries, cur, asmOk, addr2, cache, asmMap, asmMix,
              pcsParsed, pcsAdjusted, slices, mixedFlag, errors, source,
              sampleEntries, romMode, romListing, pcOf, mixOf>>
fixedVars == <<sampleEntries, romMode, romListing>>
vars == <<parserVars, pipeVars>>

\* an addr2line call raises, or prints some number of lines
Outcomes == {[failed |-> TRUE, printed |-> 0]} \cup {[failed |-> FALSE, printed |-> k] : k \in 0..MaxOut}

\* the lowest instruction address of a listing (where its text starts)
ListingMin(l) ==
    LET A == {l[i].ad.addr : i \in {j \in DOMAIN l : l[j].ad # None /\ l[j].ad.ins}}
    IN IF A = {} THEN 0 ELSE Min(A)

\* a sample's PC as the profiler recorded it: the VMA, or the runtime
\* address; raw is None when its "address" field is not hex (e.g. "")
MkEntry(x, l) ==
    IF ~x.hex THEN [raw |-> None, vma |-> None]
    ELSE [raw |-> IF x.runtime THEN x.vma - ListingMin(l) + RuntimeBase ELSE x.vma,
          vma |-> x.vma]

AsmMin == Min(DOMAIN index)
AsmMax == Max(DOMAIN index)

\* `r.get("file") and r.get("line")`
Truthy(f, n) == f # None /\ n # None /\ n # 0

(* addr2line_annotate_slice, lines 556-582: resolve the rows without a    *)
(* file and line, then copy the cache's answer into them.                 *)
NeedAddrs(rows) ==
    LET need == SelectSeq(rows, LAMBDA r : ~Truthy(r.file, r.line))
    IN [i \in DOMAIN need |-> need[i].address]

AnnotateRows(rows, c) ==
    [i \in DOMAIN rows |->
        LET r == rows[i] IN
        IF ~Truthy(r.file, r.line) /\ r.address \in DOMAIN c
           /\ Truthy(c[r.address].file, c[r.address].line)
        THEN [r EXCEPT !.file = c[r.address].file, !.line = c[r.address].line]
        ELSE r]

Init ==
    /\ \E l \in Listings :
          /\ ParserInit(l)
          /\ \E el \in EntryLists : entries = [i \in DOMAIN el |-> MkEntry(el[i], l)]
    /\ sampleEntries = entries
    /\ romMode \in RomModes
    /\ romListing \in RomListings
    /\ source = None
    /\ phase = "scan"
    /\ cur = None
    /\ asmOk = FALSE
    /\ addr2 = FALSE
    /\ cache = <<>>
    /\ asmMap = <<>>
    /\ asmMix = <<>>
    /\ pcsParsed = None /\ pcsAdjusted = None /\ slices = None
    /\ mixedFlag = FALSE
    /\ errors = {}
    /\ pcOf = <<>>
    /\ mixOf = <<>>

\* build_disasm_index's loop, one line per step
Scan ==
    /\ phase = "scan"
    /\ ScanLine
    /\ UNCHANGED pipeVars

(* Lines 278-301: an index was built: status ok, and addr2line_create     *)
(* looks for a tool.  An empty index skips the whole block.               *)
Setup ==
    /\ phase = "scan"
    /\ ScanDone
    /\ IF DOMAIN index # {}
       THEN /\ asmOk' = TRUE /\ source' = "elf"
            /\ slices' = 0 /\ pcsParsed' = 0 /\ pcsAdjusted' = 0
            /\ addr2' \in BOOLEAN
            /\ phase' = "entries"
       ELSE /\ phase' = "finish"
            /\ UNCHANGED <<asmOk, addr2, source, slices, pcsParsed, pcsAdjusted>>
    /\ UNCHANGED <<parserVars, fixedVars, entries, cur, cache, asmMap, asmMix, mixOf,
                   mixedFlag, errors, pcOf>>

\* Fault model: the slice counter bumped before the address is parsed.
SkipEntryCounted ==
    /\ entries' = Tail(entries)
    /\ slices' = slices + 1
    /\ UNCHANGED <<phase, cur, cache, asmMap, pcsParsed, pcsAdjusted, pcOf>>

\* Lines 305-308: an address that is not hex is skipped (`continue`).
SkipEntry ==
    /\ entries' = Tail(entries)
    /\ UNCHANGED <<phase, cur, cache, asmMap, pcsParsed, pcsAdjusted, slices, pcOf>>

(* Lines 303-326: parse the PC (skip the entry if it is not hex),          *)
(* translate it, cut the slice, annotate it through addr2line.            *)
AnnotateEntry ==
    /\ phase = "entries"
    /\ entries # <<>>
    /\ LET e == Head(entries) IN
       IF e.raw = None
       THEN SkipEntry
       ELSE \E t \in {AI!TranslatePC(e.raw, AsmMin, AsmMax, TextBase, TRUE)} :
            \E rows0 \in {AI!DisasmSlice(index, t.pc, Context)} :
               /\ IF addr2 /\ rows0 # <<>>
                  THEN \E o \in Outcomes : \E c \in {LR!Resolve(cache, NeedAddrs(rows0), o)} :
                          /\ cache' = c
                          /\ asmMap' = (e.raw :> AnnotateRows(rows0, c)) @@ asmMap
                  ELSE /\ asmMap' = (e.raw :> rows0) @@ asmMap
                       /\ UNCHANGED cache
               /\ pcsParsed' = pcsParsed + 1
               /\ pcsAdjusted' = pcsAdjusted + (IF t.adjusted THEN 1 ELSE 0)
               /\ slices' = slices + 1
               /\ pcOf' = (e.raw :> [pc |-> t.pc, vma |-> e.vma, src |-> "elf"]) @@ pcOf
               /\ cur' = [key |-> e.raw, pc |-> t.pc]
               /\ entries' = Tail(entries)
               /\ phase' = "mix"
    /\ UNCHANGED <<parserVars, fixedVars, asmOk, addr2, asmMix, mixOf, mixedFlag, errors, source>>

(* Lines 327-343: the mixed view, from the inline attribution when the    *)
(* listing had any, else through addr2line.                               *)
MixEntry ==
    /\ phase = "mix"
    /\ \E w \in {MV!MixWindow(seq, cur.pc, MixContext)} :
       CASE w = <<>> \/ (~mixedCandidate /\ ~addr2) ->
               UNCHANGED <<cache, asmMix, mixOf>>
         [] mixedCandidate ->
               /\ asmMix' = (cur.key :> MV!InlineMixed(w, cur.pc)) @@ asmMix
               /\ mixOf' = (cur.key :> "elf") @@ mixOf
               /\ UNCHANGED cache
         [] OTHER ->
               \E o \in Outcomes : \E c \in {LR!Resolve(cache, MV!InsnAddrs(w), o)} :
                  /\ cache' = c
                  /\ asmMix' = (cur.key :> MV!ResolverMixed(c, w, cur.pc)) @@ asmMix
                  /\ mixOf' = (cur.key :> "elf") @@ mixOf
    /\ phase' = "entries"
    /\ UNCHANGED <<parserVars, fixedVars, entries, cur, asmOk, addr2, asmMap, pcsParsed,
                   pcsAdjusted, slices, mixedFlag, errors, source, pcOf>>

\* Lines 344-352: "mixed" when a slice row has a file and line or any mixed view exists
FinishEntries ==
    /\ phase = "entries"
    /\ entries = <<>>
    /\ mixedFlag' = \/ \E k \in DOMAIN asmMap : \E i \in DOMAIN asmMap[k] :
                          Truthy(asmMap[k][i].file, asmMap[k][i].line)
                    \/ asmMix # <<>>
    /\ phase' = "finish"
    /\ UNCHANGED <<parserVars, fixedVars, entries, cur, asmOk, addr2, cache, asmMap, asmMix, mixOf,
                   pcsParsed, pcsAdjusted, slices, errors, source, pcOf>>

\* the ROM disassembly and its event sequence (build_disasm_index_from_rom)
RomIdx == RP!RomIndex(romListing)
RomEvs == RP!RomSeq(romListing)

\* Fault model: the fallback taken without testing `if not asm_map`.
RomFallbackUnguarded ==
    /\ phase = "finish"
    /\ romMode # "unset"
    /\ CASE romMode = "bad_base" ->
              /\ errors' = errors \cup {"rom_failed"}
              /\ phase' = "report"
              /\ UNCHANGED <<asmOk, source, mixedFlag, entries>>
         [] DOMAIN RomIdx = {} ->
              /\ phase' = "report"
              /\ UNCHANGED <<asmOk, source, mixedFlag, entries, errors>>
         [] OTHER ->
              /\ asmOk' = TRUE /\ source' = "rom" /\ mixedFlag' = FALSE
              /\ entries' = sampleEntries
              /\ phase' = "rom"
              /\ UNCHANGED errors
    /\ UNCHANGED <<parserVars, fixedVars, cur, addr2, cache, asmMap, asmMix, mixOf,
                   pcsParsed, pcsAdjusted, slices, pcOf>>

(* Lines 356-364: with no slice from the ELF and a ROM configured, parse  *)
(* the base (a bad one raises: "ROM disassembly failed"), disassemble the *)
(* ROM and, when that gave instructions, take the status over for it and  *)
(* go through all the entries again.                                       *)
RomFallback ==
    /\ phase = "finish"
    /\ asmMap = <<>> /\ romMode # "unset"
    /\ CASE romMode = "bad_base" ->
              /\ errors' = errors \cup {"rom_failed"}
              /\ phase' = "report"
              /\ UNCHANGED <<asmOk, source, mixedFlag, entries>>
         [] DOMAIN RomIdx = {} ->
              /\ phase' = "report"
              /\ UNCHANGED <<asmOk, source, mixedFlag, entries, errors>>
         [] OTHER ->
              /\ asmOk' = TRUE /\ source' = "rom" /\ mixedFlag' = FALSE
              /\ entries' = sampleEntries
              /\ phase' = "rom"
              /\ UNCHANGED errors
    /\ UNCHANGED <<parserVars, fixedVars, cur, addr2, cache, asmMap, asmMix, mixOf,
                   pcsParsed, pcsAdjusted, slices, pcOf>>

\* Line 356: slices exist, or no ROM is configured: no fallback
NoRomFallback ==
    /\ phase = "finish"
    /\ asmMap # <<>> \/ romMode = "unset"
    /\ phase' = "report"
    /\ UNCHANGED <<parserVars, fixedVars, entries, cur, asmOk, addr2, cache, asmMap, asmMix, mixOf,
                   pcsParsed, pcsAdjusted, slices, mixedFlag, errors, source, pcOf>>

\* Fault model: the slice stored inside `if idxs:`, only for a PC that is an instruction.
RomEntryInsnOnly ==
    /\ phase = "rom"
    /\ entries # <<>>
    /\ LET e == Head(entries) IN
       IF e.raw = None
       THEN UNCHANGED <<asmMap, asmMix, mixOf, pcOf>>
       ELSE \E rows \in {AI!DisasmSlice(RomIdx, e.raw, Context)} :
            \E w \in {MV!MixWindow(RomEvs, e.raw, MixContext)} :
               IF w # <<>>
               THEN /\ asmMap' = (e.raw :> rows) @@ asmMap
                    /\ pcOf' = (e.raw :> [pc |-> e.raw, vma |-> e.vma, src |-> "rom"]) @@ pcOf
                    /\ asmMix' = (e.raw :> MV!InlineMixed(w, e.raw)) @@ asmMix
                    /\ mixOf' = (e.raw :> "rom") @@ mixOf
               ELSE UNCHANGED <<asmMap, pcOf, asmMix, mixOf>>
    /\ entries' = Tail(entries)
    /\ UNCHANGED <<parserVars, fixedVars, phase, cur, asmOk, addr2, cache, pcsParsed,
                   pcsAdjusted, slices, mixedFlag, errors, source>>

(* Lines 365-386: one entry of the ROM pass: the raw PC (no translation,  *)
(* no addr2line, no counters), its slice, and its mixed view straight    *)
(* from the ROM's events.                                                 *)
RomEntry ==
    /\ phase = "rom"
    /\ entries # <<>>
    /\ LET e == Head(entries) IN
       IF e.raw = None
       THEN UNCHANGED <<asmMap, asmMix, mixOf, pcOf>>
       ELSE \E rows \in {AI!DisasmSlice(RomIdx, e.raw, Context)} :
            \E w \in {MV!MixWindow(RomEvs, e.raw, MixContext)} :
               /\ IF rows # <<>>
                  THEN /\ asmMap' = (e.raw :> rows) @@ asmMap
                       /\ pcOf' = (e.raw :> [pc |-> e.raw, vma |-> e.vma, src |-> "rom"]) @@ pcOf
                  ELSE UNCHANGED <<asmMap, pcOf>>
               /\ IF w # <<>>
                  THEN /\ asmMix' = (e.raw :> MV!InlineMixed(w, e.raw)) @@ asmMix
                       /\ mixOf' = (e.raw :> "rom") @@ mixOf
                  ELSE UNCHANGED <<asmMix, mixOf>>
    /\ entries' = Tail(entries)
    /\ UNCHANGED <<parserVars, fixedVars, phase, cur, asmOk, addr2, cache, pcsParsed,
                   pcsAdjusted, slices, mixedFlag, errors, source>>

RomEntriesDone ==
    /\ phase = "rom"
    /\ entries = <<>>
    /\ phase' = "report"
    /\ UNCHANGED <<parserVars, fixedVars, entries, cur, asmOk, addr2, cache, asmMap, asmMix, mixOf,
                   pcsParsed, pcsAdjusted, slices, mixedFlag, errors, source, pcOf>>

(* Lines 389-396: the warnings.  pcsParsed is only an int when the ELF    *)
(* branch initialised it (line 282); isinstance(None, int) is false.       *)
Report ==
    /\ phase = "report"
    /\ errors' = errors
                 \cup (IF asmOk /\ ~mixedFlag
                       THEN IF pcsParsed # None /\ pcsParsed = 0
                            THEN {"no_entry_addresses"} ELSE {"no_line_mapping"}
                       ELSE {})
                 \cup (IF ~asmOk THEN {"no_asm"} ELSE {})
    /\ phase' = "done"
    /\ UNCHANGED <<parserVars, fixedVars, entries, cur, asmOk, addr2, cache, asmMap, asmMix, mixOf,
                   pcsParsed, pcsAdjusted, slices, mixedFlag, source, pcOf>>

PipeNext ==
    \/ Scan
    \/ Setup
    \/ AnnotateEntry
    \/ MixEntry
    \/ FinishEntries
    \/ RomFallback
    \/ NoRomFallback
    \/ RomEntry
    \/ RomEntriesDone
    \/ Report

PipeSpec == Init /\ [][PipeNext]_vars

\* main is one thread that never waits: whatever step is next is taken
FairPipeSpec == PipeSpec /\ WF_vars(PipeNext)

-----------------------------------------------------------------------------
\* a row's file is the disassembler's (a model value) or addr2line's (a path)
IsRow(r) ==
    /\ r.address \in Addrs /\ r.isPC \in BOOLEAN
    /\ r.file = None \/ r.file \in Files \/ r.file \in LR!Path
    /\ r.line = None \/ r.line \in Nat

PipeTypeOK ==
    /\ ParserTypeOK
    /\ phase \in {"scan", "entries", "mix", "finish", "rom", "report", "done"}
    /\ source \in {None, "elf", "rom"}
    /\ asmOk \in BOOLEAN /\ addr2 \in BOOLEAN /\ mixedFlag \in BOOLEAN
    /\ DOMAIN cache \subseteq Addrs
    /\ \A a \in DOMAIN cache : cache[a] \in {LR!NoInfo} \cup [file : LR!Path, line : Nat]
    /\ \A k \in DOMAIN asmMap : \A i \in DOMAIN asmMap[k] : IsRow(asmMap[k][i])
    /\ pcsParsed = None \/ (pcsAdjusted <= pcsParsed /\ slices <= pcsParsed)
    /\ errors \subseteq {"no_entry_addresses", "no_line_mapping", "no_asm", "rom_failed"}
    /\ \A k \in DOMAIN mixOf : mixOf[k] \in {"elf", "rom"}

(***************************************************************************)
(* The addr2line cache (addr2line_resolve) only ever holds "no            *)
(* information" or the true location of each address, across every call  *)
(* the slices and mixed views make, whatever each call's outcome.         *)
(***************************************************************************)
CacheSound == LR!CacheSoundFor(cache)

(***************************************************************************)
(* An address's cache entry, once written, is never rewritten by a later  *)
(* entry's call (the `todo` filter of addr2line_resolve).                  *)
(***************************************************************************)
CacheStable == [][LR!CacheKept(cache, cache')]_cache

RuntimeDisjoint ==
    DOMAIN index # {} =>
        \/ RuntimeBase > AsmMax
        \/ RuntimeBase + (AsmMax - AsmMin) < AsmMin

TranslateRecoversVMA ==
    (TextBase # None /\ RuntimeDisjoint) =>
        \A k \in DOMAIN pcOf :
            (pcOf[k].src = "elf" /\ pcOf[k].vma \in DOMAIN index) => pcOf[k].pc = pcOf[k].vma

(***************************************************************************)
(* In a mixed view built through addr2line (addr2line_build_mixed), every *)
(* instruction row with a resolved file and line comes under a source row *)
(* for that same file and line: the nearest source row above it.          *)
(***************************************************************************)
MixedRowsHeaded ==
    ~mixedCandidate =>
        \A k \in DOMAIN asmMix :
            LET rows == asmMix[k] IN
            \A i \in DOMAIN rows :
                (rows[i].kind = "insn" /\ Truthy(rows[i].file, rows[i].line)) =>
                    LET above == {j \in 1..(i - 1) : rows[j].kind = "src"} IN
                    /\ above # {}
                    /\ rows[Max(above)].file = rows[i].file
                    /\ rows[Max(above)].line = rows[i].line

(***************************************************************************)
(* The report's "mixed" status (lines 344-352) is only set when some view *)
(* really shows a source location; otherwise the warning "ASM OK but no   *)
(* source line mapping found; Mixed view unavailable" (line 394) is due.  *)
(***************************************************************************)
StatusMixedHonest ==
    (phase = "done" /\ mixedFlag) =>
        \/ \E k \in DOMAIN asmMap : \E i \in DOMAIN asmMap[k] :
              Truthy(asmMap[k][i].file, asmMap[k][i].line)
        \/ \E k \in DOMAIN asmMix : \E i \in DOMAIN asmMix[k] :
              Truthy(asmMix[k][i].file, asmMix[k][i].line)


(***************************************************************************)
(* Every instruction window and every mixed view in the report comes from *)
(* the disassembly status.asm.source names: the ROM fallback (line 356)   *)
(* never runs over, or mixes with, the views of a successful ELF pass.    *)
(***************************************************************************)
ViewsMatchSource ==
    /\ \A k \in DOMAIN asmMap : pcOf[k].src = source
    /\ \A k \in DOMAIN asmMix : mixOf[k] = source

(***************************************************************************)
(* When the disassembly worked but no entry had a hex address, the report *)
(* says "No entry addresses found" (line 392) and not that the ELF lacks  *)
(* line information.                                                      *)
(***************************************************************************)
ReportNamesCause ==
    (phase = "done" /\ asmOk /\ \A i \in DOMAIN sampleEntries : sampleEntries[i].raw = None)
        => /\ "no_entry_addresses" \in errors
           /\ "no_line_mapping" \notin errors


(***************************************************************************)
(* The instruction window and the mixed view of a sample mark the same    *)
(* instruction as the PC: the slice takes the record m kept for the PC    *)
(* (line 1030 overwrites), the mixed view centres on idxs[0] (line 329).  *)
(***************************************************************************)
MixedPCAgrees ==
    \A k \in DOMAIN asmMap \cap DOMAIN asmMix :
        \A i \in DOMAIN asmMap[k], j \in DOMAIN asmMix[k] :
            (asmMap[k][i].isPC /\ asmMix[k][j].isPC) => asmMix[k][j].text = asmMap[k][i].text

\* the positions an entry list of the model can have
EntrySlots == UNION {DOMAIN el : el \in EntryLists}

(***************************************************************************)
(* Once a disassembly (ELF, or the ROM fallback) has produced an index,   *)
(* every sample entry with a hex address eventually has an instruction    *)
(* window in asm_map: the entry loops of lines 302 and 362 reach every    *)
(* entry, skip only non-hex ones, and a non-empty index always gives a    *)
(* non-empty slice.                                                       *)
(***************************************************************************)
EveryEntrySliced ==
    \A i \in EntrySlots :
        (asmOk /\ i \in DOMAIN sampleEntries /\ sampleEntries[i].raw # None)
            ~> (i \in DOMAIN sampleEntries /\ sampleEntries[i].raw \in DOMAIN asmMap)

=============================================================================
