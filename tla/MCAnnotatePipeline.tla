------------------------- MODULE MCAnnotatePipeline -------------------------
(* Three objdump outputs (none, one without line info, one with inline   *)
(* file:line mappings), up to two sample entries, and an addr2line whose *)
(* answers exercise the source-root and basename normalisation.          *)
EXTENDS AnnotatePipeline

\* model values: two source files, and the banner text left in cur_file
CONSTANTS FileA, FileB, Banner

\* "Disassembly of section .text:", "<main>:", then four instructions
PlainListing ==
    << FileHeaderText(Banner), LabelText,
       InstructionText(16, TRUE, None), InstructionText(18, TRUE, None),
       InstructionText(20, TRUE, None), InstructionText(22, TRUE, None) >>

\* "a.c:1", insn, source text, insn, "a.c:2  text", insn, "  1  text", insn
InlineListing ==
    << MappingText(FileA, 1, FALSE), InstructionText(16, TRUE, None), SourceText,
       InstructionText(18, TRUE, None), MappingText(FileA, 2, TRUE),
       InstructionText(20, TRUE, None), LineNumberText(1, TRUE),
       InstructionText(22, TRUE, None) >>

MCListings == {<<>>, PlainListing, InlineListing}

\* a relocatable object: two executable sections, both starting at 16
DupListing ==
    << FileHeaderText(Banner), InstructionText(16, TRUE, None), InstructionText(18, TRUE, None),
       FileHeaderText(Banner), InstructionText(16, TRUE, None) >>

MCDupListings == {DupListing}

P(r, d, b) == [root |-> r, dir |-> d, base |-> b]

MCAddr2Out ==
    (16 :> [file |-> P("src", "d1", "x.c"), line |-> 1]) @@
    (18 :> [file |-> P("src", "d1", "x.c"), line |-> 2]) @@
    (20 :> [file |-> P("other", "d9", "y.c"), line |-> 1]) @@
    (22 :> [file |-> P("other", "d3", "x.c"), line |-> 1]) @@
    [a \in {116, 118, 120, 122} |-> [file |-> None, line |-> None]]

MCSrcKeys == {P("rel", "d1", "x.c"), P("rel", "d2", "x.c"), P("rel", "d1", "y.c")}

\* 30 lies above the text; 18 and 22 are also recorded as runtime addresses
EntryChoices ==
    {[hex |-> FALSE, vma |-> 0, runtime |-> FALSE]} \cup
    {[hex |-> TRUE, vma |-> v[1], runtime |-> v[2]] :
        v \in {<<16, FALSE>>, <<20, FALSE>>, <<30, FALSE>>, <<18, TRUE>>, <<22, TRUE>>}}

\* the ROM loaded at RuntimeBase: file header, blank, "...", an address
\* with no instruction text
RomListing ==
    << RP!RomLabelText, RP!RomBlankText, RP!RomInsnText(116, TRUE), RP!RomFreeText,
       RP!RomInsnText(118, TRUE), RP!RomInsnText(120, FALSE), RP!RomInsnText(122, TRUE) >>

MCRomListings == {<<>>, RomListing}

MaxEntries == 3

MCEntryLists == UNION {[1..n -> EntryChoices] : n \in 0..MaxEntries}

\* for the liveness run: every entry kind, and every pair of them
MaxEntriesLive == 2

MCEntryListsLive == UNION {[1..n -> EntryChoices] : n \in 0..MaxEntriesLive}
=============================================================================
