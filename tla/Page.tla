------------------------------- MODULE Page --------------------------------
(***************************************************************************)
(* The front and back of build_viewer.py's main: parse_args with its      *)
(* environment defaults (32-74), the source-embedding branch and the      *)
(* status block (242-272), the flame graph's try/except (231-241), and    *)
(* the single-file page, built by one chain of str.replace calls on the   *)
(* template and written to index.html (397-472).                          *)
(*                                                                         *)
(* A text is a sequence of tokens.  A placeholder such as "__DATA_JSON__"  *)
(* is one token, as is each of "&", "<" and ">"; "&lt;" is << "&", "lt;" >>*)
(* so that escape_html's order of replacements shows.  An argument or     *)
(* environment value is None, "" or a path token.  What the annotation    *)
(* pipeline puts in asm_map and asm_mix is modelled by AnnotatePipeline;  *)
(* here it is empty or the JSON of the listing and source text it shows.  *)
(***************************************************************************)
EXTENDS Integers, Sequences, TLC
LOCAL INSTANCE SequencesExt

CONSTANTS
    CliArgs,     \* the command lines: records of the options main reads
    Envs,        \* the environments: records of the variables parse_args reads
    Names,       \* texts of the input the report repeats (file names, chains)
    SrcTexts,    \* texts of the source files and of objdump's listings
    Template,    \* template_inline.html
    FlameError,  \* str(e) of an exception out of the flame builders
    None

VARIABLES
    data,     \* the text of the input JSON that the report repeats
    args,     \* the parsed arguments, or None
    sources,  \* sources_json, or None
    status,   \* the status dict's "sources" part
    slots,    \* each placeholder's replacement, in the order of the chain
    page,     \* the text written to index.html
    phase     \* "args" | "embed" | "render" | "done" | "exit"

vars == <<data, args, sources, status, slots, page, phase>>

\* the placeholders, in the order of the .replace chain (454-467)
Placeholders == << "__TITLE__", "__DATA_JSON__", "__FLAME_SVG__", "__FLAME_JSON__",
                   "__SOURCES_JSON__", "__STATUS_JSON__", "__ASM_JSON__",
                   "__ASM_MIX_JSON__", "__LOGO_IMG__", "/*__PIXEL_FACES__*/",
                   "__FONTS_JSON__" >>

\* Python truthiness of an optional string
Truthy(v) == v \notin {None, ""}

\* `a or b`
Or(a, b) == IF Truthy(a) THEN a ELSE b

(* str.replace(old, new) for a one-token old: every occurrence in t, left *)
(* to right, none of them inside the inserted text.                         *)
Replace(t, old, new) ==
    FlattenSeq([k \in DOMAIN t |-> IF t[k] = old THEN new ELSE << t[k] >>])

\* escape_html (208-213), and escape_xml (802-803), which makes the same three
\* replacements: "&" first, then "<", then ">"
EscapeHtml(t) ==
    Replace(Replace(Replace(t, "&", << "&", "amp;" >>), "<", << "&", "lt;" >>),
            ">", << "&", "gt;" >>)

\* json.dumps: quotes and braces around the text, which keeps "&", "<",
\* ">" and underscores as they are
Json(t) == << "{" >> \o t \o << "}" >>

Null == << "null" >>

\* flame_svg after the try of lines 233-240: the svg of the labels, or the
\* comment carrying the escaped exception text
FlameSvg(ok, labels) ==
    IF ok THEN << "<svg>" >> \o EscapeHtml(labels) \o << "</svg>" >>
    ELSE << "<!--" >> \o EscapeHtml(FlameError) \o << "-->" >>

\* flame_json after the try (233-241), as line 459 writes it: a tree dict is
\* always truthy, None becomes "null"
FlameJson(ok, labels) == IF ok THEN Json(labels) ELSE Null

-----------------------------------------------------------------------------

Init ==
    /\ data \in Names
    /\ args = None
    /\ sources = None
    /\ status = None
    /\ slots = << >>
    /\ page = << >>
    /\ phase = "args"

(* parse_args (32-74): the options, then the environment defaults of      *)
(* lines 52-66, then p.error, which exits, when input or out is missing. *)
(* Path(...).parent never raises for a non-empty string, so out is       *)
(* inferred whenever input is set.                                         *)
ParseArgs ==
    /\ phase = "args"
    /\ \E cli \in CliArgs, env \in Envs :
         LET input == Or(cli.input, Or(env.GEO_PROF_RESOLVED_JSON, env.GEO_PROF_JSON))
             out   == IF ~Truthy(cli.out) /\ Truthy(input) THEN "profile-view" ELSE cli.out
         IN /\ args' = [cli EXCEPT !.input = input, !.out = out,
                                   !.src_base = Or(cli.src_base, env.GEO_PROF_SRC_BASE),
                                   !.elf = Or(cli.elf, env.GEO_PROF_ELF),
                                   !.toolchain_prefix = Or(cli.toolchain_prefix,
                                                           env.E9K_TOOLCHAIN_PREFIX)]
            /\ phase' = IF Truthy(input) /\ Truthy(out) THEN "embed" ELSE "exit"
    /\ UNCHANGED <<data, sources, status, slots, page>>

(* Lines 242-272: embed_sources runs when --embed-source is not "none" and *)
(* a source base is known (else a warning is printed and nothing is       *)
(* embedded); it finds the entry's file or not.  The status records the   *)
(* mode, the base and, whenever sources_json was made, its file count.    *)
EmbedAndStatus ==
    /\ phase = "embed"
    /\ \E found \in BOOLEAN, txt \in SrcTexts :
         LET embed == args.embed_source # "none" /\ Truthy(args.src_base) IN
         /\ sources' = IF ~embed THEN None
                       ELSE Json(IF found THEN data \o txt ELSE << >>)
         /\ status' = [mode  |-> args.embed_source,
                       base  |-> IF Truthy(args.src_base) THEN args.src_base ELSE None,
                       files |-> IF embed /\ found THEN 1 ELSE 0]
    /\ phase' = "render"
    /\ UNCHANGED <<data, args, slots, page>>

(* Lines 226-241, 273-396 and 397-472: out carries the raw title (227);  *)
(* the flame builders succeed, or one raises (a chain deeper than the     *)
(* recursion limit does); the annotation pipeline leaves asm_map and      *)
(* asm_mix empty or not; then the replace chain, in its order, and the    *)
(* write of index.html.                                                    *)
Render ==
    /\ phase = "render"
    /\ \E flameOK \in BOOLEAN,
          asm \in {<< >>} \cup {Json(t) : t \in SrcTexts},
          mix \in {<< >>} \cup {Json(t) : t \in SrcTexts} :
         LET fill == << EscapeHtml(args.title),
                        Json(args.title \o data),
                        FlameSvg(flameOK, data),
                        FlameJson(flameOK, data),
                        IF sources # None THEN sources ELSE Null,
                        Json(<< status.mode >>),
                        IF asm # << >> THEN asm ELSE Null,
                        IF mix # << >> THEN mix ELSE Null,
                        << "data:image/png;base64" >>,
                        << "@font-face" >>,
                        Json(<< "fonts" >>) >>
         IN /\ slots' = fill
            /\ page' = FoldLeft(LAMBDA t, k : Replace(t, Placeholders[k], fill[k]),
                                Template, [k \in 1..Len(Placeholders) |-> k])
    /\ phase' = "done"
    /\ UNCHANGED <<data, args, sources, status>>

PageNext == ParseArgs \/ EmbedAndStatus \/ Render

PageSpec == Init /\ [][PageNext]_vars

-----------------------------------------------------------------------------

\* the template with each placeholder replaced by its own text, and nothing else
Expected ==
    FlattenSeq([k \in DOMAIN Template |->
                  IF \E j \in DOMAIN Placeholders : Placeholders[j] = Template[k]
                  THEN slots[CHOOSE j \in DOMAIN Placeholders : Placeholders[j] = Template[k]]
                  ELSE << Template[k] >>])

(* Spec section 6 hands the report object, the flame tree, the sources,    *)
(* the windows and the diagnostics to the packaging layer, and section 7  *)
(* says the report always renders: the written page must be the template  *)
(* with each placeholder replaced by its own text.  The chain of          *)
(* str.replace calls (454-467) also replaces placeholders that an earlier *)
(* replacement brought in, so a title, a file name, a chain label or a    *)
(* source line holding one has the page rewrite it.                       *)
PageFaithful == phase = "done" => page = Expected

=============================================================================
