------------------------------- MODULE MCPage -------------------------------
EXTENDS Page

\* a path, a text of plain characters, and texts holding markup or a
\* placeholder of the template
MCPaths == {None, "", "p"}

MCTitles == {<< "Geo Profiler Report" >>, << "a", "<", "b" >>}

MCNames == {<< "main.c" >>, << "f", "&", "g" >>, << "__FLAME_SVG__" >>}

MCSrcTexts == {<< "int x;" >>, << "s", "__ASM_JSON__" >>}

MCCliArgs ==
    [input: {None, "in.json"}, out: {None, "o"}, src_base: {None, "src"},
     elf: {None}, toolchain_prefix: {None}, embed_source: {"none", "full"},
     title: MCTitles]

MCEnvs ==
    [GEO_PROF_RESOLVED_JSON: MCPaths, GEO_PROF_JSON: {None, "in.json"},
     GEO_PROF_SRC_BASE: {None, "", "src"}, GEO_PROF_ELF: {None},
     E9K_TOOLCHAIN_PREFIX: {None}]

\* a template holding every placeholder once, between markup
MCTemplate ==
    << "<title>", "__TITLE__", "</title>", "<script>", "__DATA_JSON__",
       "__FLAME_JSON__", "__SOURCES_JSON__", "__STATUS_JSON__", "__ASM_JSON__",
       "__ASM_MIX_JSON__", "__FONTS_JSON__", "</script>", "<style>",
       "/*__PIXEL_FACES__*/", "</style>", "<img>", "__LOGO_IMG__", "<div>",
       "__FLAME_SVG__", "</div>" >>

MCFlameError == << "maximum recursion depth exceeded" >>
=============================================================================
