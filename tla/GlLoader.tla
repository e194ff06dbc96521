------------------------------ MODULE GlLoader ------------------------------
(***************************************************************************)
(* How the window starts (vbus-gui/src/main.cpp) and the OpenGL loader it     *)
(* starts with (vbus-gui/glad/src/glad.c).  The loader is generated code; it  *)
(* is here because the window calls through the pointers it leaves.           *)
(*                                                                            *)
(* A driver d is a record: procs, the functions an address is found for;      *)
(* answers, whether it has a version text at all; version, that text; exts,   *)
(* the number of its extensions.                                              *)
(* A version text is a prefix and the numbers that "%d.%d" reads after it.    *)
(***************************************************************************)
EXTENDS Integers, Sequences, SequencesExt, FiniteSetsExt

CONSTANT Garbage   \* what an integer nobody has assigned may hold

EsPrefixes == {"", "OpenGL ES-CM ", "OpenGL ES-CL ", "OpenGL ES "}

\* The versions there is a flag GLAD_GL_VERSION_a_b for.
Versions == ({1} \X (0..5)) \cup ({2} \X (0..1)) \cup ({3} \X (0..3)) \cup ({4} \X (0..6))

\* What load_GL_VERSION_a_b asks the driver for: a function is named by the version it
\* came with, so that "others" stands for the rest of each version.
GetString == <<1, 0, "glGetString">>
GetIntegerv == <<1, 0, "glGetIntegerv">>
GetStringi == <<3, 0, "glGetStringi">>
Drawing == {<<1, 0, "glViewport">>, <<1, 0, "glClear">>}
Functions(v) == {f \in Drawing \cup {GetString, GetIntegerv, GetStringi} : <<f[1], f[2]>> = v}
                    \cup {<<v[1], v[2], "others">>}

\* The pointers before the loader runs: all NULL.
NothingLoaded == {}

\* find_coreGL: the numbers it reads.  sscanf leaves alone what it does not reach,
\* and neither number has a value before.
Read(text) ==
    LET numbers == IF text.prefix \in EsPrefixes THEN text.numbers ELSE <<>>
    IN  {v \in (Garbage \cup ToSet(numbers)) \X (Garbage \cup ToSet(numbers)) :
            /\ Len(numbers) >= 1 => v[1] = numbers[1]
            /\ Len(numbers) >= 2 => v[2] = numbers[2]
            /\ \A k \in 1..2 : k > Len(numbers) => v[k] \in Garbage}

\* find_coreGL: the flags, and the version the extensions are asked for by.
Flags(v) == {w \in Versions : (v[1] = w[1] /\ v[2] >= w[2]) \/ v[1] > w[1]}
MaxLoaded(v) == IF v[1] > 4 \/ (v[1] >= 4 /\ v[2] >= 6) THEN <<4, 6>> ELSE v

\* load_GL_VERSION_1_0 .. load_GL_VERSION_4_6: each returns at once without its flag.
LoadVersions(loaded, d, flags) == loaded \cup (d.procs \cap UNION {Functions(w) : w \in flags})

\* get_exts: the pointers it calls, and whether it succeeds.  One list of names up to
\* version 2; from 3 on they are counted first, and none at all is a failure.
GetExts(max, d) ==
    IF max[1] < 3 THEN [calls |-> {GetString}, ok |-> TRUE]
    ELSE [calls |-> {GetIntegerv} \cup IF d.exts > 0 THEN {GetStringi} ELSE {},
          ok |-> d.exts > 0]

\* gladLoadGLLoader: the pointers it leaves, those it has called, what it returns.
Failed(loaded) == [ok |-> FALSE, loaded |-> loaded, calls |-> loaded]
LoadGLLoader(d) ==
    LET first == NothingLoaded \cup (d.procs \cap {GetString})
    IN  IF first = {} \/ ~d.answers THEN {Failed(first)}
        ELSE {[ok |-> GetExts(MaxLoaded(v), d).ok /\ v # <<0, 0>>,
               loaded |-> LoadVersions(first, d, Flags(v)),
               calls |-> first \cup GetExts(MaxLoaded(v), d).calls] : v \in Read(d.version)}

\* gladLoadGL, which nothing calls: glad finds the addresses itself.  A library that
\* opens but lacks the lookup function is given up, and stays open.
Opened(library) == library.opens /\ library.hasLookup
GetProc(library) == library.lookup \cup library.exported
LoadGL(library, d) ==
    IF Opened(library) THEN LoadGLLoader([d EXCEPT !.procs = GetProc(library)])
    ELSE {Failed(NothingLoaded)}

\* main: its exit codes before the first frame; 0 is a window that draws.
ExitCodes(glfw, window, d) ==
    IF ~glfw \/ ~window THEN {1} ELSE {IF r.ok THEN 0 ELSE 2 : r \in LoadGLLoader(d)}

\* has_ext, before version 3: whether ext is found in the list of names, a text with
\* blanks between them, by searching on from the end of each wrong match.
HasExt(text, ext) ==
    LET n == Len(ext)
        Matches(from) == {p \in from..(Len(text) - n + 1) : SubSeq(text, p, p + n - 1) = ext}
        from[p \in 1..(Len(text) + 1)] ==
            /\ Matches(p) # {}
            /\ LET loc == Min(Matches(p))
                   end == loc + n
               IN  \/ /\ loc = p \/ text[loc - 1] = " "
                      /\ end > Len(text) \/ text[end] = " "
                   \/ from[end]
    IN  from[1]
=============================================================================
