------------------------------- MODULE MCGui --------------------------------
(* A small instance of Gui for TLC; the bounds are in the .cfg file.         *)
EXTENDS Gui

\* No filters, and the two rules the panel adds, with a third that excludes what ends in
\* 0, which the scan finds on its second try.
MCFilterLists == {<<>>,
    <<[type |-> "Include", expr |-> <<"vlan:", "*">>],
      [type |-> "Exclude", expr |-> <<"size:", "*">>],
      [type |-> "Exclude", expr |-> <<"*", "0">>]>>}

\* Of a handler's commands none is lost, any one, or all.
MCLosses(commands) == {{}, commands} \cup {{c} : c \in commands}

\* glob_match decides what the patterns mean, for every pattern and text of at most
\* four characters.
Strings(chars) == UNION {[1..k -> chars] : k \in 0..4}
ASSUME GlobAgrees ==
    \A pattern \in Strings({"a", "b", "*", "?"}), text \in Strings({"a", "b"}) :
        GlobMatch(pattern, text) = Matches(pattern, text)

\* Going through a ring buffer gives what was pushed last, oldest first, and stays in
\* the array, but only until a push comes after the one that filled it.
R == INSTANCE RingBuffer
ASSUME RingReadsInside ==
    \A cap \in 1..4, n \in 0..12 :
        LET r == FoldLeft(LAMBDA a, v : R!Pushed(a, cap, v), R!Empty(cap), [k \in 1..n |-> k])
            seen == R!Visited(r, cap)
            last == IF n < cap THEN n ELSE cap
            good == /\ ToSet(seen) \subseteq 0..(cap - 1)
                    /\ [k \in DOMAIN seen |-> r.data[seen[k]]] = [k \in 1..last |-> n - last + k]
        IN  good <=> n <= cap \/ n % cap = 0

\* The loader's start, for every version of OpenGL, unreadable texts too: what it says
\* yes to can be drawn with, and it calls only what it has loaded, if the version was
\* read.  Of one number the major version is enough, but for 1, whose functions then
\* hang on a number nobody wrote, and 3, whose extensions do.
L == INSTANCE GlLoader WITH Garbage <- {-1, 0, 7}
Texts == [prefix : {"", "OpenGL ES ", "Mesa "},
          numbers : {<<>>} \cup [1..1 -> 1..5] \cup {<<w[1], w[2]>> : w \in L!Versions}]
Driver(text, n) == [answers |-> TRUE, version |-> text, exts |-> n, procs |-> UNION {L!Functions(w) : w \in L!Versions}]
ASSUME LoadedIsCallable ==
    \A text \in Texts, n \in 0..1 :
        LET numbers == IF text.prefix = "Mesa " THEN <<>> ELSE text.numbers
            safe == \A r \in L!LoadGLLoader(Driver(text, n)) :
                        r.calls \subseteq r.loaded /\ (r.ok => L!Drawing \subseteq r.loaded)
            upTo(v) == {w \in L!Versions : w[1] < v[1] \/ (w[1] = v[1] /\ w[2] <= v[2])}
        IN  /\ safe <=> \/ Len(numbers) = 2
                        \/ Len(numbers) = 1 /\ numbers[1] # 1 /\ (numbers[1] = 3 => n = 0)
            /\ Len(numbers) = 2 =>
                  \A r \in L!LoadGLLoader(Driver(text, n)) :
                      r.loaded = UNION {L!Functions(w) : w \in upTo(numbers)}

\* The window starts on a driver of the version it asks for, 4.6, exactly if the driver
\* has an extension: none at all ends the program with 2, as no version text does and
\* no address for glGetString.  glad's own lookup does as well where version 1.1 is
\* exported and the rest is looked up, but only where there is a lookup function.
ASSUME WindowStarts ==
    LET driver(n) == Driver([prefix |-> "", numbers |-> <<4, 6>>], n)
        core == L!Functions(<<1, 0>>) \cup L!Functions(<<1, 1>>)
        library(has) == [opens |-> TRUE, hasLookup |-> has, exported |-> core,
                         lookup |-> driver(1).procs \ core]
    IN  /\ L!ExitCodes(TRUE, TRUE, driver(1)) = {0}
        /\ \A bad \in {driver(0), [driver(1) EXCEPT !.answers = FALSE], [driver(1) EXCEPT !.procs = {}]} :
              L!ExitCodes(TRUE, TRUE, bad) = {2}
        /\ L!LoadGL(library(TRUE), driver(1)) = L!LoadGLLoader(driver(1))
        /\ \A r \in L!LoadGL(library(FALSE), driver(1)) : ~r.ok

\* has_ext finds every name of the list, and finds besides only the second half of a
\* name that ends in ext twice.
ASSUME ExtensionsFound ==
    \A ext \in {<<"a">>, <<"a", "b">>, <<"a", "a">>}, n \in 0..6 :
        \A text \in [1..n -> {"a", "b", " "}] :
            LET words == {SubSeq(text, i, j) : i \in 1..n, j \in 1..n} \ {<<>>}
                isWord(w) == \E i \in 1..n, j \in 1..n :
                    /\ SubSeq(text, i, j) = w /\ i <= j /\ " " \notin ToSet(w)
                    /\ i = 1 \/ text[i - 1] = " "
                    /\ j = n \/ text[j + 1] = " "
            IN  /\ isWord(ext) => L!HasExt(text, ext)
                /\ L!HasExt(text, ext) => isWord(ext) \/ \E w \in words : isWord(w) /\ IsSuffix(ext \o ext, w)
=============================================================================
