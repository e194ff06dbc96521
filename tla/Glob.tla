-------------------------------- MODULE Glob --------------------------------
(***************************************************************************)
(* The display filters of vbus-gui: glob_match and passes_filters            *)
(* (vbus-gui/src/model.cpp), the scan with one remembered star, and, beside  *)
(* them, what a glob pattern means.  A text is a sequence of characters; a   *)
(* fixed word ("vlan:") is one of them.                                      *)
(***************************************************************************)
EXTENDS Naturals, Sequences

\* glob_match: pi and ti scan the two strings, star is the last '*' passed (0:
\* none) and from the place in the text where its share ends.
Places == [pi : Nat, ti : Nat, star : Nat, from : Nat]
At(pi, ti, star, from) == [pi |-> pi, ti |-> ti, star |-> star, from |-> from]
GlobMatch(pattern, text) ==
    LET scan[at \in Places] ==
            IF at.ti > Len(text)
            THEN \A k \in at.pi..Len(pattern) : pattern[k] = "*"
            ELSE IF at.pi <= Len(pattern) /\ pattern[at.pi] \in {text[at.ti], "?"}
            THEN scan[At(at.pi + 1, at.ti + 1, at.star, at.from)]
            ELSE IF at.pi <= Len(pattern) /\ pattern[at.pi] = "*"
            THEN scan[At(at.pi + 1, at.ti, at.pi, at.ti)]
            ELSE at.star # 0 /\ scan[At(at.star + 1, at.from + 1, at.star, at.from + 1)]
    IN  scan[At(1, 1, 0, 0)]

\* What the pattern means: a star stands for any run of characters, a question
\* mark for one.  fits[n]: where in the text the last n of the pattern fit its rest.
Matches(pattern, text) ==
    LET fits[n \in 0..Len(pattern)] ==
            LET c == pattern[Len(pattern) + 1 - n]
            IN  IF n = 0 THEN {Len(text) + 1}
                ELSE IF c = "*" THEN {j \in 1..(Len(text) + 1) : \E k \in fits[n - 1] : j <= k}
                ELSE {j \in 1..Len(text) : c \in {text[j], "?"} /\ j + 1 \in fits[n - 1]}
    IN  1 \in fits[Len(pattern)]

-----------------------------------------------------------------------------
Digits == <<"0", "1", "2", "3", "4", "5", "6", "7", "8", "9">>
Decimal(n) ==
    LET upTo[k \in 0..n] == IF k < 10 THEN <<Digits[k + 1]>>
                            ELSE Append(upTo[k \div 10], Digits[(k % 10) + 1])
    IN  upTo[n]

\* The text a packet is filtered by: "vlan:%u size:%u".
Repr(p) == <<"vlan:">> \o Decimal(p.vlan) \o <<" size:">> \o Decimal(p.size)

\* Faulty variant of the definition below: only the first rule is looked at.
PassesFirstFilter(rules, p) ==
    rules # <<>> => (GlobMatch(rules[1].expr, Repr(p)) <=> rules[1].type = "Include")

\* passes_filters: no Exclude rule matches and every Include rule does.
PassesFilters(rules, p) ==
    \A r \in {rules[k] : k \in DOMAIN rules} :
        GlobMatch(r.expr, Repr(p)) <=> r.type = "Include"

\* The same, by what the patterns mean.
Selects(rules, p) ==
    /\ \A k \in DOMAIN rules : rules[k].type = "Include" => Matches(rules[k].expr, Repr(p))
    /\ \A k \in DOMAIN rules : rules[k].type = "Exclude" => ~Matches(rules[k].expr, Repr(p))
=============================================================================
