--------------------------- MODULE VacancyFilter ---------------------------
(***************************************************************************)
(* Which vacancies an "apply" run passes over (services/vacancy_filter.py):*)
(* the terms the user typed, normalised and cut at commas, are looked for  *)
(* in the vacancy's normalised title and snippet, as substrings            *)
(* ("partial_aggressive") or as words ("default_safe").                    *)
(*                                                                         *)
(* A text is a sequence of characters; of a character only its class and   *)
(* its normal form (lower case, the letter yo written as ye) matter.  Every *)
(* blank is normalised to Space, so \s+ and Space match the same.          *)
(***************************************************************************)
EXTENDS Naturals, SequencesExt

CONSTANTS
    Chars,
    Alnum,      \* str.isalnum
    Word,       \* \w, which has the underscore besides
    Blanks,     \* what str.split cuts at
    Space,
    Comma,
    Marks,      \* the characters # and +
    Normal,     \* lower().replace(yo, ye), character by character
    MaxTerms,   \* bound on the length of the user's text
    MaxText,    \* bound on the length of a vacancy's
    None

ASSUME FilterAssumption ==
    /\ Alnum \subseteq Word /\ Word \cup Blanks \cup Marks \cup {Comma} \subseteq Chars
    /\ Space \in Blanks
    /\ Blanks \cap (Word \cup Marks) = {} /\ Comma \notin Word \cup Marks \cup Blanks
    /\ Normal \in [Chars -> Chars]
    /\ \A c \in Chars : /\ Normal[Normal[c]] = Normal[c]
                        /\ \A class \in {Alnum, Word, Blanks, Marks, {Comma}} :
                              Normal[c] \in class <=> c \in class
    /\ MaxTerms \in Nat /\ MaxText \in Nat

VARIABLES
    typed,      \* excluded_terms as the user typed them
    vacancy,
    mode,       \* exclude_mode as stored in the task
    decision

vars == <<typed, vacancy, mode, decision>>

-----------------------------------------------------------------------------
(* Texts                                                                   *)

\* A text cut into parts, with one more character behind it.
Cut(parts, c, separators) ==
    IF c \in separators THEN Append(parts, <<>>)
                        ELSE [parts EXCEPT ![Len(parts)] = Append(@, c)]

\* s cut at every character of separators.
Split(s, separators) ==
    LET cut[n \in 0..Len(s)] ==
          IF n = 0 THEN << <<>> >> ELSE Cut(cut[n-1], s[n], separators)
    IN  cut[Len(s)]

\* Those of some texts that are not empty.
Keep(kept, part) == IF part = <<>> THEN kept ELSE Append(kept, part)

NonEmpty(parts) ==
    LET kept[n \in 0..Len(parts)] == IF n = 0 THEN <<>> ELSE Keep(kept[n-1], parts[n])
    IN  kept[Len(parts)]

Words(s) == NonEmpty(Split(s, Blanks))

\* Texts with a space between one and the next.
Attach(s, part) == IF s = <<>> THEN part ELSE s \o <<Space>> \o part

Join(parts) ==
    LET joined[n \in 0..Len(parts)] == IF n = 0 THEN <<>> ELSE Attach(joined[n-1], parts[n])
    IN  joined[Len(parts)]

\* lower().replace(yo, ye).  Plausible bug, taken for normalize_text: the blanks stay
\* as they were typed.
normalize_case(s) == [i \in DOMAIN s |-> Normal[s[i]]]

normalize_text(s) == Join(Words(normalize_case(s)))

parse_excluded_terms(s) ==
    LET raw == Split(s, {Comma}) IN
    NonEmpty([i \in DOMAIN raw |-> normalize_text(raw[i])])

build_vacancy_text(v) ==
    normalize_text(v.name \o <<Space>> \o v.requirement \o <<Space>> \o v.responsibility)

-----------------------------------------------------------------------------
(* Matching                                                                *)

Occurs(term, text, i) ==
    /\ i + Len(term) <= Len(text)
    /\ SubSeq(text, i + 1, i + Len(term)) = term

\* (?<![solid])term(?![solid])
Apart(term, text, i, solid) ==
    /\ i = 0 \/ text[i] \notin solid
    /\ i + Len(term) = Len(text) \/ text[i + Len(term) + 1] \notin solid

is_word_phrase(term) == \A i \in DOMAIN term : term[i] \in Alnum \cup Blanks

\* Plausible bug: C is found in C++.
matches_at_word_characters(text, term) ==
    \E i \in 0..Len(text) : Occurs(term, text, i) /\ Apart(term, text, i, Word)

matches_default_safe(text, term) ==
    \E i \in 0..Len(text) :
       /\ Occurs(term, text, i)
       /\ Apart(term, text, i, IF is_word_phrase(term) THEN Word \cup Marks ELSE Word)

matches_partial(text, term) == \E i \in 0..Len(text) : Occurs(term, text, i)

normalize_exclude_mode(m) == IF m = "partial_aggressive" THEN m ELSE "default_safe"

matches(text, term, m) ==
    IF m = "partial_aggressive" THEN matches_partial(text, term)
                                ELSE matches_default_safe(text, term)

Hits(v, terms, m) ==
    {k \in DOMAIN terms : matches(build_vacancy_text(v), terms[k], normalize_exclude_mode(m))}

\* The first term that matches.
find_exclusion(v, terms, m) ==
    LET hits == Hits(v, terms, m) IN
    [is_excluded |-> hits # {},
     matched_term |-> IF hits = {} THEN None ELSE terms[CHOOSE k \in hits : \A j \in hits : k <= j]]

-----------------------------------------------------------------------------
(* One vacancy, one decision                                               *)

Texts(n) == UNION {[1..k -> Chars] : k \in 0..n}

Init ==
    /\ typed \in Texts(MaxTerms)
    /\ \E name, requirement \in Texts(MaxText) :
          /\ Len(name) + Len(requirement) <= MaxText
          /\ vacancy = [name |-> name, requirement |-> requirement, responsibility |-> <<>>]
    /\ mode \in {None, "default_safe", "partial_aggressive"}
    /\ decision = None

Decide ==
    /\ decision = None
    /\ decision' = find_exclusion(vacancy, parse_excluded_terms(typed), mode)
    /\ UNCHANGED <<typed, vacancy, mode>>

Next == Decide

Spec == Init /\ [][Next]_vars

-----------------------------------------------------------------------------
(* Properties.                                                             *)

Decided == decision # None
LowerWords(s) == Words(normalize_case(s))

\* A single word is excluded in safe mode exactly when the vacancy has it as a
\* whole word, where + and # belong to a word: C is not C++, nor C_1.
SafeMatchesWholeWords ==
    LET terms == parse_excluded_terms(typed) IN
    Decided /\ normalize_exclude_mode(mode) = "default_safe" /\ Len(terms) = 1
            /\ terms[1] \in Seq(Alnum)
    => (decision.is_excluded
        <=> Contains(Split(build_vacancy_text(vacancy), Chars \ (Word \cup Marks)), terms[1]))

\* A vacancy whose title is typed in is excluded in either mode, whatever the case
\* and the blanks on both sides, and whatever stands in its snippet.
TitleIsExcluded ==
    Decided /\ ~Contains(typed, Comma) /\ Words(typed) # <<>>
            /\ LowerWords(vacancy.name) = LowerWords(typed)
    => decision.is_excluded

=============================================================================
