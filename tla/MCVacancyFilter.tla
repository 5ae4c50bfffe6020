-------------------------- MODULE MCVacancyFilter --------------------------
(* An instance of VacancyFilter for TLC: a letter in both cases, one more    *)
(* word character, a mark, a blank and a comma.                              *)
EXTENDS VacancyFilter

MCChars == {"a", "A", "_", "+", " ", ","}
MCAlnum == {"a", "A"}
MCWord == {"a", "A", "_"}
MCNormal == [c \in MCChars |-> IF c = "A" THEN "a" ELSE c]
=============================================================================
