---------------------------- MODULE PromptParser ----------------------------
(***************************************************************************)
(* The prompt parser (src/movieservice/catalog/query.py) as operators.     *)
(*                                                                         *)
(* A text is a sequence of pieces: a blank, another separator of words, or *)
(* a stretch of characters that matters as a whole.  Substring search is   *)
(* search for consecutive pieces, so "wars" is <<"war", "s">> where "war"  *)
(* is a genre.  A word is a sequence of pieces without a separator.        *)
(***************************************************************************)
EXTENDS Integers, SequencesExt

CONSTANTS
    Gap,            \* a single blank, also what is put where something is removed
    Whitespace,     \* pieces that strip() removes
    Separators,     \* pieces without a letter a-z, a digit or an apostrophe
    Joiners,        \* those of them that end or begin like a word for \b: underscores, accented letters
    Synonyms,       \* GENRE_SYNONYMS: a function from pieces to texts
    GenericTerms,   \* GENERIC_QUERY_TERMS: sequences of pieces
    Years,          \* pieces that are 19dd or 20dd
    Openers,        \* pieces that end with an apostrophe: part of a word, but a boundary for \b
    Possessives     \* pieces that begin with one, like 's

ASSUME ParserAssumption ==
    /\ Gap \in Whitespace \ Joiners /\ Whitespace \subseteq Separators
    /\ Separators \cap ((DOMAIN Synonyms) \cup Years \cup Openers \cup Possessives) = {}
    /\ Years \cap (Openers \cup Possessives \cup (DOMAIN Synonyms)) = {}
    /\ \A p \in DOMAIN Synonyms : Synonyms[p] \in Seq(Range(Synonyms[p]))

\* What is true of every name in TMDB's list, and of those in the tests: it contains no
\* year, begins with no blank, has letters before every blank in it, and cannot overlap
\* itself, as "tv tv" would in "tv tv tv".
Nameable(name) ==
    /\ name \in Seq(Range(name))
    /\ \A i \in DOMAIN name :
        /\ name[i] \notin Years
        /\ name[i] = Gap => i > 1 /\ name[i - 1] \notin Separators \cup Openers
    /\ \A d \in 1..Len(name) - 1 : SubSeq(name, 1, Len(name) - d) # SubSeq(name, d + 1, Len(name))

NoGenre == <<>>
NoYear == Gap

\* strip() and trim()
Strip(text) ==
    LET solid == {i \in DOMAIN text : text[i] \notin Whitespace}
    IN  IF solid = {} THEN <<>>
        ELSE LET first == CHOOSE i \in solid : \A j \in solid : i <= j
                 last  == CHOOSE i \in solid : \A j \in solid : i >= j
             IN  SubSeq(text, first, last)

\* No canonical name contains a synonym, so the order of the replacements is immaterial.
Normalize(text) ==
    FlattenSeq([i \in DOMAIN text |->
        IF text[i] \in DOMAIN Synonyms THEN Synonyms[text[i]] ELSE <<text[i]>>])

\* `name` occurs in `text` from the i-th piece on.
OccursAt(text, name, i) ==
    /\ i + Len(name) - 1 <= Len(text)
    /\ SubSeq(text, i, i + Len(name) - 1) = name

Mentions(text, name) == \E i \in DOMAIN text : OccursAt(text, name, i)

\* The first genre of the list that the text mentions anywhere, also within a word.
GenreIn(text, genres) ==
    LET mentioned == {g \in DOMAIN genres : Mentions(text, genres[g])}
    IN  IF mentioned = {} THEN NoGenre
        ELSE genres[CHOOSE g \in mentioned : \A h \in mentioned : g <= h]

\* \b before and after.
YearAt(text, i) ==
    /\ text[i] \in Years
    /\ i > 1 => text[i - 1] \in (Separators \ Joiners) \cup Openers
    /\ i < Len(text) => text[i + 1] \in (Separators \ Joiners) \cup Possessives

YearIn(text) ==
    LET dated == {i \in DOMAIN text : YearAt(text, i)}
    IN  IF dated = {} THEN NoYear
        ELSE text[CHOOSE i \in dated : \A j \in dated : i <= j]

-----------------------------------------------------------------------------
WithoutYear(text, year) ==
    [i \in DOMAIN text |-> IF text[i] = year /\ YearAt(text, i) THEN Gap ELSE text[i]]

\* str.replace(name, " "): from the left, and on behind each name that is found.  Every
\* piece of the name becomes a blank of its own: only words are looked at afterwards.
WithoutGenre(text, name) ==
    LET left[i \in 0..Len(text)] ==    \* pieces of a name still to go, the i-th included
            IF i = 0 THEN 0
            ELSE IF left[i - 1] > 1 THEN left[i - 1] - 1
            ELSE IF OccursAt(text, name, i) THEN Len(name)
            ELSE 0
    IN  IF name = NoGenre THEN text
        ELSE [i \in DOMAIN text |-> IF left[i] > 0 THEN Gap ELSE text[i]]

\* What the word pattern finds: words end before a separator and begin behind one.
EndsWord(text, n) ==
    text[n] \notin Separators /\ (n < Len(text) => text[n + 1] \in Separators)

WordTo(text, n) ==
    LET begins(i) == i > 1 => text[i - 1] \in Separators
        first == CHOOSE i \in 1..n : begins(i) /\ \A j \in i..n : text[j] \notin Separators
    IN  SubSeq(text, first, n)

IsGeneric(word) == word \in GenericTerms

\* The words that findall lists, without the generic ones.
Keywords(text) ==
    LET kept[n \in 0..Len(text)] ==
            IF n = 0 THEN <<>>
            ELSE IF EndsWord(text, n) /\ ~IsGeneric(WordTo(text, n))
                 THEN Append(kept[n - 1], WordTo(text, n))
            ELSE kept[n - 1]
    IN  kept[Len(text)]

\* Mutant of ExtractSearchText: the filler goes before the genre does.
ExtractFillerFirst(normalized, year, genre) ==
    LET filler == {i \in DOMAIN normalized : IsGeneric(<<normalized[i]>>)}
        bare   == [i \in DOMAIN normalized |-> IF i \in filler THEN Gap ELSE normalized[i]]
    IN  Keywords(WithoutGenre(WithoutYear(bare, year), genre))

ExtractSearchText(normalized, year, genre) ==
    Keywords(WithoutGenre(WithoutYear(normalized, year), genre))

ParseQuery(text, genres) ==
    LET normalized == Normalize(text)
        genre == GenreIn(normalized, genres)
        year  == YearIn(normalized)
    IN  [genre |-> genre, year |-> year,
         keywords |-> ExtractSearchText(normalized, year, genre)]

\* ParsedQuery.is_filter_only
FilterOnly(parsed) == parsed.keywords = <<>>

-----------------------------------------------------------------------------
(***************************************************************************)
(* What the parser is for, in terms of positions: the pieces that stand    *)
(* for the filter are used up, and the keywords are the uninterrupted runs *)
(* of the others, but for filler words.                                    *)
(***************************************************************************)
UsedUp(text, parsed) ==
    {i \in DOMAIN text :
        \/ text[i] \in Separators
        \/ text[i] = parsed.year /\ YearAt(text, i)
        \/ parsed.genre # NoGenre /\ \E j \in 1..i :
             i < j + Len(parsed.genre) /\ OccursAt(text, parsed.genre, j)}

Runs(text, used) ==
    {r \in (DOMAIN text) \X (DOMAIN text) :
        /\ r[1] <= r[2]
        /\ \A i \in r[1]..r[2] : i \notin used
        /\ r[1] > 1 => r[1] - 1 \in used
        /\ r[2] < Len(text) => r[2] + 1 \in used}

IntendedKeywords(text, parsed) ==
    LET words == {r \in Runs(text, UsedUp(text, parsed)) : ~IsGeneric(SubSeq(text, r[1], r[2]))}
        before(r) == Cardinality({q \in words : q[1] < r[1]})
        nth(k) == CHOOSE r \in words : before(r) = k - 1
    IN  [k \in 1..Cardinality(words) |-> SubSeq(text, nth(k)[1], nth(k)[2])]
=============================================================================
