--------------------------- MODULE MCBrowserClient --------------------------
(***************************************************************************)
(* BrowserClient and Search on small instances: a vocabulary in which      *)
(* genres occur inside words and as parts of filler, and a user who types  *)
(* first and then searches.                                                *)
(***************************************************************************)
EXTENDS BrowserClient, TLC

CONSTANTS
    MaxTyped,       \* pieces typed into the box
    s1, s2          \* the searches

MCGenericTerms == {<<"movie">>, <<"movie", "s">>}

MCSynonyms == [scary |-> <<"horror">>]

MCGenres == << <<"war">>, <<"tv", " ", "movie">>, <<"horror">> >>

\* A title with a year, a filter after normalisation, and a prompt that is too long.
TitleAndYear == <<"star", " ", "2024">>
FilterOnlyPrompt == <<" ", "scary", " ", "movie">>
LongPrompt == <<"star", " ", "war", "s", " ", "movie">>

\* The usual deployment; without a cache; without a token; and without attempts.
Usual == [token |-> TRUE, attempts |-> 3, genreTtl |-> 3600, ttl |-> 60]

MCUsual == {Usual}

MCDeployments ==
    {Usual, [Usual EXCEPT !.genreTtl = 0, !.ttl = 0],
     [Usual EXCEPT !.token = FALSE], [Usual EXCEPT !.attempts = 0]}

MCChips == {TitleAndYear, FilterOnlyPrompt, LongPrompt}

\* Nothing; a film of the year before one of the title; two films, one of them of the year.
Film(titled, dated) == [titled |-> titled, dated |-> dated]

MCResultLists ==
    { <<>>,
      <<Film(FALSE, TRUE), Film(TRUE, FALSE)>>,
      <<Film(TRUE, FALSE), Film(TRUE, TRUE)>> }

\* Only the running reset period looks at the clock, and only a search to come at the list.
MCTick == breaker.state = "open" /\ ~ResetElapsed(breaker, now) /\ Tick

MCForget ==
    /\ genreDoc # "cold"
    /\ \E s \in Searches : phase[s] \in {"unasked", "new"}
    /\ Forget

MCServer == ((\E s \in Searches : Step(s)) \/ MCForget \/ MCTick) /\ UNCHANGED page

SearchOrder == s1 :> 1 @@ s2 :> 2

NothingAsked == \A s \in Searches : phase[s] = "unasked"
NothingOpened == \A p \in Openings : opening[p] = "new"

\* The user types before the first search, and may empty the box before the last.
MCType ==
    \/ /\ NothingAsked /\ Len(draft) < MaxTyped
       /\ \E piece \in Pieces : Edit(Append(draft, piece))
    \/ draft # <<>> /\ (\E s \in Searches : phase[s] = "unasked") /\ Edit(<<>>)

\* Searches are alike: they are used in their order.
MCSearch ==
    \E s \in Searches, text \in Chips :
        /\ \A r \in Searches : SearchOrder[r] < SearchOrder[s] => phase[r] # "unasked"
        /\ DoSearch(s, text)

\* The panel and the searches share nothing but the cards: panels are opened when one
\* search has been answered, and no search is begun after that.
OneAnswered ==
    \E s \in Searches : read = {s} /\ Ended(s) /\ \A r \in Searches \ {s} : phase[r] = "unasked"

MCUser ==
    \/ NothingOpened /\ (MCType \/ SearchNothing \/ MCSearch)
    \/ OneAnswered /\ \E p \in Openings : OpenPanel(p)
    \/ ClosePanel

\* A bound: only the connection of the first search breaks.
MCAnswers == Answers /\ \A s \in read' \ read : Ended(s) \/ s = s1

MCNext == MCServer \/ MCUser \/ MCAnswers

MCSpec == PageInit /\ [][MCNext]_pageVars

\* fetch returns the answer to a search that has ended.
Returned(s) == Ended(s) /\ s \notin read /\ read' = read \cup {s}

\* It is enough that followers are resumed when no search awaits the upstream, and what
\* they do next does not depend on the documents being loaded.
NobodyAsks == \A s \in Searches : phase[s] # "asking"

\* The server ends the searches it has begun.  The page handles whatever fetch returns,
\* so fairness of `read` is fairness of HandleAnswer.
MCFairSpec ==
    /\ MCSpec
    /\ \A s \in Searches :
        /\ WF_pageVars(Start(s) /\ UNCHANGED page)
        /\ WF_pageVars((Lookups(s) \/ Results(s)) /\ UNCHANGED page)
        /\ WF_pageVars(NobodyAsks /\ Resume(s) /\ UNCHANGED page)
        /\ WF_pageVars(ResumeResults(s) /\ UNCHANGED page)
        /\ WF_read(Returned(s))
    /\ \A p \in Openings : WF_pageVars(FillPanel(p))
=============================================================================
