--------------------------- MODULE BrowserClient ---------------------------
(***************************************************************************)
(* The page (src/public/static/app.js): one search box with chips, a status*)
(* line, a line about the prompt, the results, and a panel that shows where*)
(* to watch a movie.  The searches it sends are those of Search; what the  *)
(* server answers about a movie is left open.                              *)
(*                                                                         *)
(* A handler runs to its first await, and from there on when the answer is *)
(* there.  Nothing is disabled or cancelled meanwhile, so any number of    *)
(* answers can be outstanding and they arrive in any order.                *)
(***************************************************************************)
EXTENDS Search

CONSTANTS
    Chips,      \* prompts of the buttons under the box
    Openings    \* clicks on movies, each on a movie of its own

ASSUME PageAssumption == Chips \subseteq Seq(Pieces)

VARIABLES
    draft,      \* queryInput.value
    status,     \* the status line, and the search it is about
    meta,       \* the line about the prompt: what is in it
    grids,      \* the grids in the results, each that of a search
    read,       \* searches whose answer the page has handled
    panel,      \* the panel: shown or not, whose title, whose content
    opening     \* where each openWatchPanel is

page == <<draft, status, meta, grids, read, panel, opening>>
pageVars == <<vars, page>>

Blank == "blank"            \* an element without content
Waiting == "waiting"        \* "Parsing your prompt...", "Checking where ..."
Nobody == "nobody"

Status == [kind: {"idle", "loading", "success", "neutral", "error"}, of: Searches \cup {Nobody}]

Panel == [hidden: BOOLEAN, title: Openings \cup {Nobody},
          body: Openings \cup {Blank, Waiting}]

PageTypeOK ==
    /\ TypeOK
    /\ draft \in Seq(Pieces)
    /\ status \in Status
    /\ meta \in Searches \cup {Blank, Waiting}
    /\ grids \in Seq(Searches)
    /\ read \subseteq Searches
    /\ panel \in Panel
    /\ opening \in [Openings -> {"new", "sent", "read"}]

PageInit ==
    /\ Init
    /\ draft = <<>>
    /\ status = [kind |-> "idle", of |-> Nobody]
    /\ meta = Blank
    /\ grids = <<>>
    /\ read = {}
    /\ panel = [hidden |-> TRUE, title |-> Nobody, body |-> Blank]
    /\ opening = [p \in Openings |-> "new"]

-----------------------------------------------------------------------------
\* The user changes the text in the box.
Edit(text) ==
    /\ draft' = text
    /\ UNCHANGED <<vars, status, meta, grids, read, panel, opening>>

SearchNothing ==
    /\ Strip(draft) = <<>>
    /\ grids' = <<>>
    /\ meta' = Blank
    /\ status' = [kind |-> "error", of |-> Nobody]
    /\ UNCHANGED <<vars, draft, read, panel, opening>>

\* Mutant of DoSearch: the results are cleared, the status is left to the answer.
DoSearchQuietly(s, text) ==
    /\ Strip(text) # <<>>
    /\ Submit(s, Strip(text))
    /\ draft' = Strip(text)
    /\ grids' = <<>>
    /\ UNCHANGED <<status, meta, read, panel, opening>>

\* doSearch up to the fetch, for the text in the box or that of a chip.
DoSearch(s, text) ==
    /\ Strip(text) # <<>>
    /\ Submit(s, Strip(text))
    /\ draft' = Strip(text)
    /\ grids' = <<>>
    /\ status' = [kind |-> "loading", of |-> s]
    /\ meta' = Waiting
    /\ UNCHANGED <<read, panel, opening>>

\* The promise of fetch is settled once for each search.
Reads(s) ==
    /\ s \notin read
    /\ read' = read \cup {s}
    /\ UNCHANGED <<vars, draft, panel, opening>>

\* The rest of doSearch for an answer with movies, and for one without.
ShowResults(s) ==
    /\ Reads(s)
    /\ phase[s] = "answered" /\ Shown(s) # <<>>
    /\ meta' = s
    /\ status' = [kind |-> "success", of |-> s]
    /\ grids' = Append(grids, s)

ShowNoResults(s) ==
    /\ Reads(s)
    /\ phase[s] = "answered" /\ Shown(s) = <<>>
    /\ meta' = s
    /\ status' = [kind |-> "neutral", of |-> s]
    /\ UNCHANGED grids

\* An error of the server, or a connection that broke, whatever becomes of the search.
ShowError(s) ==
    /\ Reads(s)
    /\ phase[s] # "unasked"
    /\ meta' = Blank
    /\ status' = [kind |-> "error", of |-> s]
    /\ UNCHANGED grids

HandleAnswer(s) == ShowResults(s) \/ ShowNoResults(s) \/ ShowError(s)

-----------------------------------------------------------------------------
\* A click on a card, or a key pressed on it, also behind an open panel.
OpenPanel(p) ==
    /\ grids # <<>>
    /\ opening[p] = "new"
    /\ opening' = [opening EXCEPT ![p] = "sent"]
    /\ panel' = [hidden |-> FALSE, title |-> p, body |-> Waiting]
    /\ UNCHANGED <<vars, draft, status, meta, grids, read>>

\* The options, or an error message: what was in the panel goes, whoever opened it.
FillPanel(p) ==
    /\ opening[p] = "sent"
    /\ opening' = [opening EXCEPT ![p] = "read"]
    /\ panel' = [panel EXCEPT !.body = p]
    /\ UNCHANGED <<vars, draft, status, meta, grids, read>>

\* The button, a click outside, the Escape key.
ClosePanel ==
    /\ ~panel.hidden
    /\ panel' = [panel EXCEPT !.hidden = TRUE, !.body = Blank]
    /\ UNCHANGED <<vars, draft, status, meta, grids, read, opening>>

-----------------------------------------------------------------------------
Server == ((\E s \in Searches : Step(s)) \/ Forget \/ Tick) /\ UNCHANGED page

User ==
    \/ \E text \in Seq(Pieces) : Edit(text)
    \/ SearchNothing
    \/ \E s \in Searches, text \in Chips \cup {draft} : DoSearch(s, text)
    \/ \E p \in Openings : OpenPanel(p)
    \/ ClosePanel

Answers == (\E s \in Searches : HandleAnswer(s)) \/ (\E p \in Openings : FillPanel(p))

PageNext == Server \/ User \/ Answers

PageSpec == PageInit /\ [][PageNext]_pageVars

-----------------------------------------------------------------------------
(***************************************************************************)
(* Properties.                                                             *)
(***************************************************************************)

\* The parser uses up what stands for the filter, and nothing else: whatever is typed,
\* with the genre list and without it, the keywords are the intended ones.
ParserMeetsReference ==
    \A genres \in {Genres, <<>>} :
        LET parsed == ParseQuery(draft, genres)
        IN  parsed.keywords = IntendedKeywords(Normalize(draft), parsed)

\* Results are never announced that are not on the page: whatever searches overlap, a
\* success is the success of the last grid, and the prompt line is about the same search.
FoundIsShown ==
    status.kind = "success" =>
        /\ grids # <<>> /\ grids[Len(grids)] = status.of
        /\ meta = status.of
        /\ Shown(status.of) # <<>>

\* Every search that was sent is answered and its answer is read, whichever load it led
\* or followed, and the page does not wait for ever, neither for results nor in the panel.
PageSettles ==
    /\ \A s \in Searches : phase[s] # "unasked" ~> s \in read
    /\ status.kind = "loading" ~> status.kind # "loading"
    /\ panel.body = Waiting ~> panel.body # Waiting

-----------------------------------------------------------------------------
\* README.md: a click "opens a panel showing where the movie can be streamed, rented, or
\* bought": what the panel shows is about the movie in its title.
PanelIsAboutItsMovie ==
    ~panel.hidden /\ panel.body # Waiting => panel.body = panel.title
=============================================================================
