------------------------------- MODULE SearchBar -------------------------------
(***************************************************************************)
(* The search bar of a browse page and its suggestions: a client component *)
(* (apps/storefront/src/components/search-bar.tsx) that asks               *)
(* /api/suggest 200 ms after the last keystroke.  Answers take any time;   *)
(* the effect of a new text aborts the fetch of the text before, whose     *)
(* answer may be about to arrive.  React runs that effect before it lets   *)
(* anything else happen, so a new text and its effect are one step.        *)
(***************************************************************************)
CONSTANTS Texts,   \* what a shopper may type
          Blank,   \* nothing typed
          Short,   \* those of fewer than MIN_QUERY characters
          Nobody   \* the list without a suggestion

ASSUME SearchBarAssumption ==
  Blank \in Short /\ Short \subseteq Texts /\ Nobody \notin Texts

VARIABLES
  value,     \* the text in the bar
  timer,     \* the debounce timer of value is armed
  flights,   \* fetches that nobody aborted, by their text
  answer,    \* the text whose answer the list holds, or Nobody
  loading,   \* "Searching..."
  missed     \* history: the last fetch for value failed

bar == <<value, timer, flights, answer, loading, missed>>

-------------------------------------------------------------------------------

\* Mutant of Debounce: the fetch of the text before goes on.
DebounceWithoutAbort(v, a) ==
  /\ timer' = (v \notin Short)
  /\ answer' = IF v \in Short THEN Nobody ELSE a
  /\ loading' = FALSE
  /\ missed' = FALSE
  /\ UNCHANGED flights

\* The effect of text v on a list that holds a: a short text has no suggestion,
\* any other keeps those of the text before until its own arrive.
Debounce(v, a) ==
  /\ timer' = (v \notin Short)
  /\ flights' = {}
  /\ answer' = IF v \in Short THEN Nobody ELSE a
  /\ loading' = FALSE
  /\ missed' = FALSE

\* The component mounts with the q of the url.
Mount(q) == value' = q /\ Debounce(q, Nobody)

\* It stays mounted while links change the url, and takes over a new q.
Resync(before, q) ==
  IF q = before THEN UNCHANGED bar
  ELSE /\ value' = q
       /\ IF q = value THEN UNCHANGED <<timer, flights, answer, loading, missed>>
                       ELSE Debounce(q, answer)

Keystroke(v) == v # value /\ value' = v /\ Debounce(v, answer)

ClearButton ==
  value # Blank /\ value' = Blank /\ Debounce(Blank, Nobody)

AskSuggestions ==
  /\ timer
  /\ timer' = FALSE
  /\ flights' = flights \union {value}
  /\ loading' = TRUE
  /\ UNCHANGED <<value, answer, missed>>

\* The route answers an error of the api with no suggestions.
Suggest(v) ==
  /\ v \in flights
  /\ flights' = flights \ {v}
  /\ answer' \in {v, Nobody}
  /\ loading' = FALSE
  /\ UNCHANGED <<value, timer, missed>>

\* The request itself fails: the list stays as it was.
SuggestFails(v) ==
  /\ v \in flights
  /\ flights' = flights \ {v}
  /\ loading' = FALSE
  /\ missed' = TRUE
  /\ UNCHANGED <<value, timer, answer>>

\* Once nothing is on its way, the list holds suggestions for the text in the
\* bar or none: an answer that a later keystroke overtook (search-bar.tsx:66)
\* never replaces it, and none comes back after the bar was emptied.  A fetch
\* that failed leaves those of the text before, which the code ignores.
SuggestionsCurrent ==
  ~timer /\ flights = {} /\ ~missed => answer \in {value, Nobody}
================================================================================
