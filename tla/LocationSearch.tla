---------------------------- MODULE LocationSearch ----------------------------
(***************************************************************************)
(* The table under Home's search bar.  Every change of the text starts a   *)
(* search and cancels none; each answer replaces the items of the table,   *)
(* in whatever order the answers arrive.  Searches are numbered in the     *)
(* order of their start.                                                   *)
(***************************************************************************)
EXTENDS Naturals, FiniteSetsExt

CONSTANT MaxSearches   \* bound: changes of the text

ASSUME SearchAssumption == MaxSearches \in Nat

VARIABLES
  searches,       \* how many searches were started
  searching,      \* the searches that are not answered
  matchingItems,  \* the search whose items the table shows, 0 before the first
  answers         \* history: the searches that were answered with items

searchVars == <<searches, searching, matchingItems, answers>>

SearchInit ==
  /\ searches = 0
  /\ searching = {}
  /\ matchingItems = 0
  /\ answers = {}

UpdateSearchResults ==
  /\ searches < MaxSearches
  /\ searches' = searches + 1
  /\ searching' = searching \cup {searches'}
  /\ UNCHANGED <<matchingItems, answers>>

SearchAnswers(n) ==
  /\ n \in searching
  /\ searching' = searching \ {n}
  /\ matchingItems' = n
  /\ answers' = answers \cup {n}
  /\ UNCHANGED searches

(* Faulty variant: an answer without items empties the table.              *)
SearchFailsEmptying(n) ==
  /\ n \in searching
  /\ searching' = searching \ {n}
  /\ matchingItems' = 0
  /\ UNCHANGED <<searches, answers>>

SearchFails(n) ==
  /\ n \in searching
  /\ searching' = searching \ {n}
  /\ UNCHANGED <<searches, matchingItems, answers>>

-----------------------------------------------------------------------------
SearchTypeOK ==
  /\ searches \in 0 .. MaxSearches
  /\ searching \subseteq 1 .. searches
  /\ matchingItems \in answers \cup {0}
  /\ answers \subseteq (1 .. searches) \ searching

(***************************************************************************)
(* The table goes back to an earlier search, or to nothing, only while an  *)
(* earlier search than the one it shows is unanswered.  It is about the    *)
(* searches that updateSearchResults starts and never cancels: the last    *)
(* answer to arrive wins, not the last text.                               *)
(***************************************************************************)
TableGoesForward ==
  [][(\A n \in searching : n > matchingItems) => matchingItems' >= matchingItems]_searchVars

=============================================================================
