------------------------------ MODULE LruList ------------------------------
(***************************************************************************)
(* The doubly linked list of page frames that memory.c keeps in order of   *)
(* last use (struct _memPage's next and prev, and lruListHead), and the    *)
(* walk along it that _lookupPage does.  The frame that bears the wanted   *)
(* address is a parameter of the walk here; PagedMemory decides which one  *)
(* it is and uses this list through the position of each frame on it.      *)
(***************************************************************************)
EXTENDS Naturals

CONSTANTS NFrames,   \* MEM_PAGES
          NULL

\* _swapLruHead makes a list of one frame point at itself, and the walk that
\* follows endless: MEM_PAGES is 80 or 160.
ASSUME LruAssumption ==
  /\ NFrames \in Nat /\ NFrames >= 2
  /\ NULL \notin 0 .. NFrames - 1

VARIABLES next, prev, lruListHead,
          page,      \* _lookupPage's cursor, NULL when no lookup is in progress
          want,      \* the frame with the address looked up, NULL when none has it
          age        \* history: 1 for the last frame used, NFrames for the least recent

listVars == <<next, prev, lruListHead>>
lruVars == <<next, prev, lruListHead, page, want, age>>

Frame == 0 .. NFrames - 1

\* mem_init's loop: page i between page i - 1 and page i + 1
LruInit ==
  /\ next = [f \in Frame |-> IF f < NFrames - 1 THEN f + 1 ELSE NULL]
  /\ prev = [f \in Frame |-> IF f > 0 THEN f - 1 ELSE NULL]
  /\ lruListHead = 0
  /\ page = NULL
  /\ want = NULL
  /\ age = [f \in Frame |-> f + 1]

-----------------------------------------------------------------------------
\* The bug a list like this invites: the neighbour after f keeps its prev.
Mutant_swapLruHead(f) ==
  /\ next' = [(IF prev[f] = NULL THEN next ELSE [next EXCEPT ![prev[f]] = next[f]])
                EXCEPT ![f] = lruListHead]
  /\ prev' = [prev EXCEPT ![f] = NULL, ![lruListHead] = f]
  /\ lruListHead' = f

\* The bug of relinking f before its old neighbours are joined.
Mutant_swapLruHead_early(f) ==
  /\ next' = [next EXCEPT ![f] = lruListHead]
  /\ prev' = [prev EXCEPT ![f] = NULL, ![lruListHead] = f]
  /\ lruListHead' = f

\* Unlink f, then put it before the head.
_swapLruHead(f) ==
  LET unlinkedNext == IF prev[f] = NULL THEN next ELSE [next EXCEPT ![prev[f]] = next[f]]
      unlinkedPrev == IF next[f] = NULL THEN prev ELSE [prev EXCEPT ![next[f]] = prev[f]]
  IN /\ next' = [unlinkedNext EXCEPT ![f] = lruListHead]
     /\ prev' = [unlinkedPrev EXCEPT ![f] = NULL, ![lruListHead] = f]
     /\ lruListHead' = f

\* f is the last frame used; the frames used since f's last use grow older.
Used(f) == age' = [g \in Frame |-> IF g = f THEN 1
                                   ELSE IF age[g] < age[f] THEN age[g] + 1 ELSE age[g]]

\* _lookupPage is called for an address that frame w bears, or none (NULL)
Lookup ==
  /\ page = NULL
  /\ \E w \in Frame \cup {NULL} : want' = w
  /\ page' = lruListHead
  /\ UNCHANGED <<listVars, age>>

\* page->addr == pageAddr
LookupHit ==
  /\ page # NULL /\ page = want
  /\ IF page # lruListHead THEN _swapLruHead(page) ELSE UNCHANGED listVars
  /\ Used(page)
  /\ page' = NULL /\ want' = NULL

\* The bug of advancing twice in one turn of the loop.
MutantLookupNext ==
  /\ page # NULL /\ page # want /\ next[page] # NULL
  /\ page' = IF next[next[page]] # NULL THEN next[next[page]] ELSE next[page]
  /\ UNCHANGED <<listVars, want, age>>

LookupNext ==
  /\ page # NULL /\ page # want /\ next[page] # NULL
  /\ page' = next[page]
  /\ UNCHANGED <<listVars, want, age>>

\* The bug of giving up the walk one frame early.
MutantLookupMiss ==
  /\ page # NULL /\ page # want
  /\ IF next[page] = NULL THEN TRUE ELSE next[next[page]] = NULL
  /\ _swapLruHead(page)
  /\ Used(page)
  /\ page' = NULL /\ want' = NULL

\* No frame on the list matched: the one the walk ended at is reused.
LookupMiss ==
  /\ page # NULL /\ page # want /\ next[page] = NULL
  /\ _swapLruHead(page)
  /\ Used(page)
  /\ page' = NULL /\ want' = NULL

LruNext == Lookup \/ LookupHit \/ LookupNext \/ LookupMiss

LruSpec == LruInit /\ [][LruNext]_lruVars /\ WF_lruVars(LookupHit \/ LookupNext \/ LookupMiss)

-----------------------------------------------------------------------------
LruTypeOK ==
  /\ next \in [Frame -> Frame \cup {NULL}]
  /\ prev \in [Frame -> Frame \cup {NULL}]
  /\ lruListHead \in Frame
  /\ page \in Frame \cup {NULL}
  /\ want \in Frame \cup {NULL}
  /\ age \in [Frame -> 1 .. NFrames]

\* The list that _swapLruHead relinks threads all the frames in order of last
\* use, in both directions, with no loop and none left out: next leads to the
\* frame one older, prev to the one newer, and only the ends have no neighbour.
Threaded ==
  /\ \A f, g \in Frame : age[f] = age[g] => f = g
  /\ age[lruListHead] = 1
  /\ \A f \in Frame : IF age[f] = NFrames THEN next[f] = NULL
                      ELSE next[f] \in Frame /\ age[next[f]] = age[f] + 1
  /\ \A f \in Frame : IF age[f] = 1 THEN prev[f] = NULL
                      ELSE prev[f] \in Frame /\ age[prev[f]] + 1 = age[f]

\* The walk never passes the frame it looks for, so _lookupPage cannot load a
\* page into a second frame while a first one still bears it.
NoFrameMissed == (page # NULL /\ want # NULL) => age[page] <= age[want]

\* _lookupPage reuses a frame for another page only if that frame is the least
\* recently used one and no frame bears the address.
EvictsLru == [][LookupMiss => want = NULL /\ age[page] = NFrames]_lruVars

\* Every lookup's walk comes to an end.
LookupReturns == (page # NULL) ~> (page = NULL)
=============================================================================
