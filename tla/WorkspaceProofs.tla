--------------------------- MODULE WorkspaceProofs ---------------------------
(***************************************************************************)
(* Proofs about the editor's workspace, for any sites, controllers and     *)
(* edits, any number of loads, saves and failures, and any order in which  *)
(* requests are served and answered.                                       *)
(***************************************************************************)
EXTENDS Workspace, Integers, FiniteSetTheorems, FunctionTheorems, TLAPS

-----------------------------------------------------------------------------
(* The inductive invariant.                                                *)

\* A fetch that has been answered carries a draft.
FetchesCarry == \A s \in Site : fetch[s].state = "answered" => fetch[s].draft \in Design

\* Saves are numbered in the order they were sent.
SavesNumbered ==
  /\ IsFiniteSet(saves)
  /\ \A p \in saves : p.id <= Cardinality(saves)
  /\ \A p, q \in saves : p.id = q.id => p = q

\* The load of the site asked for last is the only one that matters: it is
\* under way exactly while owner says so, and it shows nothing before its draft.
LoadsOrdered ==
  /\ \A l \in loads : l.seq <= loadSeq
  /\ \A l, k \in loads : l.seq = k.seq => l = k
  /\ \A l \in loads : l.seq = loadSeq =>
       /\ owner = l.site
       /\ site = IF l.step = "fetch" THEN NoSite ELSE l.site
  /\ owner # NoSite => owner = wanted /\ \E l \in loads : l.seq = loadSeq

\* Of the saves of a site, the one that is awaited was sent last.
AwaitedIsLast ==
  \A p, q \in saves : p.awaited /\ q.to = p.to => q.id <= p.id

\* As long as the server takes the requests for a site in order, what has been
\* served was sent before what has not, and an awaited save that has been served
\* is what the server stores.
ServedInOrder ==
  overtaken \/
    /\ \A p, q \in saves : p.to = q.to /\ q.id < p.id /\ p.served => q.served
    /\ \A p \in saves : p.awaited /\ p.served => stored[p.to] = p.payload

\* While a site is being fetched it is not shown, so nothing is saved to it, and
\* the draft stays the one the server has.
FetchIsFresh ==
  /\ \A s \in Site : fetch[s] # Quiet => site # s
  /\ overtaken \/
       \A s \in Site : fetch[s].state = "answered" =>
         /\ fetch[s].draft = stored[s]
         /\ \A q \in saves : q.to = s => q.served

\* A part that belongs to no site, and was not removed from one, is nowhere.
Blank(x) ==
  /\ topology # NoDesign => x \notin topology.parts
  /\ \A s \in Site : x \notin stored[s].parts
  /\ \A q \in saves : x \notin q.payload.parts

\* What was drawn for a site and has not been given up.
Due(x, s) == madeFor[x] = s /\ x \notin abandoned

\* The site that is shown shows all that is due to it, and unless it will be
\* saved or its save has failed, all of it is on its way or stored.
ShownIsWhole ==
  site # NoSite =>
    /\ \A x \in Part : Due(x, site) => x \in topology.parts
    /\ \/ timer \/ saveFailed
       \/ \E q \in saves : /\ q.awaited /\ q.to = site /\ ~q.served
                           /\ topology.parts \subseteq q.payload.parts
       \/ /\ topology.parts \subseteq stored[site].parts
          /\ \A q \in saves : q.to = site => q.served

\* What is due to a site that is not shown is on its way or stored.
AwayIsSafe ==
  \A x \in Part, s \in Site : Due(x, s) /\ s # site =>
    \/ \E q \in saves : q.to = s /\ ~q.served /\ x \in q.payload.parts
    \/ x \in stored[s].parts

\* A save that has not been served loses nothing of what is due, neither of what
\* the server stores nor of a save before it.
SavesGrow ==
  \A q \in saves, x \in Part : ~q.served /\ Due(x, q.to) =>
    /\ x \in stored[q.to].parts => x \in q.payload.parts
    /\ \A p \in saves : p.to = q.to /\ ~p.served /\ p.id < q.id /\ x \in p.payload.parts
                          => x \in q.payload.parts

New(x) == madeFor[x] = NoSite /\ x \notin deregistered

\* What is being added is new, and what is being removed is not.
NewIsBlank ==
  /\ \A x \in Part : New(x) => Blank(x)
  /\ \A c \in adding : New(c)
  /\ removal # NoRemoval => ~New(removal.ctrl)

Kept == NewIsBlank /\ ShownIsWhole /\ AwayIsSafe /\ SavesGrow
Whole == crossed \/ overtaken \/ Kept

Inv ==
  /\ TypeOK /\ FetchesCarry /\ SavesNumbered /\ LoadsOrdered /\ OpensWhatWasAsked
  /\ AwaitedIsLast /\ ServedInOrder /\ FetchIsFresh /\ DirtyHasASave /\ Whole
-----------------------------------------------------------------------------
(* The saves under way.                                                    *)

\* The image of a finite set under a function that is injective on it.
LEMMA ImageCardinality ==
  ASSUME NEW S, NEW f, DOMAIN f = S, f = [x \in S |-> f[x]], IsFiniteSet(S),
         \A x, y \in S : f[x] = f[y] => x = y
  PROVE  /\ IsFiniteSet({f[x] : x \in S})
         /\ Cardinality({f[x] : x \in S}) = Cardinality(S)
<1> DEFINE T == {f[x] : x \in S}
<1>1. f \in [S -> T]
  OBVIOUS
<1>2. f \in Surjection(S, T) /\ f \in Injection(S, T)
  <2> HIDE DEF T
  <2>1. f \in Injection(S, T)
    BY <1>1, Fun_IsInj
  <2>2. \A t \in T : \E x \in S : f[x] = t
    BY DEF T
  <2> QED
    BY <1>1, <2>1, <2>2, Fun_IsSurj
<1> HIDE DEF T
<1>3. IsFiniteSet(T) /\ Cardinality(T) = Cardinality(S)
  BY <1>2, FS_Surjection
<1> QED
  BY <1>3 DEF T

\* What the removal of a save does to another: its number may move up by one.
Moved(p, gone) == [p EXCEPT !.id = IF @ > gone.id THEN @ - 1 ELSE @]

LEMMA MovedFacts ==
  ASSUME NEW p \in Save, NEW gone \in Save, p.id # gone.id
  PROVE  /\ Moved(p, gone) \in Save
         /\ Moved(p, gone).id = IF p.id > gone.id THEN p.id - 1 ELSE p.id
         /\ Moved(p, gone).to = p.to /\ Moved(p, gone).payload = p.payload
         /\ Moved(p, gone).served = p.served /\ Moved(p, gone).awaited = p.awaited
<1>1. p.id \in Nat \ {0} /\ gone.id \in Nat \ {0}
  BY DEF Save
<1>2. (IF p.id > gone.id THEN p.id - 1 ELSE p.id) \in Nat \ {0}
  BY <1>1
<1> QED
  BY <1>2 DEF Moved, Save

\* Two saves keep their order, and the places of a shorter list are filled.
LEMMA RenumberedFacts ==
  ASSUME saves \subseteq Save, SavesNumbered, NEW gone \in saves
  PROVE  LET R == Renumbered(saves, gone) IN
         /\ R = {Moved(p, gone) : p \in saves \ {gone}}
         /\ R \subseteq Save /\ IsFiniteSet(R) /\ Cardinality(R) = Cardinality(saves) - 1
         /\ \A r \in R : r.id <= Cardinality(R)
         /\ \A r, q \in R : r.id = q.id => r = q
         /\ \A p, q \in saves \ {gone} :
              Moved(p, gone).id < Moved(q, gone).id <=> p.id < q.id
<1> DEFINE S == saves \ {gone}
           f == [p \in S |-> Moved(p, gone)]
           R == Renumbered(saves, gone)
<1>1. R = {f[p] : p \in S} /\ R = {Moved(p, gone) : p \in S}
  BY DEF Renumbered, Moved
<1>2. /\ Cardinality(saves) \in Nat
      /\ IsFiniteSet(S) /\ Cardinality(S) = Cardinality(saves) - 1
  BY FS_RemoveElement, FS_CardinalityType DEF SavesNumbered
<1>3. \A p \in saves : p.id \in Nat \ {0} /\ p.id <= Cardinality(saves)
  BY DEF SavesNumbered, Save
<1>4. \A p \in S : p.id # gone.id /\ p \in Save
  BY DEF SavesNumbered
<1>5. \A p \in S : /\ Moved(p, gone) \in Save
                   /\ Moved(p, gone).id = IF p.id > gone.id THEN p.id - 1 ELSE p.id
  BY <1>4, MovedFacts
<1>6. \A p, q \in S : /\ Moved(p, gone).id < Moved(q, gone).id <=> p.id < q.id
                      /\ Moved(p, gone).id = Moved(q, gone).id => p = q
  <2> TAKE p, q \in S
  <2>1. p.id = q.id => p = q
    BY DEF SavesNumbered
  <2> QED
    BY <1>3, <1>4, <1>5, <2>1
<1>7. \A p \in S : Moved(p, gone).id <= Cardinality(S)
  BY <1>2, <1>3, <1>4, <1>5
<1>8. IsFiniteSet(R) /\ Cardinality(R) = Cardinality(S)
  <2>1. \A p, q \in S : f[p] = f[q] => p = q
    BY <1>6
  <2>2. DOMAIN f = S /\ f = [p \in S |-> f[p]]
    OBVIOUS
  <2> HIDE DEF f, R, S
  <2> QED
    BY <1>1, <1>2, <2>1, <2>2, ImageCardinality
<1>9. \A r \in R : \E p \in S : r = Moved(p, gone)
  BY <1>1
<1> HIDE DEF R
<1>10. \A r \in R : r \in Save /\ r.id <= Cardinality(R)
  BY <1>5, <1>7, <1>8, <1>9
<1>11. \A r, q \in R : r.id = q.id => r = q
  BY <1>6, <1>9
<1> QED
  BY <1>1, <1>2, <1>6, <1>8, <1>10, <1>11 DEF R

\* What a new save does to the others: those of its site are awaited no longer.
Cancelled(p, s) == [p EXCEPT !.awaited = @ /\ p.to # s]

LEMMA CancelledFacts ==
  ASSUME NEW p \in Save, NEW s
  PROVE  /\ Cancelled(p, s) \in Save
         /\ Cancelled(p, s).id = p.id /\ Cancelled(p, s).to = p.to
         /\ Cancelled(p, s).payload = p.payload /\ Cancelled(p, s).served = p.served
         /\ Cancelled(p, s).awaited = (p.awaited /\ p.to # s)
<1>1. (p.awaited /\ p.to # s) \in BOOLEAN
  OBVIOUS
<1> QED
  BY <1>1 DEF Cancelled, Save

\* The save that an autosave of what is shown sends.
Sent == [id |-> NextId, to |-> site, payload |-> topology, served |-> FALSE, awaited |-> TRUE]

LEMMA PostedFacts ==
  ASSUME saves \subseteq Save, SavesNumbered, site \in Site, topology \in Design
  PROVE  LET C == {Cancelled(p, site) : p \in saves}
             R == C \cup {Sent}
         IN
         /\ Sent \in Save /\ \A p \in saves : p.id < Sent.id
         /\ R \subseteq Save /\ IsFiniteSet(R) /\ Cardinality(R) = Cardinality(saves) + 1
         /\ \A r \in R : r.id <= Cardinality(R)
         /\ \A r, q \in R : r.id = q.id => r = q
<1> DEFINE f == [p \in saves |-> Cancelled(p, site)]
           C == {Cancelled(p, site) : p \in saves}
           R == C \cup {Sent}
<1>1. Cardinality(saves) \in Nat
  BY FS_CardinalityType DEF SavesNumbered
<1>2. Sent \in Save /\ Sent.id = Cardinality(saves) + 1
  BY <1>1 DEF Sent, NextId, Save
<1>3. \A p \in saves : /\ p.id \in Nat \ {0} /\ p.id <= Cardinality(saves)
                       /\ Cancelled(p, site) \in Save /\ Cancelled(p, site).id = p.id
  BY CancelledFacts DEF SavesNumbered, Save
<1>4. C = {f[p] : p \in saves}
  OBVIOUS
<1>5. IsFiniteSet(C) /\ Cardinality(C) = Cardinality(saves)
  <2>1. \A p, q \in saves : f[p] = f[q] => p = q
    BY <1>3 DEF SavesNumbered
  <2>2. DOMAIN f = saves /\ f = [p \in saves |-> f[p]] /\ IsFiniteSet(saves)
    BY DEF SavesNumbered
  <2> HIDE DEF f, C
  <2> QED
    BY <1>4, <2>1, <2>2, ImageCardinality
<1>6. Sent \notin C
  BY <1>1, <1>2, <1>3
<1> HIDE DEF C
<1>7. IsFiniteSet(R) /\ Cardinality(R) = Cardinality(saves) + 1
  BY <1>5, <1>6, FS_AddElement
<1>8. \A r \in C : r \in Save /\ r.id \in Nat /\ r.id <= Cardinality(saves)
  BY <1>3 DEF C
<1>9. \A r, q \in C : r.id = q.id => r = q
  BY <1>3 DEF C, SavesNumbered
<1>10. \A r, q \in R : r.id = q.id => r = q
  BY <1>1, <1>2, <1>8, <1>9
<1>11. \A r \in R : r \in Save /\ r.id <= Cardinality(saves) + 1
  BY <1>1, <1>2, <1>8
<1>12. \A p \in saves : p.id < Sent.id
  BY <1>1, <1>2, <1>3
<1> QED
  BY <1>2, <1>7, <1>10, <1>11, <1>12 DEF C

\* A save that is served keeps its place.
Served(p) == [p EXCEPT !.served = TRUE]

LEMMA ServedFacts ==
  ASSUME saves \subseteq Save, SavesNumbered, NEW p \in saves, ~p.served
  PROVE  LET R == (saves \ {p}) \cup {Served(p)} IN
         /\ Served(p) \in Save /\ Served(p).id = p.id /\ Served(p).to = p.to
         /\ Served(p).payload = p.payload /\ Served(p).served
         /\ Served(p).awaited = p.awaited
         /\ R \subseteq Save /\ IsFiniteSet(R) /\ Cardinality(R) = Cardinality(saves)
         /\ \A r \in R : r.id <= Cardinality(R)
         /\ \A r, q \in R : r.id = q.id => r = q
<1> DEFINE R == (saves \ {p}) \cup {Served(p)}
<1>1. /\ Served(p) \in Save /\ Served(p).id = p.id /\ Served(p).to = p.to
      /\ Served(p).payload = p.payload /\ Served(p).served
      /\ Served(p).awaited = p.awaited
  BY DEF Served, Save
<1>2. Served(p) \notin saves
  BY <1>1 DEF SavesNumbered
<1>3. IsFiniteSet(R) /\ Cardinality(R) = Cardinality(saves)
  <2>1. IsFiniteSet(saves \ {p}) /\ Cardinality(saves \ {p}) = Cardinality(saves) - 1
    BY FS_RemoveElement DEF SavesNumbered
  <2>2. IsFiniteSet(R) /\ Cardinality(R) = Cardinality(saves) - 1 + 1
    BY <1>2, <2>1, FS_AddElement
  <2>3. Cardinality(saves) \in Nat
    BY FS_CardinalityType DEF SavesNumbered
  <2> QED
    BY <2>2, <2>3
<1> QED
  BY <1>1, <1>3 DEF SavesNumbered
-----------------------------------------------------------------------------
(* Types.                                                                  *)

TypeInv == TypeOK /\ FetchesCarry /\ SavesNumbered

LEMMA InitInv ==
  ASSUME Init PROVE Inv
<1> USE DEF Init
<1>1. \A s \in Site : stored[s] \in Design
  BY WorkspaceAssumption DEF Design, Part
<1>2. Quiet \in Fetch
  BY DEF Quiet, Fetch
<1>3. /\ IsFiniteSet(saves) /\ Cardinality(saves) = 0
      /\ IsFiniteSet(adding) /\ Cardinality(adding) = 0
  BY FS_EmptySet
<1>4. madeFor \in [Part -> Site \cup {NoSite}]
  BY WorkspaceAssumption
<1>5. TypeOK
  <2>1. 0 \in 0 .. MaxLoads /\ 0 \in 0 .. MaxFails /\ 0 <= MaxPosts
    BY WorkspaceAssumption
  <2>2. fetch \in [Site -> Fetch] /\ stored \in [Site -> Design]
    BY <1>1, <1>2
  <2>3. /\ saves \subseteq Save /\ Cardinality(saves) <= MaxPosts
        /\ adding \subseteq Ctrl /\ Cardinality(adding) <= 1
    BY <1>3, <2>1
  <2>4. (topology = NoDesign) = (site = NoSite)
    OBVIOUS
  <2> QED
    BY <1>4, <2>1, <2>2, <2>3, <2>4 DEF TypeOK
<1>6. FetchesCarry /\ SavesNumbered /\ LoadsOrdered /\ OpensWhatWasAsked
  BY <1>3 DEF FetchesCarry, SavesNumbered, LoadsOrdered, OpensWhatWasAsked, Quiet
<1>7. AwaitedIsLast /\ ServedInOrder /\ FetchIsFresh /\ DirtyHasASave
  BY DEF AwaitedIsLast, ServedInOrder, FetchIsFresh, DirtyHasASave, Quiet
<1>8. \A x \in Part, s \in Site : madeFor[x] = s => x \in stored[s].parts
  BY WorkspaceAssumption DEF Part
<1>9. \A x \in Part : madeFor[x] = NoSite => Blank(x)
  BY WorkspaceAssumption DEF Blank, Part
<1>10. Whole
  BY <1>8, <1>9 DEF Whole, Kept, NewIsBlank, New, ShownIsWhole, AwayIsSafe, SavesGrow, Due
<1> QED
  BY <1>5, <1>6, <1>7, <1>10 DEF Inv

LEMMA OpenType ==
  ASSUME TypeInv, NEW s \in Site, Open(s)
  PROVE  TypeInv'
<1> USE DEF TypeInv
<1>1. CASE owner = s \/ site = s
  <2>1. TypeOK'
    BY <1>1 DEF TypeOK, Open, loading, ops
  <2> QED
    BY <1>1, <2>1 DEF Open, FetchesCarry, SavesNumbered, loading
<1>2. CASE ~(owner = s \/ site = s)
  <2>1. loadSeq' \in 0 .. MaxLoads /\ loadSeq + 1 \in 1 .. MaxLoads
    BY <1>2, WorkspaceAssumption DEF TypeOK, Open
  <2>2. [seq |-> loadSeq + 1, site |-> s, step |-> "fetch"] \in Load
    BY <2>1 DEF Load
  <2>3. loads' \subseteq Load
    BY <1>2, <2>2 DEF TypeOK, Open
  <2>4. fetch' \in [Site -> Fetch] /\ FetchesCarry'
    <3>1. CASE fetch[s] = Quiet
      <4>1. fetch' = [fetch EXCEPT ![s].state = "asked"] /\ fetch \in [Site -> Fetch]
        BY <1>2, <3>1 DEF TypeOK, Open
      <4>2. [fetch[s] EXCEPT !.state = "asked"] \in Fetch
        BY <4>1 DEF Fetch
      <4> QED
        BY <4>1, <4>2 DEF FetchesCarry, Fetch
    <3>2. CASE fetch[s] # Quiet
      BY <1>2, <3>2 DEF TypeOK, Open, FetchesCarry
    <3> QED
      BY <3>1, <3>2
  <2>5. abandoned' \subseteq Part
    BY <1>2 DEF TypeOK, Open, Clear, Unsaved, Design
  <2>6. TypeOK'
    BY <1>2, <2>1, <2>3, <2>4, <2>5 DEF TypeOK, Open, Clear, ops
  <2> QED
    BY <2>4, <2>6 DEF Open, SavesNumbered
<1> QED
  BY <1>1, <1>2

LEMMA ServeLoadType ==
  ASSUME TypeInv, NEW s \in Site, ServeLoad(s)
  PROVE  TypeInv'
<1> USE DEF TypeInv
<1>1. [state |-> "answered", draft |-> stored[s]] \in Fetch /\ stored[s] \in Design
  BY DEF TypeOK, Fetch
<1>2. fetch' \in [Site -> Fetch] /\ FetchesCarry'
  BY <1>1 DEF TypeOK, ServeLoad, FetchesCarry
<1>3. overtaken' \in BOOLEAN
  BY DEF ServeLoad
<1>4. TypeOK'
  BY <1>2, <1>3 DEF TypeOK, ServeLoad, editor, wire, ops
<1> QED
  BY <1>2, <1>4 DEF ServeLoad, SavesNumbered, wire

LEMMA SettledType ==
  ASSUME TypeInv, NEW s \in Site, fetch' = Settled(s)
  PROVE  fetch' \in [Site -> Fetch] /\ FetchesCarry'
<1>1. Quiet \in Fetch
  BY DEF Quiet, Fetch
<1> QED
  BY <1>1 DEF TypeInv, TypeOK, Settled, FetchesCarry, Quiet

LEMMA LoadAnsweredType ==
  ASSUME TypeInv, NEW s \in Site, LoadAnswered(s)
  PROVE  TypeInv'
<1> USE DEF TypeInv
<1> DEFINE waiting == {l \in loads : l.site = s /\ l.step = "fetch"}
           taking == {l \in waiting : ~Superseded(l)}
<1>1. fetch[s].draft \in Design
  BY DEF LoadAnswered, FetchesCarry
<1>2. [fetch[s].draft EXCEPT !.old = FALSE] \in Design
  BY <1>1 DEF Design
<1>3. fetch' \in [Site -> Fetch] /\ FetchesCarry'
  BY SettledType DEF LoadAnswered
<1>4. \A l \in taking : [l EXCEPT !.step = "boards"] \in Load
  BY DEF TypeOK, Load
<1>5. loads' \subseteq Load
  BY <1>4 DEF TypeOK, LoadAnswered
<1>6. /\ site' \in Site \cup {NoSite} /\ topology' \in Design \cup {NoDesign}
      /\ dirty' \in BOOLEAN /\ timer' \in BOOLEAN
      /\ (topology' = NoDesign) = (site' = NoSite) \/ crossed
  <2>1. CASE taking = {}
    BY <2>1 DEF TypeOK, LoadAnswered
  <2>2. CASE taking # {}
    <3>1. site' = s /\ topology' = [fetch[s].draft EXCEPT !.old = FALSE]
      BY <2>2 DEF LoadAnswered
    <3>2. topology' # NoDesign /\ site' # NoSite
      BY <1>2, <3>1, NoDesignAssumption, WorkspaceAssumption
    <3>3. dirty' \in BOOLEAN /\ timer' \in BOOLEAN
      BY <2>2 DEF TypeOK, LoadAnswered, MarkDirty
    <3> QED
      BY <1>2, <3>1, <3>2, <3>3
  <2> QED
    BY <2>1, <2>2
<1>7. TypeOK'
  BY <1>3, <1>5, <1>6 DEF TypeOK, LoadAnswered, wire, ops, ghosts
<1> QED
  BY <1>3, <1>7 DEF LoadAnswered, SavesNumbered, wire

\* One more request has failed.
LEMMA FailsType ==
  ASSUME TypeInv, fails < MaxFails, fails' = fails + 1
  PROVE  fails' \in 0 .. MaxFails /\ fails' # 0
BY WorkspaceAssumption DEF TypeInv, TypeOK

LEMMA LoadFailsType ==
  ASSUME TypeInv, NEW s \in Site, LoadFails(s)
  PROVE  TypeInv'
<1> USE DEF TypeInv
<1>1. fails' \in 0 .. MaxFails
  BY FailsType DEF LoadFails
<1>2. fetch' \in [Site -> Fetch] /\ FetchesCarry'
  BY SettledType DEF LoadFails
<1>3. TypeOK'
  BY <1>1, <1>2 DEF TypeOK, LoadFails, editor, ops, ghosts
<1> QED
  BY <1>2, <1>3 DEF LoadFails, SavesNumbered

LEMMA BoardsLoadedType ==
  ASSUME TypeInv, NEW l \in loads, BoardsLoaded(l)
  PROVE  TypeInv'
<1> USE DEF TypeInv
<1>1. TypeOK'
  BY DEF TypeOK, BoardsLoaded, wire, ops, ghosts
<1> QED
  BY <1>1 DEF BoardsLoaded, FetchesCarry, SavesNumbered, wire
LEMMA EditingType ==
  ASSUME TypeInv,
         \/ \E e \in Edit : DrawEdit(e)
         \/ \E c \in Ctrl : StartAdd(c) \/ FinishAdd(c) \/ StartRemove(c)
  PROVE  TypeInv'
<1> USE DEF TypeInv
<1>1. ASSUME NEW e \in Edit, DrawEdit(e) PROVE TypeInv'
  <2>1. topology \in Design /\ topology' = [topology EXCEPT !.parts = @ \cup {e}] /\ e \in Part
    BY <1>1 DEF TypeOK, DrawEdit, Part
  <2>2. topology' \in Design
    BY <2>1 DEF Design
  <2>3. topology' # NoDesign
    BY <2>2, NoDesignAssumption
  <2>4. madeFor' \in [Part -> Site \cup {NoSite}]
    BY <1>1 DEF TypeOK, DrawEdit
  <2>5. TypeOK'
    BY <1>1, <2>2, <2>3, <2>4 DEF TypeOK, DrawEdit, MarkDirty, loading, wire, ops
  <2> QED
    BY <1>1, <2>5 DEF DrawEdit, FetchesCarry, SavesNumbered, loading, wire
<1>2. ASSUME NEW c \in Ctrl, StartAdd(c) PROVE TypeInv'
  <2>1. Cardinality({c}) = 1
    BY FS_Singleton
  <2>2. TypeOK'
    BY <1>2, <2>1 DEF TypeOK, StartAdd, editor, loading, wire, ghosts
  <2> QED
    BY <1>2, <2>2 DEF StartAdd, FetchesCarry, SavesNumbered, loading, wire
<1>3. ASSUME NEW c \in Ctrl, FinishAdd(c) PROVE TypeInv'
  <2>1. Cardinality({}) = 0
    BY FS_EmptySet
  <2>2. /\ topology' \in Design \cup {NoDesign}
        /\ topology' = NoDesign <=> topology = NoDesign
        /\ madeFor' \in [Part -> Site \cup {NoSite}]
    <3>1. CASE topology = NoDesign
      BY <1>3, <3>1 DEF TypeOK, FinishAdd
    <3>2. CASE topology # NoDesign
      <4>1. topology \in Design /\ topology' = [topology EXCEPT !.parts = @ \cup {c}] /\ c \in Part
        BY <1>3, <3>2 DEF TypeOK, FinishAdd, Part
      <4>2. topology' \in Design
        BY <4>1 DEF Design
      <4> QED
        BY <1>3, <3>2, <4>2, NoDesignAssumption DEF TypeOK, FinishAdd
    <3> QED
      BY <3>1, <3>2
  <2>3. TypeOK'
    BY <1>3, <2>1, <2>2 DEF TypeOK, FinishAdd, MarkDirty, loading, wire
  <2> QED
    BY <1>3, <2>3 DEF FinishAdd, FetchesCarry, SavesNumbered, loading, wire
<1>4. ASSUME NEW c \in Ctrl, StartRemove(c) PROVE TypeInv'
  <2>1. removal' \in [ctrl : Ctrl, snapshot : Design]
    BY <1>4 DEF TypeOK, StartRemove
  <2>2. TypeOK'
    BY <1>4, <2>1 DEF TypeOK, StartRemove, editor, loading, wire, ghosts
  <2> QED
    BY <1>4, <2>2 DEF StartRemove, FetchesCarry, SavesNumbered, loading, wire
<1> QED
  BY <1>1, <1>2, <1>3, <1>4

LEMMA RemovalType ==
  ASSUME TypeInv, FinishRemove \/ RemoveFails
  PROVE  TypeInv'
<1> USE DEF TypeInv
<1>1. CASE FinishRemove
  <2>1. /\ removal.snapshot \in Design /\ removal.ctrl \in Ctrl
        /\ topology' = [removal.snapshot EXCEPT !.parts = @ \ {removal.ctrl}]
    BY <1>1 DEF TypeOK, FinishRemove
  <2>2. topology' \in Design
    BY <2>1 DEF Design
  <2>3. topology' # NoDesign /\ removal.snapshot # NoDesign
    BY <2>1, <2>2, NoDesignAssumption
  <2>4. crossed' \in BOOLEAN /\ ((topology' = NoDesign) = (site' = NoSite) \/ crossed')
    BY <1>1, <2>3 DEF TypeOK, FinishRemove
  <2>5. madeFor' \in [Part -> Site \cup {NoSite}] /\ deregistered' \subseteq Ctrl
    BY <1>1, <2>1 DEF TypeOK, FinishRemove
  <2>6. TypeOK'
    BY <1>1, <2>2, <2>4, <2>5 DEF TypeOK, FinishRemove, MarkDirty, loading
  <2> QED
    BY <1>1, <2>6 DEF FinishRemove, FetchesCarry, SavesNumbered, loading
<1>2. CASE RemoveFails
  <2>1. fails' \in 0 .. MaxFails
    BY <1>2, FailsType DEF RemoveFails
  <2>2. deregistered' \subseteq Ctrl
    BY <1>2 DEF TypeOK, RemoveFails
  <2>3. TypeOK'
    BY <1>2, <2>1, <2>2 DEF TypeOK, RemoveFails, editor, loading, ghosts
  <2> QED
    BY <1>2, <2>3 DEF RemoveFails, FetchesCarry, SavesNumbered, loading
<1> QED
  BY <1>1, <1>2

\* An autosave of what is shown, as Cancelled and Sent describe it.
LEMMA AutosavePosts ==
  ASSUME TypeInv, Autosave, site # NoSite, topology # NoDesign
  PROVE  /\ saves' = {Cancelled(p, site) : p \in saves} \cup {Sent}
         /\ site \in Site /\ topology \in Design /\ saves \subseteq Save /\ SavesNumbered
BY DEF Autosave, Cancelled, Sent, TypeInv, TypeOK

LEMMA AutosaveType ==
  ASSUME TypeInv, Autosave
  PROVE  TypeInv'
<1> USE DEF TypeInv
<1>1. CASE site = NoSite \/ topology = NoDesign
  <2>1. TypeOK'
    BY <1>1 DEF TypeOK, Autosave, loading, ops, ghosts
  <2> QED
    BY <1>1, <2>1 DEF Autosave, FetchesCarry, SavesNumbered, loading
<1>2. CASE site # NoSite /\ topology # NoDesign
  <2>1. /\ saves' \subseteq Save /\ IsFiniteSet(saves')
        /\ Cardinality(saves') = Cardinality(saves) + 1
        /\ \A r \in saves' : r.id <= Cardinality(saves')
        /\ \A r, q \in saves' : r.id = q.id => r = q
    BY <1>2, AutosavePosts, PostedFacts
  <2>2. Cardinality(saves) \in Nat /\ Cardinality(saves) < MaxPosts /\ saveFailed' = FALSE
    BY <1>2, FS_CardinalityType DEF Autosave, SavesNumbered
  <2>3. Cardinality(saves') <= MaxPosts
    BY <2>1, <2>2, WorkspaceAssumption
  <2>4. TypeOK'
    BY <1>2, <2>1, <2>2, <2>3 DEF TypeOK, Autosave, loading, ops, ghosts
  <2> QED
    BY <2>1, <2>4 DEF Autosave, FetchesCarry, SavesNumbered, loading
<1> QED
  BY <1>1, <1>2

LEMMA ServeSaveType ==
  ASSUME TypeInv, NEW p \in saves, ServeSave(p)
  PROVE  TypeInv'
<1> USE DEF TypeInv
<1>1. saves' = (saves \ {p}) \cup {Served(p)} /\ ~p.served /\ saves \subseteq Save
  BY DEF ServeSave, Served, TypeOK
<1>2. /\ saves' \subseteq Save /\ IsFiniteSet(saves')
      /\ Cardinality(saves') = Cardinality(saves)
      /\ \A r \in saves' : r.id <= Cardinality(saves')
      /\ \A r, q \in saves' : r.id = q.id => r = q
  BY <1>1, ServedFacts
<1>3. stored' \in [Site -> Design]
  BY DEF TypeOK, ServeSave, Save
<1>4. overtaken' \in BOOLEAN
  BY DEF ServeSave
<1>5. TypeOK'
  BY <1>2, <1>3, <1>4 DEF TypeOK, ServeSave, editor, loading, ops
<1> QED
  BY <1>2, <1>5 DEF ServeSave, FetchesCarry, SavesNumbered, loading

\* A save that has been answered, or has failed, leaves the list.
LEMMA SaveGone ==
  ASSUME TypeInv, NEW p \in saves, saves' = Renumbered(saves, p)
  PROVE  /\ saves' = {Moved(q, p) : q \in saves \ {p}}
         /\ saves' \subseteq Save /\ Cardinality(saves') <= MaxPosts /\ SavesNumbered'
         /\ \A q \in saves \ {p} :
              /\ Moved(q, p).to = q.to /\ Moved(q, p).payload = q.payload
              /\ Moved(q, p).served = q.served /\ Moved(q, p).awaited = q.awaited
         /\ \A q, r \in saves \ {p} : Moved(q, p).id < Moved(r, p).id <=> q.id < r.id
<1> USE DEF TypeInv
<1>1. saves \subseteq Save /\ Cardinality(saves) <= MaxPosts
  BY DEF TypeOK
<1>2. /\ saves' = {Moved(q, p) : q \in saves \ {p}}
      /\ saves' \subseteq Save /\ IsFiniteSet(saves')
      /\ Cardinality(saves') = Cardinality(saves) - 1
      /\ \A r \in saves' : r.id <= Cardinality(saves')
      /\ \A r, q \in saves' : r.id = q.id => r = q
      /\ \A q, r \in saves \ {p} : Moved(q, p).id < Moved(r, p).id <=> q.id < r.id
  BY <1>1, RenumberedFacts
<1>3. Cardinality(saves) \in Nat
  BY FS_CardinalityType DEF SavesNumbered
<1>4. Cardinality(saves') <= MaxPosts
  BY <1>1, <1>2, <1>3, WorkspaceAssumption
<1>5. \A q \in saves \ {p} :
        /\ Moved(q, p).to = q.to /\ Moved(q, p).payload = q.payload
        /\ Moved(q, p).served = q.served /\ Moved(q, p).awaited = q.awaited
  BY <1>1, MovedFacts DEF SavesNumbered
<1> QED
  BY <1>2, <1>4, <1>5 DEF SavesNumbered

LEMMA SaveEndsType ==
  ASSUME TypeInv, NEW p \in saves, SaveAnswered(p) \/ SaveFails(p)
  PROVE  TypeInv'
<1> USE DEF TypeInv
<1>1. saves' = Renumbered(saves, p)
  BY DEF SaveAnswered, SaveFails
<1>2. saves' \subseteq Save /\ Cardinality(saves') <= MaxPosts /\ SavesNumbered'
  BY <1>1, SaveGone
<1>3. CASE SaveAnswered(p)
  <2>1. TypeOK'
    BY <1>2, <1>3 DEF TypeOK, SaveAnswered, loading, ops, ghosts
  <2> QED
    BY <1>2, <1>3, <2>1 DEF SaveAnswered, FetchesCarry, loading
<1>4. CASE SaveFails(p)
  <2>1. fails' \in 0 .. MaxFails
    BY <1>4, FailsType DEF SaveFails
  <2>2. abandoned' \subseteq Part
    BY <1>4 DEF TypeOK, SaveFails, Save, Design
  <2>3. saveFailed' \in BOOLEAN
    BY <1>4 DEF SaveFails
  <2>4. TypeOK'
    BY <1>2, <1>4, <2>1, <2>2, <2>3 DEF TypeOK, SaveFails, editor, loading, ops
  <2> QED
    BY <1>2, <1>4, <2>4 DEF SaveFails, FetchesCarry, loading
<1> QED
  BY <1>3, <1>4

LEMMA TypeStep ==
  ASSUME TypeInv, [Next]_vars
  PROVE  TypeInv'
<1>1. CASE UNCHANGED vars
  <2> USE <1>1 DEF vars, editor, loading, wire, ops, ghosts
  <2>1. TypeOK'
    BY DEF TypeInv, TypeOK
  <2> QED
    BY <2>1 DEF TypeInv, FetchesCarry, SavesNumbered
<1>2. CASE Operator
  BY <1>2, OpenType, EditingType DEF Operator
<1>3. CASE Browser
  BY <1>3, LoadAnsweredType, BoardsLoadedType, EditingType, RemovalType, AutosaveType,
     SaveEndsType DEF Browser
<1>4. CASE Server
  BY <1>4, ServeLoadType, ServeSaveType DEF Server
<1>5. CASE Failure
  BY <1>5, LoadFailsType, RemovalType, SaveEndsType DEF Failure
<1> QED
  BY <1>1, <1>2, <1>3, <1>4, <1>5 DEF Next
-----------------------------------------------------------------------------
(* Loads.                                                                  *)

LoadInv == LoadsOrdered /\ OpensWhatWasAsked

LEMMA OpenLoads ==
  ASSUME TypeInv, LoadInv, NEW s \in Site, Open(s)
  PROVE  LoadInv'
<1> USE DEF LoadInv
<1>1. CASE owner = s \/ site = s
  <2>1. /\ loads' = loads /\ loadSeq' = loadSeq /\ owner' = owner /\ site' = site
        /\ fails' = fails /\ wanted' = s
    BY <1>1 DEF Open, loading
  <2>2. owner # NoSite => owner = s
    <3>1. SUFFICES ASSUME owner # NoSite, site = s PROVE owner = s
      BY <1>1
    <3>2. PICK l \in loads : l.seq = loadSeq
      BY <3>1 DEF LoadsOrdered
    <3> QED
      BY <3>1, <3>2, WorkspaceAssumption DEF LoadsOrdered
  <2>3. LoadsOrdered'
    BY <2>1, <2>2 DEF LoadsOrdered
  <2>4. OpensWhatWasAsked'
    BY <1>1, <2>1, WorkspaceAssumption DEF OpensWhatWasAsked
  <2> QED
    BY <2>3, <2>4
<1>2. CASE ~(owner = s \/ site = s)
  <2> DEFINE new == [seq |-> loadSeq + 1, site |-> s, step |-> "fetch"]
  <2>1. /\ loads' = loads \cup {new} /\ loadSeq' = loadSeq + 1 /\ owner' = s
        /\ site' = NoSite /\ wanted' = s
    BY <1>2 DEF Open, Clear
  <2>2. \A l \in loads : l.seq \in Nat /\ l.seq <= loadSeq /\ loadSeq \in Nat
    BY DEF TypeInv, TypeOK, LoadsOrdered, Load
  <2>3. loadSeq \in Nat /\ new.seq = loadSeq + 1 /\ new.site = s /\ new.step = "fetch"
    BY DEF TypeInv, TypeOK
  <2> HIDE DEF new
  <2>4. \A l \in loads' : l.seq <= loadSeq'
    BY <2>1, <2>2, <2>3
  <2>5. \A l, k \in loads' : l.seq = k.seq => l = k
    BY <2>1, <2>2, <2>3 DEF LoadsOrdered
  <2>6. \A l \in loads' : l.seq = loadSeq' => l = new
    BY <2>1, <2>2, <2>3
  <2>7. LoadsOrdered'
    BY <2>1, <2>3, <2>4, <2>5, <2>6 DEF LoadsOrdered
  <2>8. OpensWhatWasAsked'
    BY <2>1, WorkspaceAssumption DEF OpensWhatWasAsked
  <2> QED
    BY <2>7, <2>8
<1> QED
  BY <1>1, <1>2

\* The loads that an answer reaches are those of its site; of them only the
\* last one asked for goes on, and it was the one that showed nothing.
LEMMA AnswerReaches ==
  ASSUME TypeInv, LoadInv, NEW s \in Site, LoadAnswered(s)
  PROVE  LET waiting == {l \in loads : l.site = s /\ l.step = "fetch"}
             taking == {l \in waiting : l.seq = loadSeq}
         IN  /\ loads' = (loads \ waiting) \cup {[l EXCEPT !.step = "boards"] : l \in taking}
             /\ taking = {} => site' = site /\ topology' = topology
                               /\ dirty' = dirty /\ timer' = timer
             /\ taking # {} => /\ site' = s /\ site = NoSite /\ owner = s
                               /\ topology' = [fetch[s].draft EXCEPT !.old = FALSE]
BY DEF LoadAnswered, Superseded, LoadInv, LoadsOrdered

LEMMA LoadAnsweredLoads ==
  ASSUME TypeInv, LoadInv, NEW s \in Site, LoadAnswered(s)
  PROVE  LoadInv'
<1> DEFINE waiting == {l \in loads : l.site = s /\ l.step = "fetch"}
           taking == {l \in waiting : l.seq = loadSeq}
           On(l) == [l EXCEPT !.step = "boards"]
<1>1. /\ loads' = (loads \ waiting) \cup {On(l) : l \in taking}
      /\ taking = {} => site' = site
      /\ taking # {} => site' = s /\ site = NoSite /\ owner = s
  BY AnswerReaches
<1>2. loadSeq' = loadSeq /\ owner' = owner /\ wanted' = wanted /\ fails' = fails
  BY DEF LoadAnswered, wire
<1>3. \A l \in taking : On(l).seq = l.seq /\ On(l).site = l.site /\ On(l).step = "boards"
  BY DEF TypeInv, TypeOK, Load
<1>4. /\ \A l \in loads : l.seq <= loadSeq
      /\ \A l, k \in loads : l.seq = k.seq => l = k
      /\ \A l \in loads : l.seq = loadSeq =>
           owner = l.site /\ site = IF l.step = "fetch" THEN NoSite ELSE l.site
      /\ owner # NoSite => owner = wanted /\ \E l \in loads : l.seq = loadSeq
  BY DEF LoadInv, LoadsOrdered
<1> HIDE DEF taking
<1>11. /\ \A l \in loads' : l \in loads \/ \E k \in taking : l = On(k)
       /\ \A l \in loads' : l \in loads => ~(l.site = s /\ l.step = "fetch")
                                           \/ \E k \in taking : l = On(k)
       /\ \A k \in taking : On(k) \in loads'
       /\ \A l \in loads : l \in loads' \/ (l.site = s /\ l.step = "fetch")
  BY <1>1
<1>12. \A k \in taking : k \in loads /\ k.seq = loadSeq /\ k.site = s /\ k.step = "fetch"
  BY DEF taking
<1>13. \A l \in loads : l.seq = loadSeq /\ l.site = s /\ l.step = "fetch" => l \in taking
  BY DEF taking
<1> HIDE DEF On, waiting
<1>5. \A l \in loads' : l.seq <= loadSeq'
  BY <1>2, <1>3, <1>4, <1>11, <1>12
<1>6. \A l, k \in loads' : l.seq = k.seq => l = k
  <2> SUFFICES ASSUME NEW l \in loads', NEW k \in loads', l.seq = k.seq PROVE l = k
    OBVIOUS
  <2>1. CASE \E j \in taking : l = On(j)
    BY <1>3, <1>4, <1>11, <1>12, <2>1
  <2>2. CASE \E j \in taking : k = On(j)
    BY <1>3, <1>4, <1>11, <1>12, <2>2
  <2>3. CASE l \in loads /\ k \in loads
    BY <1>4, <2>3
  <2> QED
    BY <1>11, <2>1, <2>2, <2>3
<1>7. \A l \in loads' : l.seq = loadSeq' =>
        owner' = l.site /\ site' = IF l.step = "fetch" THEN NoSite ELSE l.site
  <2> SUFFICES ASSUME NEW l \in loads', l.seq = loadSeq
               PROVE  owner = l.site /\ site' = IF l.step = "fetch" THEN NoSite ELSE l.site
    BY <1>2
  <2>1. CASE \E j \in taking : l = On(j)
    BY <1>1, <1>3, <1>12, <2>1
  <2>2. CASE ~\E j \in taking : l = On(j)
    <3>1. l \in loads /\ ~(l.site = s /\ l.step = "fetch")
      BY <1>11, <2>2
    <3>2. taking = {}
      BY <1>4, <1>12, <3>1
    <3> QED
      BY <1>1, <1>4, <3>1, <3>2
  <2> QED
    BY <2>1, <2>2
<1>8. owner' # NoSite => owner' = wanted' /\ \E l \in loads' : l.seq = loadSeq'
  BY <1>2, <1>3, <1>4, <1>11, <1>12, <1>13
<1>9. LoadsOrdered'
  BY <1>5, <1>6, <1>7, <1>8 DEF LoadsOrdered
<1>10. OpensWhatWasAsked'
  BY <1>1, <1>2, WorkspaceAssumption DEF LoadInv, OpensWhatWasAsked
<1> QED
  BY <1>9, <1>10 DEF LoadInv

LEMMA LoadFailsLoads ==
  ASSUME TypeInv, LoadInv, NEW s \in Site, LoadFails(s)
  PROVE  LoadInv'
<1> DEFINE Cut == \E l \in loads : l.site = s /\ l.step = "fetch" /\ l.seq = loadSeq
<1>1. /\ loads' = {l \in loads : l.site # s \/ l.step # "fetch"}
      /\ owner' = (IF Cut THEN NoSite ELSE owner)
      /\ loadSeq' = loadSeq /\ site' = site /\ wanted' = wanted
  BY DEF LoadFails, editor
<1>2. fails' # 0
  BY FailsType DEF LoadFails
<1>3. CASE Cut
  <2>1. site = NoSite /\ \A l \in loads' : l.seq # loadSeq
    BY <1>1, <1>3 DEF LoadInv, LoadsOrdered
  <2> QED
    BY <1>1, <1>2, <1>3, <2>1 DEF LoadInv, LoadsOrdered, OpensWhatWasAsked
<1>4. CASE ~Cut
  <2>1. \A l \in loads : l.seq = loadSeq => l \in loads'
    BY <1>1, <1>4
  <2> QED
    BY <1>1, <1>2, <1>4, <2>1 DEF LoadInv, LoadsOrdered, OpensWhatWasAsked
<1> QED
  BY <1>3, <1>4

LEMMA BoardsLoadedLoads ==
  ASSUME TypeInv, LoadInv, NEW l \in loads, BoardsLoaded(l)
  PROVE  LoadInv'
<1>1. /\ loads' = loads \ {l} /\ loadSeq' = loadSeq /\ site' = site /\ wanted' = wanted
      /\ owner' = (IF l.seq = loadSeq THEN NoSite ELSE owner) /\ fails' = fails
      /\ l.step = "boards"
  BY DEF BoardsLoaded, wire
<1>2. CASE l.seq = loadSeq
  <2>1. owner = l.site /\ site = l.site /\ l.site \in Site
    BY <1>1, <1>2 DEF LoadInv, LoadsOrdered, TypeInv, TypeOK, Load
  <2>2. site = wanted
    BY <2>1, WorkspaceAssumption DEF LoadInv, LoadsOrdered
  <2>3. \A k \in loads' : k.seq # loadSeq
    BY <1>1, <1>2 DEF LoadInv, LoadsOrdered
  <2> QED
    BY <1>1, <1>2, <2>2, <2>3 DEF LoadInv, LoadsOrdered, OpensWhatWasAsked
<1>3. CASE l.seq # loadSeq
  <2>1. \A k \in loads : k.seq = loadSeq => k \in loads'
    BY <1>1, <1>3
  <2> QED
    BY <1>1, <1>3, <2>1 DEF LoadInv, LoadsOrdered, OpensWhatWasAsked
<1> QED
  BY <1>2, <1>3

\* The steps that are no load's.
LEMMA OtherLoads ==
  ASSUME LoadInv, UNCHANGED <<wanted, site, loadSeq, owner, loads>>,
         fails' = fails \/ fails' # 0
  PROVE  LoadInv'
BY DEF LoadInv, LoadsOrdered, OpensWhatWasAsked

LEMMA LoadStep ==
  ASSUME TypeInv, LoadInv, [Next]_vars
  PROVE  LoadInv'
<1>1. ASSUME \/ \E e \in Edit : DrawEdit(e)
             \/ \E c \in Ctrl : StartAdd(c) \/ FinishAdd(c) \/ StartRemove(c)
             \/ FinishRemove \/ Autosave
             \/ \E p \in saves : ServeSave(p) \/ SaveAnswered(p)
             \/ \E s \in Site : ServeLoad(s)
             \/ UNCHANGED vars
      PROVE  LoadInv'
  <2>1. UNCHANGED <<wanted, site, loadSeq, owner, loads, fails>>
    BY <1>1 DEF DrawEdit, StartAdd, FinishAdd, StartRemove, FinishRemove, Autosave, ServeSave,
       SaveAnswered, ServeLoad, vars, editor, loading, wire, ghosts
  <2> QED
    BY <2>1, OtherLoads
<1>2. ASSUME RemoveFails \/ \E p \in saves : SaveFails(p)
      PROVE  LoadInv'
  <2>1. UNCHANGED <<wanted, site, loadSeq, owner, loads>> /\ fails < MaxFails /\ fails' = fails + 1
    BY <1>2 DEF RemoveFails, SaveFails, editor, loading
  <2> QED
    BY <2>1, FailsType, OtherLoads
<1> QED
  BY <1>1, <1>2, OpenLoads, LoadAnsweredLoads, LoadFailsLoads, BoardsLoadedLoads
  DEF Next, Operator, Browser, Server, Failure
-----------------------------------------------------------------------------
(* The order in which saves are sent and served, and what a fetch sees.    *)

OrderInv == AwaitedIsLast /\ ServedInOrder /\ FetchIsFresh

LEMMA LoadingOrder ==
  ASSUME TypeInv, LoadInv, OrderInv,
         \E s \in Site : Open(s) \/ ServeLoad(s) \/ LoadAnswered(s) \/ LoadFails(s)
  PROVE  OrderInv'
<1> USE DEF OrderInv
<1>1. saves' = saves /\ stored' = stored /\ (overtaken => overtaken')
  <2>1. ASSUME NEW s \in Site, Open(s) \/ LoadAnswered(s) \/ LoadFails(s)
        PROVE  saves' = saves /\ stored' = stored /\ overtaken' = overtaken
    BY <2>1 DEF Open, LoadAnswered, LoadFails, wire, ghosts
  <2>2. ASSUME NEW s \in Site, ServeLoad(s)
        PROVE  saves' = saves /\ stored' = stored /\ (overtaken => overtaken')
    BY <2>2 DEF ServeLoad, wire
  <2> QED
    BY <2>1, <2>2
<1>2. AwaitedIsLast' /\ ServedInOrder'
  BY <1>1 DEF AwaitedIsLast, ServedInOrder
<1>3. fetch \in [Site -> Fetch]
  BY DEF TypeInv, TypeOK
<1>4. ASSUME NEW s \in Site, Open(s) PROVE FetchIsFresh'
  <2>1. CASE owner = s \/ site = s
    BY <1>1, <1>4, <2>1 DEF Open, FetchIsFresh, loading
  <2>2. CASE ~(owner = s \/ site = s)
    <3>1. site' = NoSite /\ overtaken' = overtaken
      BY <1>4, <2>2 DEF Open, Clear
    <3>2. \A z \in Site : fetch'[z].state = "answered" => fetch'[z] = fetch[z]
      BY <1>3, <1>4, <2>2 DEF Open, Fetch
    <3> QED
      BY <1>1, <3>1, <3>2, WorkspaceAssumption DEF FetchIsFresh
  <2> QED
    BY <2>1, <2>2
<1>5. ASSUME NEW s \in Site, ServeLoad(s) PROVE FetchIsFresh'
  <2>1. /\ fetch[s] # Quiet /\ site' = site
        /\ fetch'[s] = [state |-> "answered", draft |-> stored[s]]
        /\ \A z \in Site : z # s => fetch'[z] = fetch[z]
        /\ overtaken' = (overtaken \/ \E p \in saves : p.to = s /\ ~p.served)
    BY <1>3, <1>5 DEF ServeLoad, Quiet, editor
  <2>2. \A z \in Site : fetch'[z] # Quiet => site' # z
    BY <2>1 DEF FetchIsFresh
  <2>3. CASE overtaken'
    BY <2>2, <2>3 DEF FetchIsFresh
  <2>4. CASE ~overtaken'
    <3>1. ~overtaken /\ \A p \in saves : p.to = s => p.served
      BY <2>1, <2>4
    <3>2. \A z \in Site : fetch'[z].state = "answered" =>
            fetch'[z].draft = stored[z] /\ \A q \in saves : q.to = z => q.served
      BY <2>1, <3>1 DEF FetchIsFresh
    <3> QED
      BY <1>1, <2>2, <3>2 DEF FetchIsFresh
  <2> QED
    BY <2>3, <2>4
<1>6. ASSUME NEW s \in Site, LoadAnswered(s) PROVE FetchIsFresh'
  <2>1. /\ fetch'[s] = Quiet /\ \A z \in Site : z # s => fetch'[z] = fetch[z]
        /\ site' \in {site, s} /\ overtaken' = overtaken
    BY <1>3, <1>6 DEF LoadAnswered, Settled, ghosts
  <2> QED
    BY <1>1, <2>1 DEF FetchIsFresh, Quiet
<1>7. ASSUME NEW s \in Site, LoadFails(s) PROVE FetchIsFresh'
  <2>1. /\ fetch'[s] = Quiet /\ \A z \in Site : z # s => fetch'[z] = fetch[z]
        /\ site' = site /\ overtaken' = overtaken
    BY <1>3, <1>7 DEF LoadFails, Settled, editor, ghosts
  <2> QED
    BY <1>1, <2>1 DEF FetchIsFresh, Quiet
<1> QED
  BY <1>2, <1>4, <1>5, <1>6, <1>7

LEMMA AutosaveOrder ==
  ASSUME TypeInv, LoadInv, OrderInv, Autosave
  PROVE  OrderInv'
<1> USE DEF OrderInv
<1>1. fetch' = fetch /\ site' = site /\ stored' = stored /\ overtaken' = overtaken
  BY DEF Autosave, loading, ghosts
<1>2. CASE site = NoSite \/ topology = NoDesign
  <2>1. saves' = saves
    BY <1>2 DEF Autosave
  <2> QED
    BY <1>1, <2>1 DEF AwaitedIsLast, ServedInOrder, FetchIsFresh
<1>3. CASE site # NoSite /\ topology # NoDesign
  <2> DEFINE C == {Cancelled(p, site) : p \in saves}
  <2>1. /\ saves' = C \cup {Sent} /\ saves \subseteq Save /\ SavesNumbered
        /\ \A p \in saves : p.id < Sent.id /\ p.id \in Nat
        /\ Sent.id \in Nat
    BY <1>3, AutosavePosts, PostedFacts DEF Save
  <2>2. Sent.to = site /\ ~Sent.served /\ Sent.awaited
    BY DEF Sent
  <2>3. \A p \in saves :
          /\ Cancelled(p, site).id = p.id /\ Cancelled(p, site).to = p.to
          /\ Cancelled(p, site).payload = p.payload /\ Cancelled(p, site).served = p.served
          /\ Cancelled(p, site).awaited => p.awaited /\ p.to # site
    BY <2>1, CancelledFacts
  <2>4. \A r \in saves' : r = Sent \/ \E p \in saves :
          /\ r.id = p.id /\ r.to = p.to /\ r.payload = p.payload /\ r.served = p.served
          /\ r.awaited => p.awaited /\ p.to # site
    BY <2>1, <2>3
  <2>5. AwaitedIsLast'
    <3> SUFFICES ASSUME NEW p \in saves', NEW q \in saves', p.awaited, q.to = p.to
                 PROVE  q.id <= p.id
      BY DEF AwaitedIsLast
    <3>1. CASE p = Sent
      BY <2>1, <2>4, <3>1
    <3>2. CASE p # Sent
      <4>1. q # Sent
        BY <2>2, <2>4, <3>2
      <4> QED
        BY <2>4, <3>2, <4>1 DEF AwaitedIsLast
    <3> QED
      BY <3>1, <3>2
  <2>6. ServedInOrder'
    <3>1. CASE overtaken
      BY <1>1, <3>1 DEF ServedInOrder
    <3>2. CASE ~overtaken
      <4>1. \A p, q \in saves' : p.to = q.to /\ q.id < p.id /\ p.served => q.served
        <5> TAKE p, q \in saves'
        <5>1. CASE q = Sent
          BY <2>1, <2>2, <2>4, <5>1
        <5>2. CASE q # Sent
          BY <2>2, <2>4, <3>2, <5>2 DEF ServedInOrder
        <5> QED
          BY <5>1, <5>2
      <4>2. \A p \in saves' : p.awaited /\ p.served => stored[p.to] = p.payload
        BY <2>2, <2>4, <3>2 DEF ServedInOrder
      <4> QED
        BY <1>1, <4>1, <4>2 DEF ServedInOrder
    <3> QED
      BY <3>1, <3>2
  <2>7. FetchIsFresh'
    <3>1. \A s \in Site : fetch[s].state = "answered" => s # site
      BY DEF FetchIsFresh, Quiet
    <3>2. \A s \in Site : (\A p \in saves : p.to = s => p.served) /\ s # site
            => \A r \in saves' : r.to = s => r.served
      BY <2>2, <2>4
    <3> QED
      BY <1>1, <3>1, <3>2 DEF FetchIsFresh
  <2> QED
    BY <2>5, <2>6, <2>7
<1> QED
  BY <1>2, <1>3

LEMMA ServeSaveOrder ==
  ASSUME TypeInv, LoadInv, OrderInv, NEW p \in saves, ServeSave(p)
  PROVE  OrderInv'
<1> USE DEF OrderInv
<1>1. /\ fetch' = fetch /\ site' = site
      /\ stored' = [stored EXCEPT ![p.to] = p.payload]
      /\ saves' = (saves \ {p}) \cup {Served(p)} /\ ~p.served
      /\ overtaken' = (overtaken \/ \E q \in saves : q.to = p.to /\ q.id < p.id /\ ~q.served)
  BY DEF ServeSave, Served, editor, loading
<1>2. /\ Served(p).id = p.id /\ Served(p).to = p.to /\ Served(p).payload = p.payload
      /\ Served(p).served /\ Served(p).awaited = p.awaited
  BY <1>1, ServedFacts DEF TypeInv, TypeOK
<1>3. \A q \in saves : q.id \in Nat /\ q.to \in Site
  BY DEF TypeInv, TypeOK, Save
<1>4. stored \in [Site -> Design]
  BY DEF TypeInv, TypeOK
<1>5. \A q \in saves : q.id = p.id => q = p
  BY DEF TypeInv, SavesNumbered
<1>6. AwaitedIsLast'
  BY <1>1, <1>2 DEF AwaitedIsLast
<1>7. CASE overtaken'
  BY <1>1, <1>6, <1>7 DEF ServedInOrder, FetchIsFresh
<1>8. CASE ~overtaken'
  <2>1. ~overtaken /\ \A q \in saves : q.to = p.to /\ q.id < p.id => q.served
    BY <1>1, <1>8
  <2>2. \A a, b \in saves' : a.to = b.to /\ b.id < a.id /\ a.served => b.served
    BY <1>1, <1>2, <2>1 DEF ServedInOrder
  <2>3. \A a \in saves' : a.awaited /\ a.served => stored'[a.to] = a.payload
    <3> SUFFICES ASSUME NEW a \in saves', a.awaited, a.served
                 PROVE  stored'[a.to] = a.payload
      OBVIOUS
    <3>1. CASE a = Served(p)
      BY <1>1, <1>2, <1>3, <1>4, <3>1
    <3>2. CASE a # Served(p)
      <4>1. a \in saves /\ a # p /\ stored[a.to] = a.payload
        BY <1>1, <2>1, <3>2 DEF ServedInOrder
      <4>2. a.to # p.to
        <5> SUFFICES ASSUME a.to = p.to PROVE FALSE
          OBVIOUS
        <5>1. p.id <= a.id /\ p.id # a.id
          BY <1>5, <4>1 DEF AwaitedIsLast
        <5>2. p.id < a.id
          BY <1>3, <4>1, <5>1
        <5> QED
          BY <1>1, <2>1, <4>1, <5>2 DEF ServedInOrder
      <4> QED
        BY <1>1, <1>3, <1>4, <4>1, <4>2
    <3> QED
      BY <3>1, <3>2
  <2>4. FetchIsFresh'
    <3>1. \A s \in Site : fetch[s].state = "answered" => p.to # s
      BY <1>1, <2>1 DEF FetchIsFresh
    <3> QED
      BY <1>1, <1>2, <1>3, <1>4, <2>1, <3>1 DEF FetchIsFresh
  <2> QED
    BY <1>6, <2>2, <2>3, <2>4 DEF ServedInOrder
<1> QED
  BY <1>7, <1>8

LEMMA SaveEndsOrder ==
  ASSUME TypeInv, LoadInv, OrderInv, NEW p \in saves, SaveAnswered(p) \/ SaveFails(p)
  PROVE  OrderInv'
<1> USE DEF OrderInv
<1>1. /\ saves' = Renumbered(saves, p)
      /\ fetch' = fetch /\ site' = site /\ stored' = stored /\ overtaken' = overtaken
  BY DEF SaveAnswered, SaveFails, editor, loading, ghosts
<1>2. \A q \in saves : q.id \in Nat
  BY DEF TypeInv, TypeOK, Save
<1>3. \A q \in saves' : q.id \in Nat
  BY <1>1, SaveGone DEF Save
<1>4. \A r \in saves' : \E q \in saves \ {p} : r = Moved(q, p)
  BY <1>1, SaveGone
<1>5. /\ \A q \in saves \ {p} :
           /\ Moved(q, p).to = q.to /\ Moved(q, p).payload = q.payload
           /\ Moved(q, p).served = q.served /\ Moved(q, p).awaited = q.awaited
      /\ \A q, r \in saves \ {p} : Moved(q, p).id < Moved(r, p).id <=> q.id < r.id
  BY <1>1, SaveGone
<1>6. AwaitedIsLast'
  <2> SUFFICES ASSUME NEW a \in saves', NEW b \in saves', a.awaited, b.to = a.to
               PROVE  ~(a.id < b.id)
    BY <1>3 DEF AwaitedIsLast
  <2>1. PICK q \in saves \ {p}, r \in saves \ {p} : a = Moved(q, p) /\ b = Moved(r, p)
    BY <1>4
  <2>2. ~(q.id < r.id)
    BY <1>2, <1>5, <2>1 DEF AwaitedIsLast
  <2> QED
    BY <1>5, <2>1, <2>2
<1>7. ServedInOrder'
  <2>1. CASE overtaken
    BY <1>1, <2>1 DEF ServedInOrder
  <2>2. CASE ~overtaken
    <3>1. ASSUME NEW a \in saves', NEW b \in saves', a.to = b.to, b.id < a.id, a.served
          PROVE  b.served
      <4>1. PICK q \in saves \ {p}, r \in saves \ {p} : a = Moved(q, p) /\ b = Moved(r, p)
        BY <1>4
      <4> QED
        BY <1>5, <2>2, <3>1, <4>1 DEF ServedInOrder
    <3>2. \A a \in saves' : a.awaited /\ a.served => stored[a.to] = a.payload
      BY <1>4, <1>5, <2>2 DEF ServedInOrder
    <3> QED
      BY <1>1, <3>1, <3>2 DEF ServedInOrder
  <2> QED
    BY <2>1, <2>2
<1>8. FetchIsFresh'
  BY <1>1, <1>4, <1>5 DEF FetchIsFresh
<1> QED
  BY <1>6, <1>7, <1>8

LEMMA OrderStep ==
  ASSUME TypeInv, LoadInv, OrderInv, [Next]_vars
  PROVE  OrderInv'
<1>1. ASSUME \/ \E e \in Edit : DrawEdit(e)
             \/ \E c \in Ctrl : StartAdd(c) \/ FinishAdd(c) \/ StartRemove(c)
             \/ FinishRemove \/ RemoveFails
             \/ \E l \in loads : BoardsLoaded(l)
             \/ UNCHANGED vars
      PROVE  OrderInv'
  <2>1. UNCHANGED <<saves, stored, fetch, site, overtaken>>
    BY <1>1 DEF DrawEdit, StartAdd, FinishAdd, StartRemove, FinishRemove, RemoveFails,
       BoardsLoaded, vars, editor, loading, wire, ghosts
  <2> QED
    BY <2>1 DEF OrderInv, AwaitedIsLast, ServedInOrder, FetchIsFresh
<1> QED
  BY <1>1, LoadingOrder, AutosaveOrder, ServeSaveOrder, SaveEndsOrder
  DEF Next, Operator, Browser, Server, Failure
-----------------------------------------------------------------------------
(* The flag.                                                               *)

\* A save that is awaited and carries what is shown.
Carries(p) == p.awaited /\ Current(p)

LEMMA DirtyStep ==
  ASSUME TypeInv, LoadInv, DirtyHasASave, [Next]_vars
  PROVE  DirtyHasASave'
<1> SUFFICES ASSUME dirty', site' # NoSite, ~timer', ~saveFailed', ~crossed', owner' # site'
             PROVE  \E p \in saves' : p.awaited /\ Current(p)'
  BY DEF DirtyHasASave
<1>1. ASSUME UNCHANGED <<site, topology, saves, owner>>,
             dirty' => dirty, timer => timer', saveFailed => saveFailed', crossed => crossed'
      PROVE  \E p \in saves' : p.awaited /\ Current(p)'
  BY <1>1 DEF DirtyHasASave, Current
<1>2. ASSUME NEW s \in Site, Open(s) PROVE \E p \in saves' : p.awaited /\ Current(p)'
  <2>1. CASE owner = s \/ site = s
    <3>1. UNCHANGED <<site, topology, dirty, timer, owner, saves, saveFailed, crossed>>
      BY <1>2, <2>1 DEF Open, loading
    <3> QED
      BY <1>1, <3>1
  <2>2. CASE ~(owner = s \/ site = s)
    BY <1>2, <2>2 DEF Open, Clear
  <2> QED
    BY <2>1, <2>2
<1>3. ASSUME NEW s \in Site, LoadAnswered(s) PROVE \E p \in saves' : p.awaited /\ Current(p)'
  <2> DEFINE taking == {l \in {l \in loads : l.site = s /\ l.step = "fetch"} : l.seq = loadSeq}
  <2>1. owner' = owner /\ saves' = saves /\ saveFailed' = saveFailed /\ crossed' = crossed
    BY <1>3 DEF LoadAnswered, wire, ghosts
  <2>2. CASE taking = {}
    <3>1. site' = site /\ topology' = topology /\ dirty' = dirty /\ timer' = timer
      BY <1>3, <2>2, AnswerReaches
    <3> QED
      BY <1>1, <2>1, <3>1
  <2>3. CASE taking # {}
    <3>1. site' = s /\ owner = s
      BY <1>3, <2>3, AnswerReaches
    <3> QED
      BY <2>1, <3>1
  <2> QED
    BY <2>2, <2>3
<1>4. ASSUME NEW s \in Site, LoadFails(s) PROVE \E p \in saves' : p.awaited /\ Current(p)'
  <2>1. UNCHANGED <<site, topology, dirty, timer, saves, saveFailed, crossed>>
    BY <1>4 DEF LoadFails, editor, ghosts
  <2>2. CASE owner' = owner
    BY <1>1, <2>1, <2>2
  <2>3. CASE owner' # owner
    <3>1. \E l \in loads : l.site = s /\ l.step = "fetch" /\ l.seq = loadSeq
      BY <1>4, <2>3 DEF LoadFails
    <3>2. site = NoSite
      BY <3>1 DEF LoadInv, LoadsOrdered
    <3> QED
      BY <2>1, <3>2
  <2> QED
    BY <2>2, <2>3
<1>5. ASSUME NEW l \in loads, BoardsLoaded(l) PROVE \E p \in saves' : p.awaited /\ Current(p)'
  <2>1. UNCHANGED <<site, topology, timer, saves, saveFailed, crossed>>
    BY <1>5 DEF BoardsLoaded, wire, ghosts
  <2>2. dirty' = dirty /\ owner' = owner
    BY <1>5 DEF BoardsLoaded, Superseded
  <2> QED
    BY <1>1, <2>1, <2>2
<1>6. CASE Autosave
  <2>1. site' = site /\ topology' = topology /\ owner' = owner /\ crossed' = crossed
    BY <1>6 DEF Autosave, loading, ghosts
  <2>2. topology # NoDesign
    BY <2>1 DEF TypeInv, TypeOK
  <2>3. Sent \in saves' /\ Sent.awaited /\ Sent.to = site /\ Sent.payload = topology
    BY <1>6, <2>1, <2>2, AutosavePosts DEF Sent
  <2> QED
    BY <2>1, <2>3 DEF Current
<1>7. ASSUME NEW p \in saves, ServeSave(p) PROVE \E q \in saves' : q.awaited /\ Current(q)'
  <2>1. /\ UNCHANGED <<site, topology, dirty, timer, owner, saveFailed, crossed>>
        /\ saves' = (saves \ {p}) \cup {Served(p)} /\ ~p.served
    BY <1>7 DEF ServeSave, Served, editor, loading
  <2>2. PICK q \in saves : q.awaited /\ Current(q)
    BY <2>1 DEF DirtyHasASave
  <2>3. Served(p).to = p.to /\ Served(p).payload = p.payload /\ Served(p).awaited = p.awaited
    BY <2>1, ServedFacts DEF TypeInv, TypeOK
  <2> QED
    BY <2>1, <2>2, <2>3 DEF Current
<1>8. ASSUME NEW p \in saves, SaveAnswered(p) \/ SaveFails(p)
      PROVE  \E q \in saves' : q.awaited /\ Current(q)'
  <2>1. /\ UNCHANGED <<site, topology, timer, owner, crossed>>
        /\ saves' = Renumbered(saves, p)
        /\ (saveFailed => saveFailed') /\ (dirty' => dirty)
    <3>1. CASE SaveAnswered(p)
      <4>1. saveFailed' = saveFailed /\ (dirty' = FALSE \/ dirty' = dirty)
        BY <3>1 DEF SaveAnswered
      <4>2. UNCHANGED <<site, topology, timer, owner, crossed>> /\ saves' = Renumbered(saves, p)
        BY <3>1 DEF SaveAnswered, loading, ghosts
      <4> QED
        BY <4>1, <4>2
    <3>2. CASE SaveFails(p)
      <4>1. dirty' = dirty /\ (saveFailed => saveFailed')
        BY <3>2 DEF SaveFails, editor
      <4> QED
        BY <3>2, <4>1 DEF SaveFails, editor, loading
    <3> QED
      BY <1>8, <3>1, <3>2
  <2>2. PICK q \in saves : q.awaited /\ Current(q)
    BY <2>1 DEF DirtyHasASave
  <2>3. q # p
    BY <1>8, <2>1, <2>2 DEF SaveAnswered, SaveFails, Current
  <2>4. /\ Moved(q, p) \in saves' /\ Moved(q, p).to = q.to
        /\ Moved(q, p).payload = q.payload /\ Moved(q, p).awaited = q.awaited
    BY <2>1, <2>3, SaveGone
  <2> QED
    BY <2>1, <2>2, <2>4 DEF Current
<1>9. ASSUME \/ \E e \in Edit : DrawEdit(e)
             \/ \E c \in Ctrl : FinishAdd(c)
             \/ FinishRemove
      PROVE  FALSE
  BY <1>9 DEF DrawEdit, FinishAdd, FinishRemove, MarkDirty
<1>10. ASSUME \/ \E c \in Ctrl : StartAdd(c) \/ StartRemove(c)
              \/ RemoveFails \/ UNCHANGED vars
              \/ \E s \in Site : ServeLoad(s)
       PROVE  \E p \in saves' : p.awaited /\ Current(p)'
  <2>1. UNCHANGED <<site, topology, dirty, timer, owner, saves, saveFailed, crossed>>
    BY <1>10 DEF StartAdd, StartRemove, RemoveFails, ServeLoad, vars, editor, loading, wire, ghosts
  <2> QED
    BY <1>1, <2>1
<1> QED
  BY <1>2, <1>3, <1>4, <1>5, <1>6, <1>7, <1>8, <1>9, <1>10
  DEF Next, Operator, Browser, Server, Failure

\* Only the answer to a save and the end of a load clear the flag of a site that
\* stays; the answer is of a save that the server stores.
LEMMA AnswerStep ==
  ASSUME TypeInv, LoadInv, OrderInv, [Next]_vars, GoesClean, owner = NoSite, ~overtaken
  PROVE  stored[site] = topology
<1>1. dirty /\ ~dirty' /\ site # NoSite /\ site' = site
  BY DEF GoesClean
<1>2. ASSUME NEW p \in saves, SaveAnswered(p) PROVE stored[site] = topology
  <2>1. p.awaited /\ p.served /\ site = p.to /\ topology = p.payload
    BY <1>1, <1>2 DEF SaveAnswered, Current
  <2> QED
    BY <2>1 DEF OrderInv, ServedInOrder
<1>3. ASSUME NEW s \in Site, Open(s) PROVE FALSE
  BY <1>1, <1>3 DEF Open, Clear
<1>4. ASSUME NEW s \in Site, LoadAnswered(s) PROVE FALSE
  BY <1>1, <1>4, WorkspaceAssumption, AnswerReaches DEF LoadAnswered, MarkDirty
<1>5. ASSUME NEW l \in loads, BoardsLoaded(l) PROVE FALSE
  <2>1. l.seq = loadSeq /\ l.site \in Site
    BY <1>1, <1>5 DEF BoardsLoaded, Superseded, TypeInv, TypeOK, Load
  <2> QED
    BY <2>1, WorkspaceAssumption DEF LoadInv, LoadsOrdered
<1>6. ASSUME \/ \E e \in Edit : DrawEdit(e)
             \/ \E c \in Ctrl : FinishAdd(c)
             \/ FinishRemove
      PROVE  FALSE
  BY <1>1, <1>6 DEF DrawEdit, FinishAdd, FinishRemove, MarkDirty
<1>7. ASSUME \/ \E c \in Ctrl : StartAdd(c) \/ StartRemove(c)
             \/ RemoveFails \/ Autosave \/ UNCHANGED vars
             \/ \E s \in Site : ServeLoad(s) \/ LoadFails(s)
             \/ \E p \in saves : ServeSave(p) \/ SaveFails(p)
      PROVE  FALSE
  <2>1. dirty' = dirty
    BY <1>7 DEF StartAdd, StartRemove, RemoveFails, Autosave, ServeLoad, LoadFails, ServeSave,
       SaveFails, vars, editor
  <2> QED
    BY <1>1, <2>1
<1> QED
  BY <1>2, <1>3, <1>4, <1>5, <1>6, <1>7 DEF Next, Operator, Browser, Server, Failure

-----------------------------------------------------------------------------
(* What was drawn.                                                         *)

\* A removal that has been answered late, and a server out of order, stay on record.
LEMMA ExcusesStay ==
  ASSUME TypeInv, [Next]_vars
  PROVE  (crossed => crossed') /\ (overtaken => overtaken')
<1>1. ASSUME \/ \E s \in Site : Open(s) \/ LoadAnswered(s) \/ LoadFails(s)
             \/ \E e \in Edit : DrawEdit(e)
             \/ \E c \in Ctrl : StartAdd(c) \/ FinishAdd(c) \/ StartRemove(c)
             \/ \E l \in loads : BoardsLoaded(l)
             \/ RemoveFails \/ Autosave \/ UNCHANGED vars
             \/ \E p \in saves : SaveAnswered(p) \/ SaveFails(p)
      PROVE  crossed' = crossed /\ overtaken' = overtaken
  BY <1>1 DEF Open, LoadAnswered, LoadFails, DrawEdit, StartAdd, FinishAdd, StartRemove,
     BoardsLoaded, RemoveFails, Autosave, SaveAnswered, SaveFails, vars, ghosts
<1>2. CASE FinishRemove
  BY <1>2 DEF FinishRemove
<1>3. ASSUME NEW s \in Site, ServeLoad(s) PROVE crossed' = crossed /\ (overtaken => overtaken')
  BY <1>3 DEF ServeLoad
<1>4. ASSUME NEW p \in saves, ServeSave(p) PROVE crossed' = crossed /\ (overtaken => overtaken')
  BY <1>4 DEF ServeSave
<1> QED
  BY <1>1, <1>2, <1>3, <1>4 DEF Next, Operator, Browser, Server, Failure

\* The steps that move no part.
LEMMA IdleKeeps ==
  ASSUME TypeInv, Kept, ~crossed,
         UNCHANGED <<site, topology, stored, saves, madeFor, abandoned>>,
         site = NoSite \/ ((timer => timer') /\ (saveFailed => saveFailed')),
         NewIsBlank'
  PROVE  Kept'
<1>1. ShownIsWhole'
  BY DEF Kept, ShownIsWhole, Due
<1>2. AwayIsSafe'
  BY DEF Kept, AwayIsSafe, Due
<1>3. SavesGrow'
  BY DEF Kept, SavesGrow, Due
<1> QED
  BY <1>1, <1>2, <1>3 DEF Kept

LEMMA LoadingKeeps ==
  ASSUME TypeInv, LoadInv, OrderInv, Kept, ~crossed, ~overtaken, ~overtaken',
         \/ \E s \in Site : Open(s) \/ ServeLoad(s) \/ LoadAnswered(s) \/ LoadFails(s)
         \/ \E l \in loads : BoardsLoaded(l)
  PROVE  Kept'
<1>1. /\ stored' = stored /\ saves' = saves /\ madeFor' = madeFor
      /\ deregistered' = deregistered /\ adding' = adding /\ removal' = removal
  <2>1. ASSUME NEW s \in Site, Open(s) \/ ServeLoad(s) \/ LoadAnswered(s) \/ LoadFails(s)
        PROVE  /\ stored' = stored /\ saves' = saves /\ madeFor' = madeFor
               /\ deregistered' = deregistered /\ adding' = adding /\ removal' = removal
    BY <2>1 DEF Open, ServeLoad, LoadAnswered, LoadFails, wire, ops, ghosts
  <2>2. ASSUME NEW l \in loads, BoardsLoaded(l)
        PROVE  /\ stored' = stored /\ saves' = saves /\ madeFor' = madeFor
               /\ deregistered' = deregistered /\ adding' = adding /\ removal' = removal
    BY <2>2 DEF BoardsLoaded, wire, ops, ghosts
  <2> QED
    BY <2>1, <2>2
<1>2. ASSUME UNCHANGED <<site, topology, abandoned, timer, saveFailed>> PROVE Kept'
  <2>1. NewIsBlank'
    BY <1>1, <1>2 DEF Kept, NewIsBlank, New, Blank
  <2> QED
    BY <1>1, <1>2, <2>1, IdleKeeps
<1>3. ASSUME NEW s \in Site, Open(s) PROVE Kept'
  <2>1. CASE owner = s \/ site = s
    BY <1>2, <1>3, <2>1 DEF Open
  <2>2. CASE ~(owner = s \/ site = s)
    <3>1. /\ site' = NoSite /\ topology' = NoDesign
          /\ abandoned' = abandoned \cup Unsaved
      BY <1>3, <2>2 DEF Open, Clear
    <3>2. \A x, z : Due(x, z)' => Due(x, z) /\ x \notin Unsaved
      BY <1>1, <3>1 DEF Due
    <3>3. NewIsBlank'
      BY <1>1, <3>1 DEF Kept, NewIsBlank, New, Blank
    <3>4. ShownIsWhole'
      BY <3>1 DEF ShownIsWhole
    <3>5. AwayIsSafe'
      <4> SUFFICES ASSUME NEW x \in Part, NEW z \in Site, Due(x, z)'
                   PROVE  \/ \E q \in saves : q.to = z /\ ~q.served /\ x \in q.payload.parts
                          \/ x \in stored[z].parts
        BY <1>1 DEF AwayIsSafe
      <4>1. CASE z # site
        BY <3>2, <4>1 DEF Kept, AwayIsSafe
      <4>2. CASE z = site
        <5>1. topology # NoDesign /\ site # NoSite /\ x \in topology.parts
          BY <3>2, <4>2, WorkspaceAssumption DEF TypeInv, TypeOK, Kept, ShownIsWhole
        <5>2. ~timer /\ ~saveFailed
          BY <3>2, <5>1 DEF Unsaved
        <5> QED
          BY <4>2, <5>1, <5>2 DEF Kept, ShownIsWhole
      <4> QED
        BY <4>1, <4>2
    <3>6. SavesGrow'
      BY <1>1, <3>2 DEF Kept, SavesGrow
    <3> QED
      BY <3>3, <3>4, <3>5, <3>6 DEF Kept
  <2> QED
    BY <2>1, <2>2
<1>4. ASSUME NEW s \in Site, LoadAnswered(s) PROVE Kept'
  <2> DEFINE taking == {l \in {l \in loads : l.site = s /\ l.step = "fetch"} : l.seq = loadSeq}
  <2>1. abandoned' = abandoned /\ saveFailed' = saveFailed
    BY <1>4 DEF LoadAnswered, wire, ghosts
  <2>2. CASE taking = {}
    <3>1. site' = site /\ topology' = topology /\ timer' = timer
      BY <1>4, <2>2, AnswerReaches
    <3> QED
      BY <1>2, <2>1, <3>1
  <2>3. CASE taking # {}
    <3>1. /\ site' = s /\ site = NoSite
          /\ topology' = [fetch[s].draft EXCEPT !.old = FALSE]
      BY <1>4, <2>3, AnswerReaches
    <3>2. /\ fetch[s].draft = stored[s] /\ stored[s] \in Design
          /\ \A q \in saves : q.to = s => q.served
      BY <1>4 DEF LoadAnswered, OrderInv, FetchIsFresh, TypeInv, TypeOK
    <3>3. topology'.parts = stored[s].parts
      BY <3>1, <3>2 DEF Design
    <3>4. NewIsBlank'
      BY <1>1, <3>3 DEF Kept, NewIsBlank, New, Blank
    <3>5. ShownIsWhole'
      <4>1. \A x \in Part : Due(x, s) => x \in stored[s].parts
        BY <3>1, <3>2, WorkspaceAssumption DEF Kept, AwayIsSafe
      <4> QED
        BY <1>1, <2>1, <3>1, <3>2, <3>3, <4>1 DEF ShownIsWhole, Due
    <3>6. AwayIsSafe'
      BY <1>1, <2>1, <3>1, WorkspaceAssumption DEF Kept, AwayIsSafe, Due
    <3>7. SavesGrow'
      BY <1>1, <2>1 DEF Kept, SavesGrow, Due
    <3> QED
      BY <3>4, <3>5, <3>6, <3>7 DEF Kept
  <2> QED
    BY <2>2, <2>3
<1>5. ASSUME NEW s \in Site, ServeLoad(s) \/ LoadFails(s) PROVE Kept'
  BY <1>2, <1>5 DEF ServeLoad, LoadFails, editor, wire, ghosts
<1>6. ASSUME NEW l \in loads, BoardsLoaded(l) PROVE Kept'
  BY <1>2, <1>6 DEF BoardsLoaded, wire, ghosts
<1> QED
  BY <1>3, <1>4, <1>5, <1>6

\* A part that is new is nobody's, and joins what is shown.
LEMMA DrawingKeeps ==
  ASSUME TypeInv, Kept, ~crossed, NEW x \in Part, New(x), site # NoSite,
         topology' = [topology EXCEPT !.parts = @ \cup {x}],
         madeFor' = [madeFor EXCEPT ![x] = site],
         timer', UNCHANGED <<site, stored, saves, abandoned, deregistered>>,
         \A c \in adding' : New(c) /\ c # x,
         removal' = removal
  PROVE  Kept'
<1>1. /\ topology # NoDesign /\ topology \in Design /\ site \in Site
      /\ madeFor \in [Part -> Site \cup {NoSite}]
  BY DEF TypeInv, TypeOK
<1>2. /\ madeFor'[x] = site /\ site # NoSite
      /\ \A y : y # x => madeFor'[y] = madeFor[y]
  BY <1>1
<1>3. topology'.parts = topology.parts \cup {x}
  BY <1>1 DEF Design
<1>4. Blank(x)
  BY DEF Kept, NewIsBlank
<1>5. \A y \in Part : \A s : y # x => (Due(y, s)' <=> Due(y, s))
  BY <1>2 DEF Due
<1>6. NewIsBlank'
  <2>1. \A y \in Part : New(y)' => New(y) /\ y # x
    BY <1>2 DEF New
  <2>2. \A y \in Part : New(y)' => Blank(y)'
    BY <1>1, <1>3, <2>1 DEF Kept, NewIsBlank, Blank
  <2>3. \A c \in adding' : New(c)'
    BY <1>2 DEF New
  <2>4. removal' # NoRemoval => ~New(removal.ctrl)'
    BY <1>2 DEF Kept, NewIsBlank, New
  <2> QED
    BY <2>2, <2>3, <2>4 DEF NewIsBlank
<1>7. ShownIsWhole'
  BY <1>1, <1>3, <1>5 DEF Kept, ShownIsWhole
<1>8. AwayIsSafe'
  <2>1. \A y \in Part, s \in Site : Due(y, s)' /\ s # site => Due(y, s)
    BY <1>2, <1>5 DEF Due
  <2> QED
    BY <2>1 DEF Kept, AwayIsSafe
<1>9. SavesGrow'
  BY <1>4, <1>5 DEF Kept, SavesGrow, Blank, TypeInv, TypeOK, Save
<1> QED
  BY <1>6, <1>7, <1>8, <1>9 DEF Kept

LEMMA EditingKeeps ==
  ASSUME TypeInv, Kept, ~crossed,
         \/ \E e \in Edit : DrawEdit(e)
         \/ \E c \in Ctrl : StartAdd(c) \/ FinishAdd(c) \/ StartRemove(c)
  PROVE  Kept'
<1>1. (topology = NoDesign) = (site = NoSite)
  BY DEF TypeInv, TypeOK
<1>2. ASSUME NEW e \in Edit, DrawEdit(e) PROVE Kept'
  <2>1. e \in Part /\ e \notin Ctrl
    BY WorkspaceAssumption DEF Part
  <2>2. New(e)
    BY <1>2, <2>1 DEF New, DrawEdit, TypeInv, TypeOK
  <2>3. \A c \in adding : New(c) /\ c # e
    BY <2>1 DEF Kept, NewIsBlank, TypeInv, TypeOK
  <2>4. /\ topology' = [topology EXCEPT !.parts = @ \cup {e}]
        /\ madeFor' = [madeFor EXCEPT ![e] = site] /\ timer' /\ site # NoSite
        /\ UNCHANGED <<site, stored, saves, abandoned, deregistered>>
        /\ adding' = adding /\ removal' = removal
    BY <1>1, <1>2 DEF DrawEdit, MarkDirty, wire, ops
  <2> QED
    BY <2>1, <2>2, <2>3, <2>4, DrawingKeeps
<1>3. ASSUME NEW c \in Ctrl, StartAdd(c) PROVE Kept'
  <2>1. UNCHANGED <<site, topology, stored, saves, madeFor, abandoned, timer, saveFailed>>
    BY <1>3 DEF StartAdd, editor, wire, ghosts
  <2>2. New(c) /\ adding' = {c} /\ deregistered' = deregistered /\ removal' = removal
    BY <1>3 DEF StartAdd, New, wire
  <2>3. NewIsBlank'
    BY <2>1, <2>2 DEF Kept, NewIsBlank, New, Blank
  <2> QED
    BY <2>1, <2>3, IdleKeeps
<1>4. ASSUME NEW c \in Ctrl, FinishAdd(c) PROVE Kept'
  <2>1. c \in Part /\ New(c) /\ adding' = {} /\ removal' = removal
    BY <1>4 DEF FinishAdd, Kept, NewIsBlank, Part
  <2>2. timer' /\ UNCHANGED <<site, stored, saves, abandoned, deregistered, saveFailed>>
    BY <1>4 DEF FinishAdd, MarkDirty, wire
  <2>3. CASE topology = NoDesign
    <3>1. topology' = topology /\ madeFor' = madeFor /\ site = NoSite
      BY <1>1, <1>4, <2>3 DEF FinishAdd
    <3>2. NewIsBlank'
      BY <2>1, <2>2, <3>1 DEF Kept, NewIsBlank, New, Blank
    <3> QED
      BY <2>2, <3>1, <3>2, IdleKeeps
  <2>4. CASE topology # NoDesign
    <3>1. /\ topology' = [topology EXCEPT !.parts = @ \cup {c}]
          /\ madeFor' = [madeFor EXCEPT ![c] = site] /\ site # NoSite
      BY <1>1, <1>4, <2>4 DEF FinishAdd
    <3> QED
      BY <2>1, <2>2, <3>1, DrawingKeeps
  <2> QED
    BY <2>3, <2>4
<1>5. ASSUME NEW c \in Ctrl, StartRemove(c) PROVE Kept'
  <2>1. /\ UNCHANGED <<site, topology, stored, saves, madeFor, abandoned, timer, saveFailed>>
        /\ adding' = adding /\ deregistered' = deregistered
    BY <1>5 DEF StartRemove, editor, wire, ghosts
  <2>2. removal'.ctrl = c /\ topology # NoDesign /\ c \in topology.parts /\ c \in Part
    BY <1>5 DEF StartRemove, Part
  <2>3. ~New(c)
    BY <2>2 DEF Kept, NewIsBlank, Blank
  <2>4. NewIsBlank'
    BY <2>1, <2>2, <2>3 DEF Kept, NewIsBlank, New, Blank
  <2> QED
    BY <2>1, <2>4, IdleKeeps
<1> QED
  BY <1>2, <1>3, <1>4, <1>5

LEMMA RemovalKeeps ==
  ASSUME TypeInv, Kept, ~crossed, ~crossed', FinishRemove \/ RemoveFails
  PROVE  Kept'
<1>1. CASE FinishRemove
  <2> DEFINE c == removal.ctrl
  <2>1. /\ topology = removal.snapshot /\ c \in Ctrl /\ topology \in Design
        /\ topology # NoDesign
    BY <1>1, NoDesignAssumption DEF FinishRemove, TypeInv, TypeOK
  <2>2. /\ topology' = [topology EXCEPT !.parts = @ \ {c}] /\ removal' = NoRemoval
        /\ timer' /\ deregistered' = deregistered \cup {c} /\ adding' = adding
        /\ UNCHANGED <<site, stored, saves, abandoned>>
    BY <1>1, <2>1 DEF FinishRemove, MarkDirty
  <2>3. madeFor' = [madeFor EXCEPT ![c] = NoSite] /\ madeFor \in [Part -> Site \cup {NoSite}]
    BY <1>1 DEF FinishRemove, TypeInv, TypeOK
  <2>4. ~New(c) /\ c \in Part
    BY <1>1, <2>1 DEF Kept, NewIsBlank, FinishRemove, Part
  <2> HIDE DEF c
  <2>5. topology'.parts = topology.parts \ {c}
    BY <2>1, <2>2 DEF Design
  <2>6. \A x \in Part : New(x)' => New(x) /\ x # c
    BY <2>2, <2>3, <2>4 DEF New
  <2>7. NewIsBlank'
    <3>1. \A x \in Part : New(x)' => Blank(x)'
      BY <2>1, <2>2, <2>5, <2>6 DEF Kept, NewIsBlank, Blank
    <3>2. \A a \in adding : New(a)'
      BY <2>2, <2>3, <2>4 DEF Kept, NewIsBlank, New
    <3> QED
      BY <2>2, <3>1, <3>2 DEF NewIsBlank
  <2>8. \A x \in Part, s \in Site : Due(x, s)' => Due(x, s) /\ x # c
    BY <2>2, <2>3, <2>4, WorkspaceAssumption DEF Due
  <2>9. ShownIsWhole'
    BY <2>2, <2>5, <2>8 DEF Kept, ShownIsWhole, TypeInv, TypeOK
  <2>10. AwayIsSafe'
    BY <2>2, <2>8 DEF Kept, AwayIsSafe
  <2>11. SavesGrow'
    BY <2>2, <2>8 DEF Kept, SavesGrow, TypeInv, TypeOK, Save
  <2> QED
    BY <2>7, <2>9, <2>10, <2>11 DEF Kept
<1>2. CASE RemoveFails
  <2>1. /\ UNCHANGED <<site, topology, stored, saves, madeFor, abandoned, timer, saveFailed>>
        /\ adding' = adding /\ removal' = NoRemoval /\ removal # NoRemoval
        /\ deregistered' \in {deregistered, deregistered \cup {removal.ctrl}}
    BY <1>2 DEF RemoveFails, editor, ghosts
  <2>2. NewIsBlank'
    BY <2>1 DEF Kept, NewIsBlank, New, Blank
  <2> QED
    BY <2>1, <2>2, IdleKeeps
<1> QED
  BY <1>1, <1>2

LEMMA AutosaveKeeps ==
  ASSUME TypeInv, OrderInv, Kept, ~crossed, ~overtaken, Autosave
  PROVE  Kept'
<1>1. /\ UNCHANGED <<site, topology, stored, madeFor, abandoned, deregistered>>
      /\ adding' = adding /\ removal' = removal
  BY DEF Autosave, ops, ghosts
<1>2. CASE site = NoSite \/ topology = NoDesign
  <2>1. saves' = saves /\ site = NoSite
    BY <1>2 DEF Autosave, TypeInv, TypeOK
  <2>2. NewIsBlank'
    BY <1>1, <2>1 DEF Kept, NewIsBlank, New, Blank
  <2> QED
    BY <1>1, <2>1, <2>2, IdleKeeps
<1>3. CASE site # NoSite /\ topology # NoDesign
  <2>1. /\ saves' = {Cancelled(p, site) : p \in saves} \cup {Sent} /\ saves \subseteq Save
        /\ SavesNumbered /\ site \in Site
    BY <1>3, AutosavePosts
  <2>2. \A p \in saves : p.id < Sent.id /\ p.id \in Nat
    BY <1>3, AutosavePosts, PostedFacts DEF Save
  <2>3. \A p \in saves :
          /\ Cancelled(p, site).id = p.id /\ Cancelled(p, site).to = p.to
          /\ Cancelled(p, site).payload = p.payload /\ Cancelled(p, site).served = p.served
    BY <2>1, CancelledFacts
  <2>4. /\ Sent \in saves' /\ Sent.to = site /\ Sent.payload = topology
        /\ ~Sent.served /\ Sent.awaited
    BY <2>1 DEF Sent
  <2>5. /\ \A p \in saves : Cancelled(p, site) \in saves'
        /\ \A r \in saves' : r = Sent \/ \E p \in saves : r = Cancelled(p, site)
    BY <2>1
  <2> HIDE DEF Sent
  <2>6. Sent.id \in Nat
    BY <1>3, AutosavePosts, PostedFacts DEF Save
  <2>7. \A x, s : Due(x, s)' <=> Due(x, s)
    BY <1>1 DEF Due
  <2>8. NewIsBlank'
    <3>1. \A x \in Part : New(x) => Blank(x)'
      BY <1>1, <1>3, <2>3, <2>4, <2>5 DEF Kept, NewIsBlank, Blank
    <3> QED
      BY <1>1, <3>1 DEF Kept, NewIsBlank, New
  <2>9. ShownIsWhole'
    BY <1>1, <2>4, <2>7 DEF Kept, ShownIsWhole
  <2>10. AwayIsSafe'
    BY <1>1, <2>3, <2>5, <2>7 DEF Kept, AwayIsSafe
  <2>11. SavesGrow'
    <3> SUFFICES ASSUME NEW q \in saves', NEW x \in Part, ~q.served, Due(x, q.to)
                 PROVE  /\ x \in stored[q.to].parts => x \in q.payload.parts
                        /\ \A p \in saves' : p.to = q.to /\ ~p.served /\ p.id < q.id
                                             /\ x \in p.payload.parts => x \in q.payload.parts
      BY <1>1, <2>7 DEF SavesGrow
    <3>1. CASE q = Sent
      BY <1>3, <2>4, <3>1 DEF Kept, ShownIsWhole
    <3>2. ASSUME NEW q0 \in saves, q = Cancelled(q0, site)
          PROVE  /\ x \in stored[q.to].parts => x \in q.payload.parts
                 /\ \A p \in saves' : p.to = q.to /\ ~p.served /\ p.id < q.id
                                      /\ x \in p.payload.parts => x \in q.payload.parts
      <4>1. q.id = q0.id /\ q.to = q0.to /\ q.payload = q0.payload /\ q.served = q0.served
        BY <2>3, <3>2
      <4>2. x \in stored[q.to].parts => x \in q.payload.parts
        BY <4>1 DEF Kept, SavesGrow
      <4>3. ASSUME NEW p \in saves', p.to = q.to, ~p.served, p.id < q.id, x \in p.payload.parts
            PROVE  x \in q.payload.parts
        <5>1. p # Sent
          BY <2>2, <2>6, <4>1, <4>3
        <5>2. PICK p0 \in saves : p = Cancelled(p0, site)
          BY <2>5, <5>1
        <5>3. p.id = p0.id /\ p.to = p0.to /\ p.payload = p0.payload /\ p.served = p0.served
          BY <2>3, <5>2
        <5> QED
          BY <4>1, <4>3, <5>3 DEF Kept, SavesGrow
      <4> QED
        BY <4>2, <4>3
    <3> QED
      BY <2>5, <3>1, <3>2
  <2> QED
    BY <2>8, <2>9, <2>10, <2>11 DEF Kept
<1> QED
  BY <1>2, <1>3

LEMMA ServeSaveKeeps ==
  ASSUME TypeInv, OrderInv, Kept, ~crossed, ~overtaken, NEW p \in saves, ServeSave(p),
         ~overtaken'
  PROVE  Kept'
<1>1. /\ stored' = [stored EXCEPT ![p.to] = p.payload]
      /\ saves' = (saves \ {p}) \cup {Served(p)} /\ ~p.served
      /\ overtaken' = (overtaken \/ \E q \in saves : q.to = p.to /\ q.id < p.id /\ ~q.served)
  BY DEF ServeSave, Served
<1>2. /\ UNCHANGED <<site, topology, timer, saveFailed, madeFor, abandoned, deregistered>>
      /\ adding' = adding /\ removal' = removal
  BY DEF ServeSave, editor, ops
<1>3. /\ Served(p).to = p.to /\ Served(p).payload = p.payload /\ Served(p).served
      /\ Served(p).awaited = p.awaited
  BY <1>1, ServedFacts DEF TypeInv, TypeOK
<1>4. /\ p.to \in Site /\ stored'[p.to] = p.payload
      /\ \A s \in Site : s # p.to => stored'[s] = stored[s]
  BY <1>1 DEF TypeInv, TypeOK, Save
<1>5. \A q \in saves : q.to \in Site /\ q.id \in Nat /\ (q.id = p.id => q = p)
  BY DEF TypeInv, TypeOK, SavesNumbered, Save
<1>6. \A q \in saves : q.to = p.to /\ q # p /\ ~q.served => p.id < q.id
  <2>1. ~ \E q \in saves : q.to = p.to /\ q.id < p.id /\ ~q.served
    BY Zenon, <1>1
  <2>2. ASSUME NEW q \in saves, q.to = p.to, q # p, ~q.served
        PROVE  p.id < q.id
    <3>1. ~(q.id < p.id)
      BY <2>1, <2>2
    <3>2. q.id \in Nat /\ p.id \in Nat /\ q.id # p.id
      BY <1>5, <2>2
    <3> QED
      BY <3>1, <3>2
  <2> QED
    BY <2>2
<1>7. \A x : \A s : Due(x, s)' <=> Due(x, s)
  BY <1>2 DEF Due
<1>8. \A q \in saves : q # p => q \in saves'
  BY <1>1
<1>9. \A q \in saves' : ~q.served => q \in saves /\ q # p
  BY <1>1, <1>3
<1> HIDE DEF Served
<1>10. NewIsBlank'
  <2>1. \A x \in Part : New(x) => Blank(x)'
    BY <1>1, <1>2, <1>3, <1>4 DEF Kept, NewIsBlank, Blank
  <2> QED
    BY <1>2, <2>1 DEF Kept, NewIsBlank, New
<1>11. ShownIsWhole'
  <2> SUFFICES ASSUME site # NoSite, ~timer, ~saveFailed
               PROVE  \/ \E q \in saves' : /\ q.awaited /\ q.to = site /\ ~q.served
                                           /\ topology.parts \subseteq q.payload.parts
                      \/ /\ topology.parts \subseteq stored'[site].parts
                         /\ \A q \in saves' : q.to = site => q.served
    BY <1>2, <1>7 DEF Kept, ShownIsWhole
  <2>1. ASSUME NEW q \in saves, q.awaited, q.to = site, ~q.served,
               topology.parts \subseteq q.payload.parts, q # p
        PROVE  q \in saves'
    BY <1>8, <2>1
  <2>2. CASE /\ p.awaited /\ p.to = site
             /\ topology.parts \subseteq p.payload.parts
    <3>1. \A q \in saves : q.to = site => q.id <= p.id
      BY <2>2 DEF OrderInv, AwaitedIsLast
    <3>2. \A q \in saves' : q.to = site => q.served
      BY <1>5, <1>6, <1>9, <2>2, <3>1
    <3> QED
      BY <1>4, <2>2, <3>2
  <2>3. CASE /\ topology.parts \subseteq stored[site].parts
             /\ \A q \in saves : q.to = site => q.served
    <3>1. p.to # site
      BY <1>1, <2>3
    <3>2. stored'[site] = stored[site]
      BY <1>4, <3>1 DEF TypeInv, TypeOK
    <3> QED
      BY <1>9, <2>3, <3>2
  <2> QED
    BY <2>1, <2>2, <2>3 DEF Kept, ShownIsWhole
<1>12. AwayIsSafe'
  <2> SUFFICES ASSUME NEW x \in Part, NEW s \in Site, Due(x, s), s # site
               PROVE  \/ \E q \in saves' : q.to = s /\ ~q.served /\ x \in q.payload.parts
                      \/ x \in stored'[s].parts
    BY <1>2, <1>7 DEF AwayIsSafe
  <2>1. CASE x \in stored[s].parts
    <3>1. p.to = s => x \in p.payload.parts
      BY <1>1, <2>1 DEF Kept, SavesGrow
    <3> QED
      BY <1>4, <2>1, <3>1
  <2>2. ASSUME NEW q \in saves, q.to = s, ~q.served, x \in q.payload.parts
        PROVE  \/ \E r \in saves' : r.to = s /\ ~r.served /\ x \in r.payload.parts
               \/ x \in stored'[s].parts
    BY <1>4, <1>8, <2>2
  <2> QED
    BY <2>1, <2>2 DEF Kept, AwayIsSafe
<1>13. SavesGrow'
  <2> SUFFICES ASSUME NEW q \in saves', NEW x \in Part, ~q.served, Due(x, q.to)
               PROVE  /\ x \in stored'[q.to].parts => x \in q.payload.parts
                      /\ \A r \in saves' : r.to = q.to /\ ~r.served /\ r.id < q.id
                                           /\ x \in r.payload.parts => x \in q.payload.parts
    BY <1>7 DEF SavesGrow
  <2>1. q \in saves /\ q # p
    BY <1>9
  <2>2. x \in stored'[q.to].parts => x \in q.payload.parts
    <3>1. CASE q.to = p.to
      BY <1>1, <1>4, <1>6, <2>1, <3>1 DEF Kept, SavesGrow
    <3>2. CASE q.to # p.to
      BY <1>4, <1>5, <2>1, <3>2 DEF Kept, SavesGrow
    <3> QED
      BY <3>1, <3>2
  <2> QED
    BY <1>9, <2>1, <2>2 DEF Kept, SavesGrow
<1> QED
  BY <1>10, <1>11, <1>12, <1>13 DEF Kept

LEMMA SaveEndsKeeps ==
  ASSUME TypeInv, OrderInv, Kept, ~crossed, ~overtaken, NEW p \in saves,
         SaveAnswered(p) \/ SaveFails(p)
  PROVE  Kept'
<1>1. /\ saves' = Renumbered(saves, p)
      /\ UNCHANGED <<site, topology, timer, stored, madeFor, deregistered>>
      /\ adding' = adding /\ removal' = removal
  BY DEF SaveAnswered, SaveFails, editor, ops, ghosts
<1>2. /\ saveFailed => saveFailed'
      /\ ~p.served /\ p.awaited /\ p.to = site => saveFailed'
  <2>1. CASE SaveAnswered(p)
    BY <2>1 DEF SaveAnswered
  <2>2. CASE SaveFails(p)
    BY <2>2 DEF SaveFails
  <2> QED
    BY <2>1, <2>2
<1>3. /\ abandoned \subseteq abandoned'
      /\ ~p.served /\ site # p.to => p.payload.parts \subseteq abandoned'
  BY DEF SaveAnswered, SaveFails, ghosts
<1>4. /\ \A q \in saves : q # p => Moved(q, p) \in saves'
      /\ \A r \in saves' : \E q \in saves \ {p} : r = Moved(q, p)
      /\ \A q \in saves \ {p} :
           /\ Moved(q, p).to = q.to /\ Moved(q, p).payload = q.payload
           /\ Moved(q, p).served = q.served /\ Moved(q, p).awaited = q.awaited
      /\ \A q, r \in saves \ {p} : Moved(q, p).id < Moved(r, p).id <=> q.id < r.id
  BY <1>1, SaveGone
<1>5. \A x : \A s : Due(x, s)' => Due(x, s) /\ x \notin abandoned'
  BY <1>1, <1>3 DEF Due
<1>6. NewIsBlank'
  <2>1. \A x \in Part : New(x) => Blank(x)'
    BY <1>1, <1>4 DEF Kept, NewIsBlank, Blank
  <2> QED
    BY <1>1, <2>1 DEF Kept, NewIsBlank, New
<1>7. ShownIsWhole'
  <2> SUFFICES ASSUME site # NoSite
               PROVE  \/ timer \/ saveFailed'
                      \/ \E q \in saves' : /\ q.awaited /\ q.to = site /\ ~q.served
                                           /\ topology.parts \subseteq q.payload.parts
                      \/ /\ topology.parts \subseteq stored[site].parts
                         /\ \A q \in saves' : q.to = site => q.served
    BY <1>1, <1>5 DEF Kept, ShownIsWhole
  <2>1. ASSUME NEW q \in saves, q.awaited, q.to = site, ~q.served,
               topology.parts \subseteq q.payload.parts
        PROVE  \/ saveFailed'
               \/ \E r \in saves' : /\ r.awaited /\ r.to = site /\ ~r.served
                                    /\ topology.parts \subseteq r.payload.parts
    BY <1>2, <1>4, <2>1
  <2>2. CASE \A q \in saves : q.to = site => q.served
    BY <1>2, <1>4, <2>1, <2>2 DEF Kept, ShownIsWhole
  <2>3. CASE ~ \A q \in saves : q.to = site => q.served
    BY <1>2, <2>1, <2>3 DEF Kept, ShownIsWhole
  <2> QED
    BY <2>2, <2>3
<1>8. AwayIsSafe'
  <2> SUFFICES ASSUME NEW x \in Part, NEW s \in Site, Due(x, s)', s # site
               PROVE  \/ \E q \in saves' : q.to = s /\ ~q.served /\ x \in q.payload.parts
                      \/ x \in stored[s].parts
    BY <1>1 DEF AwayIsSafe
  <2>1. Due(x, s) /\ x \notin abandoned'
    BY <1>5
  <2>2. ASSUME NEW q \in saves, q.to = s, ~q.served, x \in q.payload.parts
        PROVE  \E r \in saves' : r.to = s /\ ~r.served /\ x \in r.payload.parts
    BY <1>3, <1>4, <2>1, <2>2
  <2> QED
    BY <2>1, <2>2 DEF Kept, AwayIsSafe
<1>9. SavesGrow'
  <2> SUFFICES ASSUME NEW q \in saves', NEW x \in Part, ~q.served, Due(x, q.to)'
               PROVE  /\ x \in stored[q.to].parts => x \in q.payload.parts
                      /\ \A r \in saves' : r.to = q.to /\ ~r.served /\ r.id < q.id
                                           /\ x \in r.payload.parts => x \in q.payload.parts
    BY <1>1 DEF SavesGrow
  <2>1. PICK q0 \in saves \ {p} : q = Moved(q0, p)
    BY <1>4
  <2>2. q.to = q0.to /\ q.payload = q0.payload /\ q.served = q0.served /\ Due(x, q0.to)
    BY <1>4, <1>5, <2>1
  <2>3. ASSUME NEW r \in saves', r.to = q.to, ~r.served, r.id < q.id, x \in r.payload.parts
        PROVE  x \in q.payload.parts
    <3>1. PICK r0 \in saves \ {p} : r = Moved(r0, p)
      BY <1>4
    <3>2. r.to = r0.to /\ r.payload = r0.payload /\ r.served = r0.served /\ r0.id < q0.id
      BY <1>4, <2>1, <2>3, <3>1
    <3> QED
      BY <2>2, <2>3, <3>2 DEF Kept, SavesGrow
  <2> QED
    BY <2>2, <2>3 DEF Kept, SavesGrow
<1> QED
  BY <1>6, <1>7, <1>8, <1>9 DEF Kept

LEMMA WholeStep ==
  ASSUME TypeInv, LoadInv, OrderInv, Whole, [Next]_vars
  PROVE  Whole'
<1>1. CASE crossed' \/ overtaken'
  BY <1>1 DEF Whole
<1>2. CASE ~crossed' /\ ~overtaken'
  <2>1. ~crossed /\ ~overtaken /\ Kept
    BY <1>2, ExcusesStay DEF Whole
  <2>2. CASE UNCHANGED vars
    <3>1. UNCHANGED <<site, topology, stored, saves, madeFor, abandoned, timer, saveFailed,
                      deregistered, adding, removal>>
      BY <2>2 DEF vars, editor, wire, ops, ghosts
    <3>2. NewIsBlank'
      BY <2>1, <3>1 DEF Kept, NewIsBlank, New, Blank
    <3> QED
      BY <2>1, <3>1, <3>2, IdleKeeps DEF Whole
  <2>3. CASE Next
    <3>1. Kept'
      BY <1>2, <2>1, <2>3, LoadingKeeps, EditingKeeps, RemovalKeeps, AutosaveKeeps,
         ServeSaveKeeps, SaveEndsKeeps
      DEF Next, Operator, Browser, Server, Failure
    <3> QED
      BY <3>1 DEF Whole
  <2> QED
    BY <2>2, <2>3
<1> QED
  BY <1>1, <1>2

-----------------------------------------------------------------------------
(* Theorems.                                                               *)

THEOREM Invariance == Spec => []Inv
<1>1. Init => Inv
  BY InitInv
<1>2. Inv /\ [Next]_vars => Inv'
  BY TypeStep, LoadStep, OrderStep, DirtyStep, WholeStep
  DEF Inv, TypeInv, LoadInv, OrderInv
<1> QED
  BY <1>1, <1>2, PTL DEF Spec

\* Every variable of the workspace, of its requests and of the server keeps its
\* type: no more saves are under way than the bound, and a design is shown
\* exactly while a site is.
THEOREM WorkspaceTyped == Spec => []TypeOK
<1>1. Inv => TypeOK
  BY DEF Inv
<1> QED
  BY <1>1, Invariance, PTL

\* However many loads of however many sites overlap and in whatever order they
\* are answered: when none is left the workspace shows the site asked for last.
THEOREM LastAskedIsShown == Spec => []OpensWhatWasAsked
<1>1. Inv => OpensWhatWasAsked
  BY DEF Inv
<1> QED
  BY <1>1, Invariance, PTL

\* A dirty workspace has its autosave pending or under way, unless a save has
\* failed or a removal was answered late.
THEOREM DirtyIsSaved == Spec => []DirtyHasASave
<1>1. Inv => DirtyHasASave
  BY DEF Inv
<1> QED
  BY <1>1, Invariance, PTL

\* What was drawn for a site is shown, on its way or stored, as long as nothing
\* threw it away unsaved, whatever is loaded, saved, lost and left meanwhile.
THEOREM DrawingSurvives == Spec => []DrawingKept
<1>1. Inv => DrawingKept
  <2> SUFFICES ASSUME Inv, ~crossed, ~overtaken, NEW p \in Part, NEW s \in Site,
                      madeFor[p] = s, p \notin abandoned
               PROVE  \/ site = s /\ p \in topology.parts
                      \/ \E q \in saves : q.to = s /\ ~q.served /\ p \in q.payload.parts
                      \/ p \in stored[s].parts
    BY DEF DrawingKept
  <2>1. Kept /\ Due(p, s)
    BY DEF Inv, Whole, Due
  <2> QED
    BY <2>1, WorkspaceAssumption DEF Kept, ShownIsWhole, AwayIsSafe
<1> QED
  BY <1>1, Invariance, PTL

\* An answer to a save declares the workspace clean only if the server stores
\* what it shows, for any saves under way and any edits meanwhile.
THEOREM AnswersAreHonest == Spec => AnswerMeansSaved
<1>1. Inv /\ [Next]_vars
        => [GoesClean /\ owner = NoSite => stored[site] = topology \/ overtaken]_vars
  BY AnswerStep DEF Inv, TypeInv, LoadInv, OrderInv
<1> QED
  BY <1>1, Invariance, PTL DEF Spec, AnswerMeansSaved
=============================================================================
