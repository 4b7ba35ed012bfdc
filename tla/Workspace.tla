------------------------------ MODULE Workspace ------------------------------
(***************************************************************************)
(* The editor's workspace: one site's design, loaded from the server,      *)
(* edited in the browser, stored by a debounced autosave.  Loads, saves    *)
(* and the removal of a controller all await the network, and the operator *)
(* goes on editing and changes site meanwhile.                             *)
(*                                                                         *)
(* A design is the set of its parts: controllers, and edits (each edit is  *)
(* one more part).  The site's own fields (name, deployment) travel with   *)
(* it and are left out.                                                    *)
(***************************************************************************)
EXTENDS Naturals, FiniteSets

CONSTANTS
  Site, Ctrl, Edit,
  home,                 \* the site each controller starts in, or NoSite
  Legacy,               \* the sites whose stored draft needs migrating
  MaxLoads,             \* bound: navigations that start a load
  MaxPosts,             \* bound: saves under way at once
  MaxFails,             \* bound: requests that fail
  NoSite, NoDesign, NoRemoval

ASSUME WorkspaceAssumption ==
  /\ home \in [Ctrl -> Site \cup {NoSite}] /\ Legacy \subseteq Site
  /\ {MaxLoads, MaxPosts, MaxFails} \subseteq Nat
  /\ NoSite \notin Site /\ Ctrl \cap Edit = {}

Part == Ctrl \cup Edit
Design == [of : Site, parts : SUBSET Part, old : BOOLEAN]

ASSUME NoDesignAssumption == NoDesign \notin Design

VARIABLES
  wanted,               \* the site in the URL
  site, topology,       \* _site, _siteTopology
  dirty, timer,         \* _dirty, _autosaveTimer
  loadSeq, owner,       \* _loadSeq, _loadingSiteId
  loads,                \* the _load calls that have not returned
  fetch,                \* the shared siteLoad request of each site
  saves,                \* siteSave requests, in the order they were sent
  adding, removal,      \* an addBlankController, a removeController, awaiting
  stored,               \* the server's drafts
  deregistered,         \* the controllers whose device the server gave up
  fails,                \* requests failed so far
  saveFailed,           \* the last autosave of the site shown failed
  madeFor,              \* the site each part was drawn for
  abandoned,            \* parts unsaved when their site was left
  crossed,              \* a removal was answered after its design had changed
  overtaken             \* the server took requests for a site out of order

editor == <<wanted, site, topology, dirty, timer>>
loading == <<loadSeq, owner, loads, fetch>>
wire == <<saves, stored, deregistered, fails, saveFailed>>
ops == <<adding, removal>>
ghosts == <<madeFor, abandoned, crossed, overtaken>>
vars == <<editor, loading, wire, ops, ghosts>>

Load == [seq : 1 .. MaxLoads, site : Site, step : {"fetch", "boards"}]
Fetch == [state : {"none", "asked", "answered"}, draft : Design \cup {NoDesign}]
Quiet == [state |-> "none", draft |-> NoDesign]
Save == [id : Nat \ {0}, to : Site, payload : Design,
         served : BOOLEAN, awaited : BOOLEAN]

-----------------------------------------------------------------------------
(* Loading a site.                                                         *)

\* Mutant: the token is never compared.
SupersededNever(l) == FALSE
Superseded(l) == l.seq # loadSeq

\* Mutant: a mutation forgets the autosave.
MarkUnscheduled == dirty' = TRUE /\ timer' = timer
MarkDirty == dirty' = TRUE /\ timer' = TRUE

Unsaved == IF topology # NoDesign /\ (dirty \/ timer \/ saveFailed)
           THEN topology.parts ELSE {}

\* Mutant: the design of the site that is left stays.
ClearSiteOnly ==
  /\ site' = NoSite /\ topology' = topology
  /\ dirty' = FALSE /\ timer' = FALSE
  /\ abandoned' = abandoned \cup Unsaved /\ saveFailed' = FALSE
Clear ==
  /\ site' = NoSite /\ topology' = NoDesign
  /\ dirty' = FALSE /\ timer' = FALSE
  /\ abandoned' = abandoned \cup Unsaved /\ saveFailed' = FALSE

\* Mutant: a request that has settled goes on being shared.
SettledKept(s) == fetch
Settled(s) == [fetch EXCEPT ![s] = Quiet]

\* ngOnInit of the editor: load, unless the workspace holds this site already;
\* load itself shares the call in flight for the same site.
Open(s) ==
  /\ wanted' = s
  /\ IF owner = s \/ site = s
     THEN UNCHANGED <<site, topology, dirty, timer, loading, abandoned, saveFailed>>
     ELSE
       /\ loadSeq < MaxLoads
       /\ loadSeq' = loadSeq + 1 /\ owner' = s
       /\ Clear
       /\ loads' = loads \cup {[seq |-> loadSeq + 1, site |-> s, step |-> "fetch"]}
       /\ fetch' = IF fetch[s] = Quiet THEN [fetch EXCEPT ![s].state = "asked"] ELSE fetch
  /\ UNCHANGED <<saves, stored, deregistered, fails, ops, madeFor, crossed, overtaken>>

\* The server reads the draft.
ServeLoad(s) ==
  /\ fetch[s].state = "asked"
  /\ fetch' = [fetch EXCEPT ![s] = [state |-> "answered", draft |-> stored[s]]]
  /\ overtaken' = (overtaken \/ \E p \in saves : p.to = s /\ ~p.served)
  /\ UNCHANGED <<editor, loadSeq, owner, loads, wire, ops, madeFor, abandoned, crossed>>

\* The answer reaches every load that waits for it; a superseded one returns,
\* the other sets the site, migrates an old draft and goes on to the boards.
LoadAnswered(s) ==
  LET waiting == {l \in loads : l.site = s /\ l.step = "fetch"}
      taking  == {l \in waiting : ~Superseded(l)}
  IN /\ fetch[s].state = "answered"
     /\ fetch' = Settled(s)
     /\ loads' = (loads \ waiting) \cup {[l EXCEPT !.step = "boards"] : l \in taking}
     /\ IF taking = {} THEN UNCHANGED <<site, topology, dirty, timer>>
        ELSE
          /\ site' = s
          /\ topology' = [fetch[s].draft EXCEPT !.old = FALSE]
          /\ IF fetch[s].draft.old THEN MarkDirty ELSE UNCHANGED <<dirty, timer>>
     /\ UNCHANGED <<wanted, loadSeq, owner, wire, ops, ghosts>>

LoadFails(s) ==
  /\ fetch[s] # Quiet /\ fails < MaxFails
  /\ fails' = fails + 1
  /\ fetch' = Settled(s)
  /\ loads' = {l \in loads : l.site # s \/ l.step # "fetch"}
  /\ owner' = IF \E l \in loads : l.site = s /\ l.step = "fetch" /\ l.seq = loadSeq
              THEN NoSite ELSE owner
  /\ UNCHANGED <<editor, loadSeq, saves, stored, deregistered, saveFailed, ops, ghosts>>

\* The boards have come, or could not be had, which is logged: the load ends.
BoardsLoaded(l) ==
  /\ l.step = "boards"
  /\ loads' = loads \ {l}
  /\ dirty' = IF Superseded(l) THEN dirty ELSE FALSE
  /\ owner' = IF l.seq = loadSeq THEN NoSite ELSE owner
  /\ UNCHANGED <<wanted, site, topology, timer, loadSeq, fetch, wire, ops, ghosts>>

-----------------------------------------------------------------------------
(* Editing.                                                                *)

DrawEdit(e) ==
  /\ topology # NoDesign /\ madeFor[e] = NoSite
  /\ topology' = [topology EXCEPT !.parts = @ \cup {e}]
  /\ MarkDirty
  /\ madeFor' = [madeFor EXCEPT ![e] = site]
  /\ UNCHANGED <<wanted, site, loading, wire, ops, abandoned, crossed, overtaken>>

\* addBlankController, addControllerFromTemplate: the id is minted, then the
\* board is awaited.
StartAdd(c) ==
  /\ site # NoSite /\ adding = {}
  /\ home[c] = NoSite /\ madeFor[c] = NoSite /\ c \notin deregistered
  /\ adding' = {c}
  /\ UNCHANGED <<editor, loading, wire, removal, ghosts>>

FinishAdd(c) ==
  /\ c \in adding
  /\ adding' = {}
  /\ IF topology = NoDesign THEN UNCHANGED <<topology, madeFor>>
     ELSE /\ topology' = [topology EXCEPT !.parts = @ \cup {c}]
          /\ madeFor' = [madeFor EXCEPT ![c] = site]
  /\ MarkDirty
  /\ UNCHANGED <<wanted, site, loading, wire, removal, abandoned, crossed, overtaken>>

\* removeController deregisters the device first, and then sets the design it
\* had read before, less the controller.
StartRemove(c) ==
  /\ topology # NoDesign /\ c \in topology.parts /\ removal = NoRemoval
  /\ removal' = [ctrl |-> c, snapshot |-> topology]
  /\ UNCHANGED <<editor, loading, wire, adding, ghosts>>

FinishRemove ==
  /\ removal # NoRemoval
  /\ removal' = NoRemoval
  /\ topology' = [removal.snapshot EXCEPT !.parts = @ \ {removal.ctrl}]
  /\ MarkDirty
  /\ deregistered' = deregistered \cup {removal.ctrl}
  /\ madeFor' = [madeFor EXCEPT ![removal.ctrl] = NoSite]
  /\ crossed' = (crossed \/ topology # removal.snapshot)
  /\ UNCHANGED <<wanted, site, loading, saves, stored, fails, saveFailed,
                 adding, abandoned, overtaken>>

RemoveFails ==
  /\ removal # NoRemoval /\ fails < MaxFails
  /\ fails' = fails + 1
  /\ removal' = NoRemoval
  /\ deregistered' \in {deregistered, deregistered \cup {removal.ctrl}}
  /\ UNCHANGED <<editor, loading, saves, stored, saveFailed, adding, ghosts>>

-----------------------------------------------------------------------------
(* Saving.                                                                 *)

NextId == 1 + Cardinality(saves)
Renumbered(S, gone) == {[p EXCEPT !.id = IF @ > gone.id THEN @ - 1 ELSE @] : p \in S \ {gone}}

\* The debounce has run out: save posts what the workspace holds.  The SDK
\* cancels an earlier save of the same site in the browser, not on the server.
Autosave ==
  /\ timer
  /\ timer' = FALSE
  /\ IF site = NoSite \/ topology = NoDesign THEN UNCHANGED <<saves, saveFailed>>
     ELSE /\ Cardinality(saves) < MaxPosts
          /\ saves' = {[p EXCEPT !.awaited = @ /\ p.to # site] : p \in saves}
                      \cup {[id |-> NextId, to |-> site, payload |-> topology,
                             served |-> FALSE, awaited |-> TRUE]}
          /\ saveFailed' = FALSE
  /\ UNCHANGED <<wanted, site, topology, dirty, loading, stored, deregistered, fails, ops, ghosts>>

ServeSave(p) ==
  /\ ~p.served
  /\ stored' = [stored EXCEPT ![p.to] = p.payload]
  /\ saves' = (saves \ {p}) \cup {[p EXCEPT !.served = TRUE]}
  /\ overtaken' = (overtaken \/ \E q \in saves : q.to = p.to /\ q.id < p.id /\ ~q.served)
  /\ UNCHANGED <<editor, loading, deregistered, fails, saveFailed, ops, madeFor,
                 abandoned, crossed>>

\* Mutant: the answer of a save clears the flag whatever was edited meanwhile.
CurrentAlways(p) == TRUE
Current(p) == site = p.to /\ topology = p.payload

SaveAnswered(p) ==
  /\ p.served
  /\ saves' = Renumbered(saves, p)
  /\ dirty' = IF p.awaited /\ Current(p) THEN FALSE ELSE dirty
  /\ UNCHANGED <<wanted, site, topology, timer, loading, stored, deregistered, fails,
                 saveFailed, ops, ghosts>>

\* The request or its answer is lost; nothing is scheduled again, and if the
\* site has been left nobody can.
SaveFails(p) ==
  /\ fails < MaxFails
  /\ fails' = fails + 1
  /\ saves' = Renumbered(saves, p)
  /\ saveFailed' = (saveFailed \/ (p.awaited /\ p.to = site))
  /\ abandoned' = IF site = p.to THEN abandoned ELSE abandoned \cup p.payload.parts
  /\ UNCHANGED <<editor, loading, stored, deregistered, ops, madeFor, crossed, overtaken>>

-----------------------------------------------------------------------------
Init ==
  /\ wanted = NoSite /\ site = NoSite /\ topology = NoDesign
  /\ dirty = FALSE /\ timer = FALSE
  /\ loadSeq = 0 /\ owner = NoSite /\ loads = {}
  /\ fetch = [s \in Site |-> Quiet]
  /\ saves = {} /\ adding = {} /\ removal = NoRemoval
  /\ stored = [s \in Site |->
       [of |-> s, parts |-> {c \in Ctrl : home[c] = s}, old |-> s \in Legacy]]
  /\ deregistered = {} /\ fails = 0 /\ saveFailed = FALSE
  /\ madeFor = [p \in Part |-> IF p \in Ctrl THEN home[p] ELSE NoSite]
  /\ abandoned = {} /\ crossed = FALSE /\ overtaken = FALSE

Operator ==
  \/ \E s \in Site : Open(s)
  \/ \E e \in Edit : DrawEdit(e)
  \/ \E c \in Ctrl : StartAdd(c) \/ StartRemove(c)

Browser ==
  \/ \E s \in Site : LoadAnswered(s)
  \/ \E l \in loads : BoardsLoaded(l)
  \/ \E c \in Ctrl : FinishAdd(c)
  \/ FinishRemove
  \/ Autosave
  \/ \E p \in saves : SaveAnswered(p)

Server ==
  \/ \E s \in Site : ServeLoad(s)
  \/ \E p \in saves : ServeSave(p)

Failure ==
  \/ \E s \in Site : LoadFails(s)
  \/ RemoveFails
  \/ \E p \in saves : SaveFails(p)

Next == Operator \/ Browser \/ Server \/ Failure

Spec == Init /\ [][Next]_vars

-----------------------------------------------------------------------------
(* Properties.                                                             *)

\* Every variable keeps its type, and a design is shown exactly while a site
\* is, but for a removal that is answered after its site was left.
TypeOK ==
  /\ wanted \in Site \cup {NoSite} /\ site \in Site \cup {NoSite}
  /\ topology \in Design \cup {NoDesign}
  /\ dirty \in BOOLEAN /\ timer \in BOOLEAN
  /\ loadSeq \in 0 .. MaxLoads /\ owner \in Site \cup {NoSite}
  /\ loads \subseteq Load
  /\ fetch \in [Site -> Fetch]
  /\ saves \subseteq Save /\ Cardinality(saves) <= MaxPosts
  /\ adding \subseteq Ctrl /\ Cardinality(adding) <= 1
  /\ removal \in [ctrl : Ctrl, snapshot : Design] \cup {NoRemoval}
  /\ stored \in [Site -> Design] /\ deregistered \subseteq Ctrl
  /\ fails \in 0 .. MaxFails /\ saveFailed \in BOOLEAN
  /\ madeFor \in [Part -> Site \cup {NoSite}]
  /\ abandoned \subseteq Part /\ crossed \in BOOLEAN /\ overtaken \in BOOLEAN
  /\ (topology = NoDesign) = (site = NoSite) \/ crossed

\* Loads of several sites under way at once, and answers in any order: when
\* none is left the workspace shows the site that was asked for last, or
\* nothing at all if a load failed.
OpensWhatWasAsked ==
  owner = NoSite => site \in {wanted, NoSite} /\ (fails = 0 => site = wanted)

\* What was drawn for a site is in the workspace, on its way to the server, or
\* stored there: no switch of site, reload, failed or overlapping save loses
\* it, except what a switch threw away unsaved.  Excluded are a removal that
\* was answered late and a server that took requests out of order.
DrawingKept ==
  crossed \/ overtaken \/
  \A p \in Part, s \in Site : madeFor[p] = s =>
    \/ p \in abandoned
    \/ site = s /\ p \in topology.parts
    \/ \E q \in saves : q.to = s /\ ~q.served /\ p \in q.payload.parts
    \/ p \in stored[s].parts

\* Nothing forgets a dirty workspace: its autosave is pending, or what it
\* shows is being saved and the answer will clear the flag, or the site is
\* still loading, which ends by clearing it.  Excluded are a save that failed,
\* which nothing retries, and a removal that was answered late.
DirtyHasASave ==
  dirty /\ site # NoSite =>
    \/ timer \/ saveFailed \/ crossed
    \/ \E p \in saves : p.awaited /\ Current(p)
    \/ owner = site

GoesClean == dirty /\ ~dirty' /\ site # NoSite /\ site' = site

\* An answer to a save clears the flag, and with that shows the editor's cue,
\* only if the server stores what the workspace shows, whatever was edited,
\* saved and loaded between the request and the answer.
AnswerMeansSaved ==
  [][GoesClean /\ owner = NoSite => stored[site] = topology \/ overtaken]_vars
=============================================================================
