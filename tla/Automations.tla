----------------------------- MODULE Automations -----------------------------
(***************************************************************************)
(* One controller's automations, from the rows an operator edits to the    *)
(* table the firmware fires from.  A row names its route by key; what runs *)
(* is an index into the route table baked into the firmware, so every row  *)
(* is stamped with the index and with a version of the table it is for.    *)
(* The browser stamps, when a row is saved and when firmware is built; the *)
(* server publishes the whole set after each change, with the stamp of the *)
(* oldest row; the controller refuses a set that is not for its table.     *)
(***************************************************************************)
EXTENDS Naturals, Sequences, FiniteSets

CONSTANTS
  NumAutos,             \* automations, numbered in the order of creation
  RouteOf,              \* [Automation -> route]   route_key
  Version,              \* versions of the route table
  TableOf,              \* [Version -> sequence of routes]  the baked order
  First,                \* the version in use at the start
  MaxEdits,             \* bound: rows created, saved or deleted by hand
  MaxDesigns,           \* bound: changes of the design
  MaxBuilds,            \* bound: builds
  MaxWire,              \* bound: sets on their way to the controller
  MaxBoots,             \* bound: reboots and flashes
  NoRow, NoPage, NoBuild, NoSet, Unread

Automation == 1 .. NumAutos
Index == Nat

\* Who is waiting for the answer to a change of a row, one request each: the
\* page, the build, the server itself after the report of a new firmware.
Source == {"page", "build", "report"}

ASSUME AutomationsAssumption ==
  /\ NumAutos \in Nat \ {0} /\ First \in Version
  /\ \A v \in Version : Len(TableOf[v]) \in Nat
  /\ \A a \in Automation : \E i \in 1 .. Len(TableOf[First]) : TableOf[First][i] = RouteOf[a]
  /\ {MaxEdits, MaxDesigns, MaxBuilds, MaxBoots, MaxWire} \subseteq Nat

VARIABLES
  design,               \* the version the draft design would bake
  page,                 \* the version the operator's open page resolves against
  rows, created,        \* the automations collection; rows created so far
  build,                \* a build that is to restamp the rows, or is at it
  bundles,              \* firmware that has been built
  hooks,                \* [Source -> a publication under way]
  reported,             \* the firmware the server has last heard of
  retained,             \* the broker's retained set
  wire,                 \* sets on their way to the connected controller
  online, baked,        \* the controller's link, and its firmware
  table,                \* autos_
  flash,                \* the persisted set
  staged,               \* a set saved, but not yet written to the flash
  edits, designs, builds, boots,
  torn,                 \* rows a build has patched from an older reading
  strayed,              \* the table is of a set that was not sound; see Sound
  raced                 \* the last publication was of rows read too early

cloud == <<design, page, rows, created, build, bundles, hooks, reported, retained>>
device == <<online, baked, table, flash, staged>>
bounds == <<edits, designs, builds, boots>>
history == <<torn, strayed, raced>>
vars == <<cloud, wire, device, bounds, history>>

-----------------------------------------------------------------------------
(* Stamps and sets.                                                        *)

\* The route_index of a route in a table; NoRow when it has none.
IndexIn(v, route) ==
  IF \E i \in 1 .. Len(TableOf[v]) : TableOf[v][i] = route
  THEN (CHOOSE i \in 1 .. Len(TableOf[v]) : TableOf[v][i] = route) - 1
  ELSE NoRow

Row == [index : Index, ver : Version, enabled : BOOLEAN]
Entry == [index : Index, enabled : BOOLEAN]
\* mixed is not on the wire: the rows the set was read from were not sound.
Set == [ver : Version \cup {0}, entries : [Automation -> Entry \cup {NoRow}],
        mixed : BOOLEAN]

ASSUME NoRowAssumption == NoRow \notin Index \cup Row \cup Entry

Present(table_) == {a \in Automation : table_[a] # NoRow}
Empty == [a \in Automation |-> NoRow]

\* "browser-stamped, consistent per controller": all rows carry one version, those
\* whose route that version lacks are paused, and none is torn.
Sound(table_) ==
  /\ \A a, b \in Present(table_) : table_[a].ver = table_[b].ver
  /\ \A a \in Present(table_) :
       /\ table_[a].enabled => IndexIn(table_[a].ver, RouteOf[a]) # NoRow
       /\ a \notin torn

\* PublishForController: the whole set, with the version of the oldest row.
Encoded(table_) ==
  [ver |-> IF Present(table_) = {} THEN 0
           ELSE table_[CHOOSE a \in Present(table_) :
                         \A b \in Present(table_) : a <= b].ver,
   entries |-> [a \in Automation |-> IF table_[a] = NoRow THEN NoRow
                 ELSE [index |-> table_[a].index, enabled |-> table_[a].enabled]],
   mixed |-> ~Sound(table_)]

\* Two sets are the same on the wire.
Same(set, other) == set.ver = other.ver /\ set.entries = other.entries

\* Every change of a row ends in a hook; who made it waits for the hook.
ChangeRows(who, table_) ==
  /\ hooks[who] = NoSet
  /\ rows' = table_
  /\ hooks' = [hooks EXCEPT ![who] = Unread]

-----------------------------------------------------------------------------
(* The operator.                                                           *)

Redesign(v) ==
  /\ v # design /\ designs < MaxDesigns
  /\ design' = v /\ designs' = designs + 1
  /\ UNCHANGED <<page, rows, created, build, bundles, hooks, reported, retained,
                 wire, device, edits, builds, boots, history>>

\* The page derives the routes from the draft once, when it is opened.
OpenPage ==
  /\ page # design
  /\ page' = design
  /\ UNCHANGED <<design, rows, created, build, bundles, hooks, reported, retained,
                 wire, device, bounds, history>>

\* Mutant: the route's absence from the page is not looked at.
StampedBlind(row, v, route) == [row EXCEPT !.index = IndexIn(v, route), !.ver = v]

\* Index and version of a row are written together.
Stamped(row, v, route) ==
  IF IndexIn(v, route) = NoRow THEN row
  ELSE [row EXCEPT !.index = IndexIn(v, route), !.ver = v]

Edit(table_) ==
  /\ page # NoPage /\ edits < MaxEdits
  /\ edits' = edits + 1
  /\ ChangeRows("page", table_)
  /\ UNCHANGED <<design, page, build, bundles, reported, retained, wire, device,
                 designs, builds, boots, strayed, raced>>

\* A new row is for a route the page offers.
CreateRow(a) ==
  /\ a = created + 1
  /\ page # NoPage /\ IndexIn(page, RouteOf[a]) # NoRow
  /\ created' = a
  /\ Edit([rows EXCEPT ![a] = [index |-> IndexIn(page, RouteOf[a]), ver |-> page,
                               enabled |-> TRUE]])
  /\ UNCHANGED torn

\* save and toggleEnabled re-stamp the row from the page's routes.
SaveRow(a, on) ==
  /\ rows[a] # NoRow
  /\ Edit([rows EXCEPT ![a] = [Stamped(@, page, RouteOf[a]) EXCEPT !.enabled = on]])
  /\ torn' = IF IndexIn(page, RouteOf[a]) = NoRow THEN torn ELSE torn \ {a}
  /\ UNCHANGED created

RemoveRow(a) ==
  /\ rows[a] # NoRow
  /\ Edit([rows EXCEPT ![a] = NoRow])
  /\ UNCHANGED <<created, torn>>

-----------------------------------------------------------------------------
(* A build reads the design, later the rows, restamps these one by one and *)
(* bakes the table; a failing update ends the restamp and not the build.   *)

StartBuild ==
  /\ build = NoBuild /\ builds < MaxBuilds
  /\ builds' = builds + 1
  /\ build' = [ver |-> design, read |-> Unread, next |-> 1]
  /\ UNCHANGED <<design, page, rows, created, bundles, hooks, reported, retained,
                 wire, device, edits, designs, boots, history>>

ReadRows ==
  /\ build # NoBuild /\ build.read = Unread
  /\ build' = [build EXCEPT !.read = rows]
  /\ UNCHANGED <<design, page, rows, created, bundles, hooks, reported, retained,
                 wire, device, bounds, history>>

\* What the build makes of the row now there, given the one it has read.
Patched(row, seen, v, route) ==
  LET i == IndexIn(v, route) IN
  [row EXCEPT !.ver = IF seen.ver # v THEN v ELSE @,
              !.index = IF i # NoRow /\ seen.index # i THEN i ELSE @,
              !.enabled = IF i = NoRow /\ seen.enabled THEN FALSE ELSE @]

Restamp(a) ==
  /\ build # NoBuild /\ build.read # Unread /\ build.next = a
  /\ LET seen == build.read[a]
         new == Patched(rows[a], seen, build.ver, RouteOf[a])
     IN  IF seen = NoRow \/ Patched(seen, seen, build.ver, RouteOf[a]) = seen
         THEN UNCHANGED <<rows, hooks, torn>>
         ELSE /\ rows[a] # NoRow
              /\ ChangeRows("build", [rows EXCEPT ![a] = new])
              /\ torn' = IF rows[a] = seen THEN torn \ {a} ELSE torn \cup {a}
  /\ build' = [build EXCEPT !.next = a + 1]
  /\ UNCHANGED <<design, page, created, bundles, reported, retained, wire, device,
                 bounds, strayed, raced>>

\* The restamp is over, or an update has failed.
FinishBuild ==
  /\ build # NoBuild
  /\ bundles' = bundles \cup {build.ver}
  /\ build' = NoBuild
  /\ UNCHANGED <<design, page, rows, created, hooks, reported, retained, wire,
                 device, bounds, history>>

-----------------------------------------------------------------------------
(* The server.                                                             *)

HookReads(who) ==
  /\ hooks[who] = Unread
  /\ hooks' = [hooks EXCEPT ![who] = Encoded(rows)]
  /\ UNCHANGED <<design, page, rows, created, build, bundles, reported, retained,
                 wire, device, bounds, history>>

\* Retained, and sent to the controller if it is connected.
HookPublishes(who) ==
  /\ hooks[who] \notin {NoSet, Unread} /\ Len(wire) < MaxWire
  /\ hooks' = [hooks EXCEPT ![who] = NoSet]
  /\ retained' = hooks[who]
  /\ wire' = IF online THEN Append(wire, hooks[who]) ELSE wire
  /\ raced' = ~Same(hooks[who], Encoded(rows))
  /\ UNCHANGED <<design, page, rows, created, build, bundles, reported, device,
                 bounds, torn, strayed>>

-----------------------------------------------------------------------------
(* The controller.                                                         *)

\* Mutant: a set is taken whatever table it is for.
AcceptsAny(v, set) == TRUE
\* Mutant: an empty set is held against the version as well.
AcceptsByVersion(v, set) == set.ver = v
Accepts(v, set) == Present(set.entries) = {} \/ set.ver = v

\* apply_set: an empty set clears the table, a refused one leaves it; what was
\* accepted is saved, which does not write it to the flash yet.
Receive ==
  /\ wire # <<>>
  /\ wire' = Tail(wire)
  /\ IF Accepts(baked, Head(wire))
     THEN /\ table' = Head(wire).entries
          /\ staged' = Head(wire)
          /\ strayed' = Head(wire).mixed
     ELSE UNCHANGED <<table, staged, strayed>>
  /\ UNCHANGED <<cloud, online, baked, flash, bounds, torn, raced>>

\* The preferences are written from time to time, and before a planned restart.
FlushFlash ==
  /\ staged # NoSet
  /\ flash' = staged
  /\ staged' = NoSet
  /\ UNCHANGED <<cloud, wire, online, baked, table, bounds, history>>

\* setup: the persisted set goes through the same check; one that was only saved
\* is lost.
Boot(v) ==
  /\ boots < MaxBoots
  /\ boots' = boots + 1
  /\ baked' = v
  /\ IF flash # NoSet /\ Accepts(v, flash)
     THEN table' = flash.entries /\ strayed' = flash.mixed
     ELSE table' = Empty /\ strayed' = FALSE
  /\ staged' = NoSet
  /\ online' = FALSE /\ wire' = <<>>
  /\ UNCHANGED <<cloud, flash, edits, designs, builds, torn, raced>>

Reboot == Boot(baked)
Flash(v) == v \in bundles /\ v # baked /\ Boot(v)

\* The broker sends its retained set to whoever subscribes.
Connect ==
  /\ ~online
  /\ online' = TRUE
  /\ wire' = <<retained>>
  /\ UNCHANGED <<cloud, baked, table, flash, staged, bounds, history>>

\* The first snapshot of a new firmware makes the server publish once more.
FirmwareReported ==
  /\ online /\ reported # baked /\ hooks["report"] = NoSet
  /\ reported' = baked
  /\ hooks' = [hooks EXCEPT !["report"] = Unread]
  /\ UNCHANGED <<design, page, rows, created, build, bundles, retained, wire,
                 device, bounds, history>>

-----------------------------------------------------------------------------
Init ==
  /\ design = First /\ page = NoPage /\ torn = {}
  /\ created \in 0 .. NumAutos
  /\ rows = [a \in Automation |-> IF a > created THEN NoRow
               ELSE [index |-> IndexIn(First, RouteOf[a]), ver |-> First,
                     enabled |-> TRUE]]
  /\ build = NoBuild /\ bundles = {First}
  /\ hooks = [who \in Source |-> NoSet] /\ reported = First
  /\ retained = Encoded(rows) /\ wire = <<>>
  /\ online = TRUE /\ baked = First
  /\ table = Encoded(rows).entries
  /\ flash = IF created = 0 THEN NoSet ELSE Encoded(rows)
  /\ edits = 0 /\ designs = 0 /\ builds = 0 /\ boots = 0
  /\ staged = NoSet /\ strayed = FALSE /\ raced = FALSE

Operator ==
  \/ \E v \in Version : Redesign(v)
  \/ OpenPage
  \/ \E a \in Automation : CreateRow(a) \/ RemoveRow(a) \/ \E on \in BOOLEAN : SaveRow(a, on)
  \/ StartBuild

Browser == ReadRows \/ FinishBuild \/ \E a \in Automation : Restamp(a)

Server == \E who \in Source : HookReads(who) \/ HookPublishes(who)

Controller == Receive \/ FlushFlash \/ Connect \/ FirmwareReported

Next == Operator \/ Browser \/ Server \/ Controller \/ Reboot \/ \E v \in Version : Flash(v)

\* Hooks run to their end, the broker delivers, a controller reconnects.
Spec == Init /\ [][Next]_vars /\ WF_vars(Server) /\ WF_vars(Receive) /\ WF_vars(Connect)

-----------------------------------------------------------------------------
(* Properties.                                                             *)

\* Rows, sets and the controller's table are what their types say, and an index
\* is never written that no route has.
TypeOK ==
  /\ design \in Version /\ page \in Version \cup {NoPage}
  /\ rows \in [Automation -> Row \cup {NoRow}] /\ created \in 0 .. NumAutos
  /\ build \in {NoBuild} \cup
       [ver : Version, read : {Unread} \cup [Automation -> Row \cup {NoRow}],
        next : 1 .. NumAutos + 1]
  /\ bundles \subseteq Version /\ reported \in Version
  /\ hooks \in [Source -> Set \cup {NoSet, Unread}]
  /\ retained \in Set /\ wire \in Seq(Set)
  /\ online \in BOOLEAN /\ baked \in Version
  /\ table \in [Automation -> Entry \cup {NoRow}]
  /\ flash \in Set \cup {NoSet} /\ staged \in Set \cup {NoSet}
  /\ edits \in 0 .. MaxEdits /\ designs \in 0 .. MaxDesigns
  /\ builds \in 0 .. MaxBuilds /\ boots \in 0 .. MaxBoots
  /\ torn \subseteq Automation /\ strayed \in BOOLEAN /\ raced \in BOOLEAN

\* An automation that is enabled on the controller and points into the baked
\* table points at its own route.
PointsRight(a) ==
  table[a] # NoRow /\ table[a].enabled /\ table[a].index < Len(TableOf[baked])
    => TableOf[baked][table[a].index + 1] = RouteOf[a]

\* automation-wire.ts: the version is there because "an index could otherwise
\* point at the wrong route".
NoWrongRoute == \A a \in Automation : PointsRight(a)

\* It does its work across redesigns, builds that fail half-way, reflashes,
\* restored sets and sets that arrive late, whatever was published before, unless
\* the set the controller now runs was itself read from rows that were not sound:
\* two of them with different stamps, an enabled one without its route, or one
\* that a build had patched from an older reading.
StampGuards == strayed \/ NoWrongRoute

\* In the end the controller mirrors the rows, if there are none or the oldest is
\* for its table; a publication that was overtaken by a newer one is the exception.
MirrorsRows ==
  <>[](\/ raced
       \/ Present(rows) # {} /\ Encoded(rows).ver # baked
       \/ table = Encoded(rows).entries)
=============================================================================
