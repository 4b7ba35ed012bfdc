-------------------------- MODULE AutomationsProofs --------------------------
(***************************************************************************)
(* Proofs about one controller's automations: the types of its state, and  *)
(* that the version stamp keeps an automation off another route's valve    *)
(* for every number of automations, every set of route tables and every    *)
(* interleaving of edits, builds, publications, flashes and reboots.       *)
(***************************************************************************)
EXTENDS Automations, Integers, SequenceTheorems, FiniteSetTheorems,
        WellFoundedInduction, TLAPS

-----------------------------------------------------------------------------
(* The inductive invariant.  What is said of a row or of a published set is *)
(* relative to its own stamp, so that it survives the steps of the others;  *)
(* what is mixed or torn is left out, one set and one row at a time.        *)

\* Position i of the table baked in version v holds the route.
Right(v, route, i) == i + 1 <= Len(TableOf[v]) /\ TableOf[v][i + 1] = route

\* A row's index is its route's in the version it is stamped with, if any.
RowRight(a, row) == row # NoRow => IndexIn(row.ver, RouteOf[a]) \in {NoRow, row.index}

RowsRight == \A a \in Automation \ torn : RowRight(a, rows[a])

\* What an enabled entry points at in the table its set is stamped with.
EntriesRight(v, entries) ==
  \A a \in Automation : entries[a] # NoRow /\ entries[a].enabled
                    => Right(v, RouteOf[a], entries[a].index)

SetRight(set) == set.mixed \/ EntriesRight(set.ver, set.entries)

\* Wherever a set may be on its way from the server to the controller.
SetsRight ==
  /\ \A who \in Source : hooks[who] \notin {NoSet, Unread} => SetRight(hooks[who])
  /\ SetRight(retained)
  /\ \A i \in 1 .. Len(wire) : SetRight(wire[i])
  /\ flash # NoSet => SetRight(flash)
  /\ staged # NoSet => SetRight(staged)

TableRight == strayed \/ EntriesRight(baked, table)

Inv == TypeOK /\ RowsRight /\ SetsRight /\ TableRight

-----------------------------------------------------------------------------
(* Indices and stamps.                                                     *)

\* A set of numbers that is not empty has a least element.
LEMMA LeastExists ==
  ASSUME NEW T \in SUBSET Nat, T # {}
  PROVE  \E m \in T : \A n \in T : m <= n
<1> DEFINE U == {0 .. n : n \in T}
           R == StrictSubsetOrdering(Nat)
<1>1. U \subseteq FiniteSubsetsOf(Nat) /\ U # {}
  <2>1. \A n \in T : IsFiniteSet(0 .. n)
    BY FS_Interval
  <2>2. \A n \in T : 0 .. n \in SUBSET Nat
    OBVIOUS
  <2> QED
    BY <2>1, <2>2, Zenon DEF FiniteSubsetsOf
<1>2. IsWellFoundedOn(R, FiniteSubsetsOf(Nat))
  BY FS_StrictSubsetOrderingWellFounded
<1>3. \E x \in U : \A y \in U : <<y, x>> \notin R
  <2> HIDE DEF U, R
  <2> QED
    BY <1>1, <1>2, WFMin
<1>4. PICK x \in U : \A y \in U : <<y, x>> \notin R
  BY <1>3
<1>5. PICK m \in T : x = 0 .. m
  BY <1>4
<1>6. ASSUME NEW n \in T, n < m PROVE FALSE
  <2>1. 0 .. n \in U /\ 0 .. n \subseteq 0 .. m /\ m \in 0 .. m /\ m \notin 0 .. n
    BY <1>6
  <2>2. <<0 .. n, 0 .. m>> \in R
    BY <2>1, 0 .. n \in SUBSET Nat, 0 .. m \in SUBSET Nat DEF StrictSubsetOrdering
  <2> QED
    BY <1>4, <1>5, <2>1, <2>2
<1> QED
  BY <1>6

\* IndexIn answers where the route is, or that it is nowhere.
LEMMA IndexFinds ==
  ASSUME NEW v \in Version, NEW route
  PROVE  \/ /\ IndexIn(v, route) = NoRow
            /\ \A i \in 1 .. Len(TableOf[v]) : TableOf[v][i] # route
         \/ /\ IndexIn(v, route) \in Index /\ IndexIn(v, route) # NoRow
            /\ Right(v, route, IndexIn(v, route))
<1> DEFINE P(i) == TableOf[v][i] = route
<1>1. Len(TableOf[v]) \in Nat
  BY AutomationsAssumption
<1>2. CASE \E i \in 1 .. Len(TableOf[v]) : P(i)
  <2> DEFINE c == CHOOSE i \in 1 .. Len(TableOf[v]) : P(i)
  <2>1. c \in 1 .. Len(TableOf[v]) /\ P(c)
    BY <1>2
  <2>2. IndexIn(v, route) = c - 1
    BY <1>2 DEF IndexIn
  <2> HIDE DEF c
  <2> QED
    BY <1>1, <2>1, <2>2, NoRowAssumption DEF Index, Right
<1> QED
  BY <1>2 DEF IndexIn

\* The rows' oldest is one of them.
LEMMA OldestExists ==
  ASSUME NEW t, Present(t) # {}
  PROVE  (CHOOSE a \in Present(t) : \A b \in Present(t) : a <= b) \in Present(t)
<1>1. \E a \in Present(t) : \A b \in Present(t) : a <= b
  <2>1. Present(t) \in SUBSET Nat
    BY AutomationsAssumption DEF Present, Automation
  <2> QED
    BY <2>1, LeastExists
<1> QED
  BY <1>1

\* A publication is a set; it is empty where the rows are.
LEMMA EncodedType ==
  ASSUME NEW t \in [Automation -> Row \cup {NoRow}]
  PROVE  Encoded(t) \in Set /\ Encoded(t).entries \in [Automation -> Entry \cup {NoRow}]
<1>1. \A a \in Automation : t[a] # NoRow => t[a] \in Row
  OBVIOUS
<1>2. Encoded(t).ver \in Version \cup {0}
  <2>1. CASE Present(t) = {}
    BY <2>1 DEF Encoded
  <2>2. CASE Present(t) # {}
    <3> DEFINE c == CHOOSE a \in Present(t) : \A b \in Present(t) : a <= b
    <3>1. c \in Present(t)
      BY <2>2, OldestExists
    <3>2. Encoded(t).ver = t[c].ver
      BY <2>2 DEF Encoded
    <3> HIDE DEF c
    <3> QED
      BY <1>1, <3>1, <3>2 DEF Present, Row
  <2> QED
    BY <2>1, <2>2
<1>3. \A a \in Automation : t[a] # NoRow => [index |-> t[a].index, enabled |-> t[a].enabled] \in Entry
  BY <1>1 DEF Row, Entry
<1>4. Encoded(t).entries \in [Automation -> Entry \cup {NoRow}]
  BY <1>3 DEF Encoded
<1>5. Encoded(t).mixed \in BOOLEAN
  BY DEF Encoded, Sound
<1> QED
  BY <1>2, <1>4, <1>5 DEF Encoded, Set

\* Rows whose indices are right, but for those that are torn, make a set that is
\* right or mixed.
LEMMA EncodedRight ==
  ASSUME NEW t \in [Automation -> Row \cup {NoRow}],
         \A a \in Automation \ torn : RowRight(a, t[a])
  PROVE  SetRight(Encoded(t)) /\ (Sound(t) => ~Encoded(t).mixed)
<1>7. Encoded(t).mixed = ~Sound(t)
  BY DEF Encoded
<1> SUFFICES ASSUME Sound(t), NEW a \in Automation,
                    Encoded(t).entries[a] # NoRow, Encoded(t).entries[a].enabled
             PROVE  Right(Encoded(t).ver, RouteOf[a], Encoded(t).entries[a].index)
  BY <1>7 DEF SetRight, EntriesRight
<1>1. t[a] # NoRow /\ t[a] \in Row /\ a \in Present(t)
  BY DEF Encoded, Present
<1>2. Encoded(t).entries[a].index = t[a].index /\ t[a].enabled
  BY <1>1 DEF Encoded
<1>3. Encoded(t).ver = t[a].ver
  <2> DEFINE c == CHOOSE x \in Present(t) : \A b \in Present(t) : x <= b
  <2>1. c \in Present(t)
    BY <1>1, OldestExists
  <2>2. Encoded(t).ver = t[c].ver
    BY <1>1 DEF Encoded
  <2> HIDE DEF c
  <2> QED
    BY <1>1, <2>1, <2>2 DEF Sound
<1>4. t[a].ver \in Version /\ IndexIn(t[a].ver, RouteOf[a]) # NoRow
  BY <1>1, <1>2 DEF Sound, Row
<1>5. IndexIn(t[a].ver, RouteOf[a]) = t[a].index
  BY <1>1, <1>4 DEF RowRight, Sound
<1>6. Right(t[a].ver, RouteOf[a], t[a].index)
  BY <1>4, <1>5, IndexFinds
<1> QED
  BY <1>2, <1>3, <1>6

-----------------------------------------------------------------------------
(* Initial states.                                                         *)

LEMMA InitInv ==
  ASSUME Init PROVE Inv
<1> USE DEF Init
<1>1. \A a \in Automation : IndexIn(First, RouteOf[a]) # NoRow
                            /\ IndexIn(First, RouteOf[a]) \in Index
  <2> TAKE a \in Automation
  <2>1. First \in Version /\ \E i \in 1 .. Len(TableOf[First]) : TableOf[First][i] = RouteOf[a]
    BY AutomationsAssumption
  <2> QED
    BY <2>1, IndexFinds
<1>2. \A a \in Automation :
        [index |-> IndexIn(First, RouteOf[a]), ver |-> First, enabled |-> TRUE] \in Row
  BY <1>1, AutomationsAssumption DEF Row
<1>3. rows \in [Automation -> Row \cup {NoRow}]
  BY <1>2
<1>4. Encoded(rows) \in Set /\ Encoded(rows).entries \in [Automation -> Entry \cup {NoRow}]
  BY <1>3, EncodedType
<1>5. TypeOK
  <2>1. /\ hooks \in [Source -> Set \cup {NoSet, Unread}]
        /\ retained \in Set /\ wire \in Seq(Set)
        /\ table \in [Automation -> Entry \cup {NoRow}] /\ flash \in Set \cup {NoSet}
    BY <1>4, EmptySeq
  <2>2. /\ 0 \in 0 .. MaxEdits /\ 0 \in 0 .. MaxDesigns
        /\ 0 \in 0 .. MaxBuilds /\ 0 \in 0 .. MaxBoots
    BY AutomationsAssumption
  <2> QED
    BY <1>3, <2>1, <2>2, AutomationsAssumption DEF TypeOK
<1>6. \A a \in Automation : RowRight(a, rows[a])
  BY <1>3 DEF RowRight
<1>7. Sound(rows)
  BY <1>1, <1>3 DEF Sound, Present
<1>8. SetRight(Encoded(rows)) /\ ~Encoded(rows).mixed
  BY <1>3, <1>6, <1>7, EncodedRight
<1>9. RowsRight
  BY <1>6 DEF RowsRight
<1>10. SetsRight
  BY <1>8, EmptySeq DEF SetsRight, Source
<1>11. TableRight
  <2>1. CASE Present(rows) = {}
    BY <1>3, <2>1 DEF TableRight, EntriesRight, Encoded, Present
  <2>2. CASE Present(rows) # {}
    <3> DEFINE c == CHOOSE a \in Present(rows) : \A b \in Present(rows) : a <= b
    <3>1. c \in Present(rows) /\ Encoded(rows).ver = rows[c].ver
      BY <2>2, OldestExists DEF Encoded
    <3> HIDE DEF c
    <3>2. Encoded(rows).ver = baked
      BY <1>3, <3>1 DEF Present
    <3> QED
      BY <1>8, <3>2 DEF TableRight, SetRight
  <2> QED
    BY <2>1, <2>2
<1> QED
  BY <1>5, <1>9, <1>10, <1>11 DEF Inv
-----------------------------------------------------------------------------
(* Changes of the rows.                                                    *)

\* What a change of a row does to the rows and the hooks.
LEMMA ChangeKeeps ==
  ASSUME Inv, NEW who \in Source, NEW t \in [Automation -> Row \cup {NoRow}],
         ChangeRows(who, t)
  PROVE  /\ rows' \in [Automation -> Row \cup {NoRow}]
         /\ hooks' \in [Source -> Set \cup {NoSet, Unread}]
         /\ \A w \in Source : hooks'[w] \in {hooks[w], Unread}
BY DEF Inv, TypeOK, ChangeRows

\* A row that is stamped for a route's index, or left, is a row and is right.
LEMMA StampedRight ==
  ASSUME NEW a \in Automation, NEW row \in Row, NEW v \in Version, RowRight(a, row),
         NEW on \in BOOLEAN
  PROVE  LET new == [Stamped(row, v, RouteOf[a]) EXCEPT !.enabled = on]
         IN  new \in Row /\ RowRight(a, new)
<1> DEFINE i == IndexIn(v, RouteOf[a])
           new == [Stamped(row, v, RouteOf[a]) EXCEPT !.enabled = on]
<1>1. CASE i = NoRow
  <2>1. new = [row EXCEPT !.enabled = on]
    BY <1>1 DEF Stamped
  <2>2. new \in Row /\ new.ver = row.ver /\ new.index = row.index
    BY <2>1 DEF Row
  <2> QED
    BY <2>2, NoRowAssumption DEF RowRight
<1>2. CASE i # NoRow
  <2>1. i \in Index
    BY <1>2, IndexFinds
  <2>2. new = [[row EXCEPT !.index = i, !.ver = v] EXCEPT !.enabled = on]
    BY <1>2 DEF Stamped
  <2> HIDE DEF i
  <2>3. new \in Row /\ new.ver = v /\ new.index = i
    BY <2>1, <2>2 DEF Row
  <2> QED
    BY <2>3 DEF RowRight, i
<1> QED
  BY <1>1, <1>2

\* The type of what a save makes of a row does not depend on its index being right.
LEMMA StampedType ==
  ASSUME NEW a \in Automation, NEW row \in Row, NEW v \in Version, NEW on \in BOOLEAN
  PROVE  [Stamped(row, v, RouteOf[a]) EXCEPT !.enabled = on] \in Row
<1> DEFINE i == IndexIn(v, RouteOf[a])
<1>1. CASE i = NoRow
  BY <1>1 DEF Stamped, Row
<1>2. CASE i # NoRow
  <2>1. i \in Index
    BY <1>2, IndexFinds
  <2>2. Stamped(row, v, RouteOf[a]) = [row EXCEPT !.index = i, !.ver = v]
    BY <1>2 DEF Stamped
  <2> HIDE DEF i
  <2> QED
    BY <2>1, <2>2 DEF Row
<1> QED
  BY <1>1, <1>2

\* A row that is stamped with the index its route has is right whatever it was.
LEMMA RestampedRight ==
  ASSUME NEW a \in Automation, NEW row \in Row, NEW v \in Version, NEW on \in BOOLEAN,
         IndexIn(v, RouteOf[a]) # NoRow
  PROVE  RowRight(a, [Stamped(row, v, RouteOf[a]) EXCEPT !.enabled = on])
<1> DEFINE i == IndexIn(v, RouteOf[a])
           new == [Stamped(row, v, RouteOf[a]) EXCEPT !.enabled = on]
<1>1. i \in Index
  BY IndexFinds
<1>2. new = [[row EXCEPT !.index = i, !.ver = v] EXCEPT !.enabled = on]
  BY DEF Stamped
<1> HIDE DEF i
<1>3. new.ver = v /\ new.index = i
  BY <1>1, <1>2 DEF Row
<1> QED
  BY <1>3 DEF RowRight, i

\* What a build makes of a row is a row; it is right if the row is still the one read.
LEMMA PatchedRight ==
  ASSUME NEW a \in Automation, NEW row \in Row, NEW seen \in Row, NEW v \in Version
  PROVE  LET new == Patched(row, seen, v, RouteOf[a])
         IN  new \in Row /\ (row = seen => RowRight(a, new))
<1> DEFINE i == IndexIn(v, RouteOf[a])
           new == Patched(row, seen, v, RouteOf[a])
<1>1. i \in Index \cup {NoRow}
  BY IndexFinds
<1>2. new = [row EXCEPT !.ver = IF seen.ver # v THEN v ELSE row.ver,
                        !.index = IF i # NoRow /\ seen.index # i THEN i ELSE row.index,
                        !.enabled = IF i = NoRow /\ seen.enabled THEN FALSE ELSE row.enabled]
  BY DEF Patched
<1> HIDE DEF i, new
<1>3. new \in Row
  BY <1>1, <1>2 DEF Row
<1>4. ASSUME row = seen PROVE new.ver = v /\ i \in {NoRow, new.index}
  BY <1>1, <1>2, <1>4 DEF Row
<1> QED
  BY <1>3, <1>4 DEF RowRight, i, new
\* The steps that leave the sets and the controller's table as they are.
LEMMA RowStep ==
  ASSUME Inv, TypeOK', RowsRight', strayed' = strayed,
         \A who \in Source : hooks'[who] \in {hooks[who], NoSet, Unread},
         retained' = retained, wire' = wire, flash' = flash, staged' = staged,
         table' = table, baked' = baked
  PROVE  Inv'
<1>1. SetsRight'
  BY DEF Inv, SetsRight, SetRight
<1>2. TableRight'
  BY DEF Inv, TableRight
<1> QED
  BY <1>1, <1>2 DEF Inv

\* An operator's change of a row.
LEMMA EditKeeps ==
  ASSUME Inv, NEW t \in [Automation -> Row \cup {NoRow}], Edit(t),
         created' \in 0 .. NumAutos, torn' \subseteq Automation,
         \A a \in Automation \ torn' : RowRight(a, t[a])
  PROVE  Inv'
<1>1. ChangeRows("page", t) /\ "page" \in Source
  BY DEF Edit, Source
<1>2. /\ rows' \in [Automation -> Row \cup {NoRow}]
      /\ hooks' \in [Source -> Set \cup {NoSet, Unread}]
      /\ \A who \in Source : hooks'[who] \in {hooks[who], Unread}
  BY <1>1, ChangeKeeps
<1>3. edits' \in 0 .. MaxEdits
  BY AutomationsAssumption DEF Edit, Inv, TypeOK
<1>4. TypeOK'
  BY <1>2, <1>3 DEF Inv, TypeOK, Edit, device
<1>5. RowsRight'
  BY <1>1 DEF ChangeRows, RowsRight
<1> QED
  BY <1>2, <1>4, <1>5, RowStep DEF Edit, device

LEMMA CreateRowKeeps ==
  ASSUME Inv, NEW a \in Automation, CreateRow(a)
  PROVE  Inv'
<1> DEFINE new == [index |-> IndexIn(page, RouteOf[a]), ver |-> page, enabled |-> TRUE]
           t == [rows EXCEPT ![a] = new]
<1>1. page \in Version /\ IndexIn(page, RouteOf[a]) \in Index
  BY IndexFinds DEF Inv, TypeOK, CreateRow
<1>2. new \in Row /\ RowRight(a, new)
  BY <1>1 DEF Row, RowRight
<1>3. t \in [Automation -> Row \cup {NoRow}]
  BY <1>2 DEF Inv, TypeOK
<1>4. torn' = torn /\ \A b \in Automation \ torn : RowRight(b, t[b])
  BY <1>2 DEF Inv, TypeOK, RowsRight, CreateRow
<1>5. Edit(t) /\ created' \in 0 .. NumAutos /\ torn' \subseteq Automation
  BY <1>4, AutomationsAssumption DEF CreateRow, Automation, Inv, TypeOK
<1> HIDE DEF t
<1> QED
  BY <1>3, <1>4, <1>5, EditKeeps

LEMMA SaveRowKeeps ==
  ASSUME Inv, NEW a \in Automation, NEW on \in BOOLEAN, SaveRow(a, on)
  PROVE  Inv'
<1> DEFINE new == [Stamped(rows[a], page, RouteOf[a]) EXCEPT !.enabled = on]
           t == [rows EXCEPT ![a] = new]
<1>1. page \in Version /\ rows[a] \in Row
  BY DEF Inv, TypeOK, SaveRow, Edit
<1>2. new \in Row /\ (a \notin torn' => RowRight(a, new))
  <2>1. CASE a \in torn /\ IndexIn(page, RouteOf[a]) # NoRow
    BY <1>1, <2>1, StampedType, RestampedRight
  <2>2. CASE a \in torn /\ IndexIn(page, RouteOf[a]) = NoRow
    BY <1>1, <2>2, StampedType DEF SaveRow
  <2>3. CASE a \notin torn
    BY <1>1, <2>3, StampedRight DEF Inv, RowsRight
  <2> QED
    BY <2>1, <2>2, <2>3
<1>3. t \in [Automation -> Row \cup {NoRow}]
  BY <1>2 DEF Inv, TypeOK
<1>4. torn' \subseteq Automation /\ \A b \in torn : b # a => b \in torn'
  BY DEF SaveRow, Inv, TypeOK
<1>6. \A b \in Automation \ torn' : RowRight(b, t[b])
  <2>1. \A b \in Automation : t[b] = IF b = a THEN new ELSE rows[b]
    BY DEF Inv, TypeOK
  <2> HIDE DEF t, new
  <2> QED
    BY <1>2, <1>4, <2>1 DEF Inv, RowsRight
<1>5. Edit(t) /\ created' \in 0 .. NumAutos
  BY DEF SaveRow, Inv, TypeOK
<1> HIDE DEF t
<1> QED
  BY <1>3, <1>4, <1>5, <1>6, EditKeeps

LEMMA RemoveRowKeeps ==
  ASSUME Inv, NEW a \in Automation, RemoveRow(a)
  PROVE  Inv'
<1> DEFINE t == [rows EXCEPT ![a] = NoRow]
<1>1. t \in [Automation -> Row \cup {NoRow}]
  BY DEF Inv, TypeOK
<1>2. torn' = torn /\ \A b \in Automation \ torn : RowRight(b, t[b])
  BY DEF Inv, TypeOK, RowsRight, RowRight, RemoveRow
<1>3. Edit(t) /\ created' \in 0 .. NumAutos /\ torn' \subseteq Automation
  BY <1>2 DEF RemoveRow, Inv, TypeOK
<1> HIDE DEF t
<1> QED
  BY <1>1, <1>2, <1>3, EditKeeps

\* The steps of the operator and the build that do not touch a row.
LEMMA DesignKeeps ==
  ASSUME Inv,
         OpenPage \/ StartBuild \/ ReadRows \/ FinishBuild \/ \E v \in Version : Redesign(v)
  PROVE  Inv'
<1>1. CASE OpenPage
  <2>1. TypeOK'
    BY <1>1 DEF Inv, TypeOK, OpenPage, device, bounds, history
  <2>2. RowsRight'
    BY <1>1 DEF Inv, RowsRight, OpenPage, history
  <2> QED
    BY <1>1, <2>1, <2>2, RowStep DEF OpenPage, device, history
<1>2. CASE StartBuild
  <2>1. build' \in [ver : Version, read : {Unread} \cup [Automation -> Row \cup {NoRow}],
                    next : 1 .. NumAutos + 1]
    BY <1>2, AutomationsAssumption DEF Inv, TypeOK, StartBuild
  <2>2. builds' \in 0 .. MaxBuilds
    BY <1>2, AutomationsAssumption DEF Inv, TypeOK, StartBuild
  <2>3. TypeOK'
    BY <1>2, <2>1, <2>2 DEF Inv, TypeOK, StartBuild, device, history
  <2>4. RowsRight'
    BY <1>2 DEF Inv, RowsRight, StartBuild, history
  <2> QED
    BY <1>2, <2>3, <2>4, RowStep DEF StartBuild, device, history
<1>3. CASE FinishBuild
  <2>1. TypeOK'
    BY <1>3 DEF Inv, TypeOK, FinishBuild, device, bounds, history
  <2>2. RowsRight'
    BY <1>3 DEF Inv, RowsRight, FinishBuild, history
  <2> QED
    BY <1>3, <2>1, <2>2, RowStep DEF FinishBuild, device, history
<1>4. ASSUME NEW v \in Version, Redesign(v) PROVE Inv'
  <2>1. designs' \in 0 .. MaxDesigns
    BY <1>4, AutomationsAssumption DEF Inv, TypeOK, Redesign
  <2>2. TypeOK'
    BY <1>4, <2>1 DEF Inv, TypeOK, Redesign, device, history
  <2>3. RowsRight'
    BY <1>4 DEF Inv, RowsRight, Redesign, history
  <2> QED
    BY <1>4, <2>2, <2>3, RowStep DEF Redesign, device, history
<1>5. CASE ReadRows
  <2>1. build \in [ver : Version, read : {Unread} \cup [Automation -> Row \cup {NoRow}],
                   next : 1 .. NumAutos + 1]
    BY <1>5 DEF Inv, TypeOK, ReadRows
  <2>2. build' = [build EXCEPT !.read = rows] /\ rows \in [Automation -> Row \cup {NoRow}]
    BY <1>5 DEF Inv, TypeOK, ReadRows
  <2>3. build' \in [ver : Version, read : {Unread} \cup [Automation -> Row \cup {NoRow}],
                    next : 1 .. NumAutos + 1]
    BY <2>1, <2>2
  <2>4. TypeOK'
    BY <1>5, <2>3 DEF Inv, TypeOK, ReadRows, device, bounds, history
  <2>5. RowsRight'
    BY <1>5 DEF Inv, RowsRight, ReadRows, history
  <2> QED
    BY <1>5, <2>4, <2>5, RowStep DEF ReadRows, device, history
<1> QED
  BY <1>1, <1>2, <1>3, <1>4, <1>5

\* A build patches the row it has come to, from the list it has read.
LEMMA RestampKeeps ==
  ASSUME Inv, NEW a \in Automation, Restamp(a)
  PROVE  Inv'
<1> DEFINE Builds == [ver : Version, read : {Unread} \cup [Automation -> Row \cup {NoRow}],
                      next : 1 .. NumAutos + 1]
           seen == build.read[a]
           new == Patched(rows[a], seen, build.ver, RouteOf[a])
           t == [rows EXCEPT ![a] = new]
<1>1. /\ build \in Builds /\ build # NoBuild
      /\ build.ver \in Version /\ build.read \in [Automation -> Row \cup {NoRow}]
  BY DEF Inv, TypeOK, Restamp
<1>2. build' \in Builds
  <2>1. build' = [build EXCEPT !.next = a + 1] /\ a + 1 \in 1 .. NumAutos + 1
    BY AutomationsAssumption DEF Restamp, Automation
  <2> QED
    BY <1>1, <2>1
<1>3. CASE rows' = rows /\ hooks' = hooks /\ torn' = torn
  <2>1. TypeOK'
    BY <1>2, <1>3 DEF Inv, TypeOK, Restamp, device, bounds
  <2>2. RowsRight'
    BY <1>3 DEF Inv, RowsRight
  <2> QED
    BY <1>3, <2>1, <2>2, RowStep DEF Restamp, device
<1>4. CASE /\ seen # NoRow /\ rows[a] # NoRow /\ ChangeRows("build", t)
           /\ torn' = IF rows[a] = seen THEN torn \ {a} ELSE torn \cup {a}
  <2>1. seen \in Row /\ rows[a] \in Row
    BY <1>1, <1>4 DEF Inv, TypeOK
  <2>2. new \in Row /\ (rows[a] = seen => RowRight(a, new))
    BY <1>1, <2>1, PatchedRight
  <2>3. t \in [Automation -> Row \cup {NoRow}]
    BY <2>2 DEF Inv, TypeOK
  <2>4. \A b \in Automation : t[b] = IF b = a THEN new ELSE rows[b]
    BY DEF Inv, TypeOK
  <2>5. "build" \in Source
    BY DEF Source
  <2> HIDE DEF t, new, seen
  <2>6. /\ rows' = t /\ rows' \in [Automation -> Row \cup {NoRow}]
        /\ hooks' \in [Source -> Set \cup {NoSet, Unread}]
        /\ \A who \in Source : hooks'[who] \in {hooks[who], Unread}
    BY <1>4, <2>3, <2>5, ChangeKeeps DEF ChangeRows
  <2>7. torn' \subseteq Automation
    BY <1>4 DEF Inv, TypeOK
  <2>8. TypeOK'
    BY <1>2, <2>6, <2>7 DEF Inv, TypeOK, Restamp, device, bounds
  <2>9. RowsRight'
    BY <1>4, <2>2, <2>4, <2>6 DEF Inv, RowsRight
  <2> QED
    BY <2>6, <2>8, <2>9, RowStep DEF Restamp, device
<1> QED
  BY <1>3, <1>4 DEF Restamp

-----------------------------------------------------------------------------
(* The server and the controller.                                          *)

\* The hook reads rows that are sound, or makes a set that is mixed.
LEMMA HookReadsKeeps ==
  ASSUME Inv, NEW who \in Source, HookReads(who)
  PROVE  Inv'
<1>1. Encoded(rows) \in Set /\ SetRight(Encoded(rows))
  BY EncodedType, EncodedRight DEF Inv, TypeOK, RowsRight
<1>2. /\ hooks' \in [Source -> Set \cup {NoSet, Unread}]
      /\ hooks'[who] = Encoded(rows)
      /\ \A w \in Source : w # who => hooks'[w] = hooks[w]
  BY <1>1 DEF Inv, TypeOK, HookReads
<1>3. TypeOK'
  BY <1>2 DEF Inv, TypeOK, HookReads, device, bounds, history
<1>4. \A w \in Source : hooks'[w] \notin {NoSet, Unread} => SetRight(hooks'[w])
  BY <1>1, <1>2 DEF Inv, SetsRight
<1>5. /\ retained' = retained /\ wire' = wire /\ flash' = flash /\ staged' = staged
      /\ table' = table /\ baked' = baked /\ rows' = rows /\ torn' = torn
      /\ strayed' = strayed
  BY DEF HookReads, device, history
<1>6. SetsRight'
  BY <1>4, <1>5 DEF Inv, SetsRight, SetRight
<1>7. TableRight' /\ RowsRight'
  BY <1>5 DEF Inv, TableRight, RowsRight
<1> QED
  BY <1>3, <1>6, <1>7 DEF Inv

\* What is published goes to the broker, and down the wire if the link is up.
LEMMA HookPublishesKeeps ==
  ASSUME Inv, NEW who \in Source, HookPublishes(who)
  PROVE  Inv'
<1>1. /\ hooks[who] \in Set /\ hooks[who] \notin {NoSet, Unread}
      /\ wire \in Seq(Set) /\ Len(wire) \in Nat
  BY LenProperties DEF Inv, TypeOK, HookPublishes
<1>2. /\ wire' \in Seq(Set) /\ Len(wire') \in Nat
      /\ \A i \in 1 .. Len(wire') :
           wire'[i] = hooks[who] \/ (i \in 1 .. Len(wire) /\ wire'[i] = wire[i])
  <2>1. CASE online
    <3>1. wire' = Append(wire, hooks[who])
      BY <2>1 DEF HookPublishes
    <3>2. /\ Append(wire, hooks[who]) \in Seq(Set)
          /\ Len(Append(wire, hooks[who])) = Len(wire) + 1
          /\ \A i \in 1 .. Len(wire) : Append(wire, hooks[who])[i] = wire[i]
          /\ Append(wire, hooks[who])[Len(wire) + 1] = hooks[who]
      BY <1>1, AppendProperties
    <3>3. \A i \in 1 .. Len(wire) + 1 : i \in 1 .. Len(wire) \/ i = Len(wire) + 1
      BY <1>1
    <3> QED
      BY <1>1, <3>1, <3>2, <3>3
  <2>2. CASE ~online
    BY <1>1, <2>2 DEF HookPublishes
  <2> QED
    BY <2>1, <2>2
<1>3. raced' \in BOOLEAN
  BY DEF HookPublishes, Same
<1>4. TypeOK'
  <2>1. hooks' \in [Source -> Set \cup {NoSet, Unread}] /\ retained' \in Set
    BY <1>1 DEF Inv, TypeOK, HookPublishes
  <2> QED
    BY <1>2, <1>3, <2>1 DEF Inv, TypeOK, HookPublishes, device, bounds
<1>5. SetRight(hooks[who])
  BY <1>1 DEF Inv, SetsRight
<1>6. SetsRight'
  <2>1. \A w \in Source : hooks'[w] \notin {NoSet, Unread} => SetRight(hooks'[w])
    BY DEF Inv, SetsRight, HookPublishes, TypeOK
  <2>2. \A i \in 1 .. Len(wire') : SetRight(wire'[i])
    BY <1>2, <1>5 DEF Inv, SetsRight
  <2>3. retained' = hooks[who] /\ flash' = flash /\ staged' = staged
    BY DEF HookPublishes, device
  <2> QED
    BY <1>5, <2>1, <2>2, <2>3 DEF Inv, SetsRight, SetRight
<1>7. TableRight' /\ RowsRight'
  BY DEF Inv, TableRight, RowsRight, HookPublishes, device
<1> QED
  BY <1>4, <1>6, <1>7 DEF Inv

\* A set the controller accepts for a table points right in it, or is mixed.
LEMMA AcceptedRight ==
  ASSUME NEW v, NEW set, SetRight(set), Accepts(v, set)
  PROVE  set.mixed \/ EntriesRight(v, set.entries)
BY DEF Accepts, SetRight, EntriesRight, Present

\* The steps that leave the rows and the publications as they are.
LEMMA DeviceStep ==
  ASSUME Inv, TypeOK', UNCHANGED <<cloud, torn>>,
         flash' # NoSet => SetRight(flash'),
         staged' # NoSet => SetRight(staged'),
         \A i \in 1 .. Len(wire') : SetRight(wire'[i]),
         strayed' \/ EntriesRight(baked', table')
  PROVE  Inv'
<1>1. /\ hooks' = hooks /\ retained' = retained /\ rows' = rows
      /\ torn' = torn
  BY DEF cloud
<1>2. SetsRight'
  BY <1>1 DEF Inv, SetsRight, SetRight
<1>3. TableRight' /\ RowsRight'
  BY <1>1 DEF Inv, TableRight, RowsRight
<1> QED
  BY <1>2, <1>3 DEF Inv

LEMMA ReceiveKeeps ==
  ASSUME Inv, Receive
  PROVE  Inv'
<1>1. wire \in Seq(Set) /\ wire # <<>> /\ wire' = Tail(wire) /\ Len(wire) \in Nat \ {0}
  BY EmptySeq DEF Inv, TypeOK, Receive
<1>2. /\ Head(wire) \in Set /\ Head(wire) = wire[1] /\ wire' \in Seq(Set)
      /\ Len(wire') = Len(wire) - 1
      /\ \A i \in 1 .. Len(wire') : wire'[i] = wire[i + 1]
  BY <1>1, HeadTailProperties
<1>3. TypeOK'
  <2>1. Head(wire).entries \in [Automation -> Entry \cup {NoRow}] /\ Head(wire).mixed \in BOOLEAN
    BY <1>2 DEF Set
  <2>2. /\ table' \in [Automation -> Entry \cup {NoRow}]
        /\ staged' \in Set \cup {NoSet} /\ strayed' \in BOOLEAN
    BY <1>2, <2>1 DEF Inv, TypeOK, Receive
  <2> QED
    BY <1>2, <2>2 DEF Inv, TypeOK, Receive, cloud, bounds
<1>4. SetRight(Head(wire)) /\ \A i \in 1 .. Len(wire') : SetRight(wire'[i])
  BY <1>1, <1>2 DEF Inv, SetsRight
<1>5. /\ flash' # NoSet => SetRight(flash')
      /\ staged' # NoSet => SetRight(staged')
  BY <1>4 DEF Inv, SetsRight, Receive
<1>6. strayed' \/ EntriesRight(baked', table')
  BY <1>4, AcceptedRight DEF Inv, TableRight, Receive
<1> QED
  BY <1>3, <1>4, <1>5, <1>6, DeviceStep DEF Receive

LEMMA FlushFlashKeeps ==
  ASSUME Inv, FlushFlash
  PROVE  Inv'
<1>1. TypeOK'
  BY DEF Inv, TypeOK, FlushFlash, cloud, bounds, history
<1> QED
  BY <1>1, DeviceStep DEF Inv, SetsRight, TableRight, FlushFlash, history

LEMMA BootKeeps ==
  ASSUME Inv, NEW v \in Version, Boot(v)
  PROVE  Inv'
<1>1. /\ flash = NoSet \/ flash \in Set
      /\ Empty \in [Automation -> Entry \cup {NoRow}]
  BY DEF Inv, TypeOK, Empty
<1>2. boots' \in 0 .. MaxBoots
  BY AutomationsAssumption DEF Inv, TypeOK, Boot
<1>3. table' \in [Automation -> Entry \cup {NoRow}] /\ strayed' \in BOOLEAN
  BY <1>1 DEF Boot, Set
<1>4. TypeOK'
  BY <1>2, <1>3, EmptySeq DEF Inv, TypeOK, Boot, cloud
<1>5. EntriesRight(v, Empty)
  BY DEF EntriesRight, Empty
<1>6. strayed' \/ EntriesRight(v, table')
  BY <1>5, AcceptedRight DEF Inv, SetsRight, Boot
<1>7. \A i \in 1 .. Len(wire') : SetRight(wire'[i])
  BY EmptySeq DEF Boot
<1> QED
  BY <1>4, <1>6, <1>7, DeviceStep DEF Inv, SetsRight, Boot

\* The broker's retained set is all a controller that connects has on its way.
LEMMA ConnectKeeps ==
  ASSUME Inv, Connect
  PROVE  Inv'
<1>1. /\ wire' = <<retained>> /\ retained \in Set /\ wire' \in Seq(Set)
      /\ Len(wire') = 1 /\ wire'[1] = retained
  BY DEF Inv, TypeOK, Connect
<1>2. TypeOK'
  BY <1>1 DEF Inv, TypeOK, Connect, cloud, bounds, history
<1>3. \A i \in 1 .. Len(wire') : SetRight(wire'[i])
  <2>1. \A i \in 1 .. Len(wire') : i = 1
    BY <1>1
  <2> QED
    BY <1>1, <2>1 DEF Inv, SetsRight
<1> QED
  BY <1>2, <1>3, DeviceStep DEF Inv, SetsRight, TableRight, Connect, history

LEMMA FirmwareReportedKeeps ==
  ASSUME Inv, FirmwareReported
  PROVE  Inv'
<1>1. /\ hooks' \in [Source -> Set \cup {NoSet, Unread}]
      /\ \A w \in Source : hooks'[w] \in {hooks[w], Unread}
  BY DEF Inv, TypeOK, FirmwareReported
<1>2. TypeOK'
  BY <1>1 DEF Inv, TypeOK, FirmwareReported, device, bounds, history
<1>3. RowsRight'
  BY DEF Inv, RowsRight, FirmwareReported, history
<1> QED
  BY <1>1, <1>2, <1>3, RowStep DEF FirmwareReported, device, history

\* A step that changes nothing.
LEMMA StutterKeeps ==
  ASSUME Inv, UNCHANGED vars
  PROVE  Inv'
<1> USE DEF vars, cloud, device, bounds, history
<1>1. TypeOK'
  BY DEF Inv, TypeOK
<1>2. RowsRight'
  BY DEF Inv, RowsRight
<1> QED
  BY <1>1, <1>2, RowStep

-----------------------------------------------------------------------------
(* Theorems.                                                               *)

\* Every step of the specification keeps the invariant.
LEMMA NextKeeps ==
  ASSUME Inv, [Next]_vars
  PROVE  Inv'
<1>1. CASE Operator
  BY <1>1, DesignKeeps, CreateRowKeeps, RemoveRowKeeps, SaveRowKeeps DEF Operator
<1>2. CASE Browser
  BY <1>2, DesignKeeps, RestampKeeps DEF Browser
<1>3. CASE Server
  BY <1>3, HookReadsKeeps, HookPublishesKeeps DEF Server
<1>4. CASE Controller
  BY <1>4, ReceiveKeeps, FlushFlashKeeps, ConnectKeeps, FirmwareReportedKeeps DEF Controller
<1>5. CASE Reboot
  BY <1>5, BootKeeps DEF Reboot, Inv, TypeOK
<1>6. ASSUME NEW v \in Version, Flash(v) PROVE Inv'
  BY <1>6, BootKeeps DEF Flash
<1>7. CASE UNCHANGED vars
  BY <1>7, StutterKeeps
<1> QED
  BY <1>1, <1>2, <1>3, <1>4, <1>5, <1>6, <1>7 DEF Next

THEOREM Invariance == Spec => []Inv
<1>1. Init => Inv
  BY InitInv
<1>2. Inv /\ [Next]_vars => Inv'
  BY NextKeeps
<1> QED
  BY <1>1, <1>2, PTL DEF Spec

\* Rows, builds, publications, the retained set and the controller's table keep
\* their types: in particular no index is ever written that no route has.
THEOREM TypeCorrect == Spec => []TypeOK
<1>1. Inv => TypeOK
  BY DEF Inv
<1> QED
  BY <1>1, Invariance, PTL

\* The index stamped on a row and the version of the table it is for keep an
\* enabled automation off another route's valve, whatever is redesigned, built,
\* flashed, lost before it was flushed, replayed by the broker or restored from
\* flash, unless the very set that runs was read from rows that were not sound.
THEOREM StampsGuardRoutes == Spec => []StampGuards
<1>1. Inv => StampGuards
  <2> SUFFICES ASSUME Inv, ~strayed, NEW a \in Automation,
                      table[a] # NoRow, table[a].enabled
               PROVE  TableOf[baked][table[a].index + 1] = RouteOf[a]
    BY DEF StampGuards, NoWrongRoute, PointsRight
  <2>1. EntriesRight(baked, table)
    BY DEF Inv, TableRight
  <2> QED
    BY <2>1 DEF EntriesRight, Right
<1> QED
  BY <1>1, Invariance, PTL
=============================================================================
