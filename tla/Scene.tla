------------------------------- MODULE Scene -------------------------------
(***************************************************************************)
(* A scene of the game server (Server/GameServer/Scene.cpp, with Grid.cpp, *)
(* GameObject/WorldObject.cpp and GameObject/PlayerObject.cpp): players    *)
(* enter, move and leave, and at the next tick the scene sends packets to  *)
(* those around a changed player.                                          *)
(*                                                                         *)
(* A player of the scene is a CPlayerObject on the heap.  It hangs on the  *)
(* list of the cell it stands in, and on the update list while others have *)
(* to hear of a change.  One thread runs commands and ticks; a tick takes  *)
(* the objects of the update list in the order of their addresses, which   *)
(* is no order a caller can tell.                                          *)
(*                                                                         *)
(* What a tick tells whom is the packet each SendXxx composes, and the     *)
(* connections it calls SendCmdToConnection with.  The code composes it in *)
(* a local WriteHelper and hands over m_WriteBuffer, which nothing writes: *)
(* the bytes reach nobody, and the model says nothing of clients.          *)
(***************************************************************************)
EXTENDS GridManager, LinkedList, FiniteSets, TLC, SequencesExt

CONSTANTS
    Players,      \* object IDs
    Objects,      \* addresses of CPlayerObject; bound: how many there are
    Places,       \* positions players enter at and move to
    FreshStatus   \* what the m_UpdateStatus of a new object may hold

ASSUME SceneAssumption ==
    /\ IsFiniteSet(Objects) /\ NULL \notin Objects /\ NULL \notin Cells
    /\ Places \subseteq [x : Int, z : Int]
    /\ FreshStatus \subseteq {"None", "Update", "New", "Delete"}

\* Rank of UpdateStatusEnum.
Rank(s) == CASE s = "None" -> 0 [] s = "Update" -> 1 [] s = "New" -> 2 [] s = "Delete" -> 3

VARIABLES
    players,     \* m_PlayerObjectMgr
    heap,        \* the objects that are allocated
    id, pos,     \* m_u64ObjectID, m_ObjectPos of an object
    synced,      \* m_UpdateObjPos
    status,      \* m_UpdateStatus
    inScene,     \* m_pOwnerScene is not NULL
    gridNext, gridPrev,
    head,        \* m_pHead of a cell
    updateList,  \* m_UpdateObjectMgr
    updating,    \* HandleUpdateList is in its loop
    stopped,     \* an index past the end of the vector: at() has thrown
    sends,       \* the SendCmdToConnection calls of the last step
    \* history
    stale        \* players made from memory that held UT_Delete

object == <<id, pos, synced, status, inScene>>
grids  == <<gridNext, gridPrev, head>>
vars   == <<players, heap, object, grids, updateList, updating, stopped, sends, stale>>

Origin == [x |-> 0, z |-> 0]

Init ==
    /\ players = [p \in Players |-> NULL]
    /\ heap = {}
    /\ id = [o \in Objects |-> NULL]
    /\ pos = [o \in Objects |-> Origin] /\ synced = pos
    /\ status = [o \in Objects |-> "None"]
    /\ inScene = [o \in Objects |-> FALSE]
    /\ gridNext = [o \in Objects |-> NULL] /\ gridPrev = gridNext
    /\ head = [g \in Cells |-> NULL]
    /\ updateList = {} /\ updating = FALSE /\ stopped = FALSE
    /\ sends = {} /\ stale = {}

IndexOf(o) == GetIndexByPos(pos[o])
-----------------------------------------------------------------------------
Links == [next |-> gridNext, prev |-> gridPrev, head |-> head]
LinksAre(l) == gridNext' = l.next /\ gridPrev' = l.prev /\ head' = l.head

\* The objects of a sequence of cells.
Near(gs) == FlattenSeq([i \in DOMAIN gs |-> Listed(Links, gs[i])])

\* A call, the packet composed for it and the players the packet is about.
Packet(to, what, about) == [to |-> to, what |-> what, about |-> about]

\* One about o for each of some objects, and one about them all for o.
ToEach(os, what, o) == {Packet(id[q], what, {id[o]}) : q \in os}
ToOne(o, what, os) == IF os = {} THEN {} ELSE {Packet(id[o], what, {id[q] : q \in os})}
-----------------------------------------------------------------------------
(* Commands.  None comes in while HandleUpdateList runs.                     *)

\* A registered player has been freed: whatever comes next reads its memory.
\* The model ends there.
Dangling == \E p \in Players : players[p] \notin heap \cup {NULL}

Command == ~updating /\ ~stopped /\ ~Dangling

SetUpdateFirst(o, s, old) ==
    /\ status' = [status EXCEPT ![o] = IF old = "None" THEN s ELSE old]
    /\ updateList' = updateList \cup {o}

SetUpdateOnce(o, s, old) ==
    /\ status' = [status EXCEPT ![o] = IF Rank(s) > Rank(old) THEN s ELSE old]
    /\ updateList' = IF Rank(s) > Rank(old) THEN updateList \cup {o} ELSE updateList

\* SetUpdate keeps the strongest status; m_pOwnerScene is set.
SetUpdate(o, s, old) ==
    /\ status' = [status EXCEPT ![o] = IF Rank(s) > Rank(old) THEN s ELSE old]
    /\ updateList' = updateList \cup {o}

\* A player ID that is not in the scene: the new object is filled from the
\* packet and registered.  Nobody sets its m_UpdateStatus, and the memory of an
\* object that was freed holds UT_Delete, which SetUpdate does not lower.  If
\* AddToMap refuses its position it stays registered, in no cell, and nobody
\* reads its status.  (For an ID that is in the scene the new object is leaked
\* and nothing else changes.)
OnCmdCharEnterSceneReq(p, at) ==
    /\ Command
    /\ players[p] = NULL
    /\ \E o \in Objects \ heap, s \in FreshStatus :
          /\ heap' = heap \cup {o}
          /\ id' = [id EXCEPT ![o] = p]
          /\ pos' = [pos EXCEPT ![o] = at]
          /\ synced' = [synced EXCEPT ![o] = Origin]
          /\ players' = [players EXCEPT ![p] = o]
          /\ \/ /\ GetIndexByPos(at) = -1
                /\ status' = [status EXCEPT ![o] = "None"]
                /\ inScene' = [inScene EXCEPT ![o] = FALSE]
                /\ sends' = {}
                /\ stale' = stale \ {o}
                /\ UNCHANGED <<grids, updateList>>
             \/ /\ GetIndexByPos(at) # -1
                /\ LinksAre(PushFront(Links, o, GetIndexByPos(at)))
                /\ inScene' = [inScene EXCEPT ![o] = TRUE]
                /\ SetUpdate(o, "New", s)
                /\ sends' = {Packet(p, "enter", {p})}
                /\ stale' = IF s = "Delete" THEN stale \cup {o} ELSE stale \ {o}
    /\ UNCHANGED <<updating, stopped>>

\* From cell to cell, unless it stands in none (AddToMap has refused it) or
\* stays in its own.
MovedLinks(o, dst) ==
    IF IndexOf(o) = dst THEN Links
    ELSE IF IndexOf(o) = -1 THEN PushFront(Links, o, dst)
    ELSE PushFront(Unlink(Links, o, IndexOf(o)), o, dst)

OnCmdPlayerMove(p, to) ==
    LET o == players[p] IN
    /\ Command
    /\ o # NULL
    /\ GetIndexByPos(to) # -1
    /\ LinksAre(MovedLinks(o, GetIndexByPos(to)))
    /\ pos' = [pos EXCEPT ![o] = to]
    /\ IF inScene[o] THEN SetUpdate(o, "Update", status[o]) ELSE UNCHANGED <<status, updateList>>
    /\ sends' = {}
    /\ UNCHANGED <<players, heap, id, synced, inScene, updating, stopped, stale>>

\* The object is gone; what it held is forgotten.
Discard(o) ==
    /\ heap' = heap \ {o}
    /\ id' = [id EXCEPT ![o] = NULL]
    /\ pos' = [pos EXCEPT ![o] = Origin] /\ synced' = [synced EXCEPT ![o] = Origin]
    /\ status' = [status EXCEPT ![o] = "None"] /\ inScene' = [inScene EXCEPT ![o] = FALSE]

\* RemoveFromMap, and the player is no longer registered.  The object of one
\* that AddToMap had refused is leaked: no pointer to it is left.
OnCmdLeaveGameReq(p) ==
    LET o == players[p] IN
    /\ Command
    /\ o # NULL
    /\ IF IndexOf(o) = -1 THEN UNCHANGED grids
       ELSE LinksAre(Unlink(Links, o, IndexOf(o)))
    /\ players' = [players EXCEPT ![p] = NULL]
    /\ IF inScene[o]
       THEN SetUpdate(o, "Delete", status[o]) /\ UNCHANGED <<heap, id, pos, synced, inScene>>
       ELSE Discard(o) /\ UNCHANGED updateList
    /\ sends' = {} /\ stale' = stale \ {o}
    /\ UNCHANGED <<updating, stopped>>
-----------------------------------------------------------------------------
(* The packets of a tick.                                                    *)

\* Who stands in some cells, and who of them has another ID than o.
InGrids(gs) == ToSet(Near(gs))
Others(gs, o) == {q \in InGrids(gs) : id[q] # id[o]}

SendNewObjectToGrids(o, gs) == ToEach(Others(gs, o), "add", o)
SendNewGridsToObject(gs, o) == ToOne(o, "add", Others(gs, o))
SendUpdateObjectToMyself(o) == ToOne(o, "update", {o})
SendUpdateObjectToGrids(o, gs) == ToEach(Others(gs, o), "update", o)
SendRemoveObjectToGrids(o, gs) == ToEach(InGrids(gs), "remove", o)
SendRemoveGridsToPlayer(gs, o) == ToOne(o, "remove", InGrids(gs))
-----------------------------------------------------------------------------
(* HandleUpdateList: one object of the update list after the other.          *)

Take(o) ==
    /\ ~stopped /\ ~Dangling
    /\ o \in updateList
    /\ updateList' = updateList \ {o}
    /\ updating' = (updateList' # {})
    /\ UNCHANGED <<players, grids, stale>>

InVector(gs) == \A i \in DOMAIN gs : gs[i] \in Cells

\* The cells HandleUpdateObject looks into.
Touched(o) ==
    LET dst == GetSurroundingGrids(IndexOf(o)) IN
    IF status[o] = "Update" THEN GetSurroundingGrids(GetIndexByPos(synced[o])) \o dst ELSE dst

\* The cell at the bottom of the map has no row below: GetGridByIndex throws,
\* and nothing catches.  (What was sent before is not told apart.)
HandleUpdateThrows(o) ==
    /\ Take(o)
    /\ ~InVector(Touched(o))
    /\ stopped' = TRUE
    /\ sends' = {}
    /\ UNCHANGED <<heap, object>>

HandleUpdateNew(o) ==
    LET gs == GetSurroundingGrids(IndexOf(o)) IN
    /\ Take(o)
    /\ status[o] = "New"
    /\ InVector(Touched(o))
    /\ sends' = SendNewObjectToGrids(o, gs) \cup SendNewGridsToObject(gs, o)
    /\ synced' = [synced EXCEPT ![o] = pos[o]]
    /\ status' = [status EXCEPT ![o] = "None"]
    /\ UNCHANGED <<heap, id, pos, inScene, stopped>>

HandleUpdateDelete(o) ==
    /\ Take(o)
    /\ status[o] = "Delete"
    /\ InVector(Touched(o))
    /\ sends' = SendRemoveObjectToGrids(o, GetSurroundingGrids(IndexOf(o)))
    /\ Discard(o)
    /\ UNCHANGED stopped

\* Within the cell: m_UpdateStatus keeps its value.
HandleUpdateInCell(o) ==
    LET gs == GetSurroundingGrids(IndexOf(o)) IN
    /\ Take(o)
    /\ status[o] = "Update"
    /\ InVector(Touched(o))
    /\ GetIndexByPos(synced[o]) = IndexOf(o)
    /\ sends' = SendUpdateObjectToMyself(o) \cup SendUpdateObjectToGrids(o, gs)
    /\ synced' = [synced EXCEPT ![o] = pos[o]]
    /\ UNCHANGED <<heap, id, pos, status, inScene, stopped>>

HandleUpdateMoved(o) ==
    LET diff == CalDiffGrids(GetIndexByPos(synced[o]), IndexOf(o)) IN
    /\ Take(o)
    /\ status[o] = "Update"
    /\ InVector(Touched(o))
    /\ GetIndexByPos(synced[o]) # IndexOf(o)
    /\ sends' = SendUpdateObjectToMyself(o) \cup SendUpdateObjectToGrids(o, diff.stay)
                \cup SendNewObjectToGrids(o, diff.inc) \cup SendNewGridsToObject(diff.inc, o)
                \cup SendRemoveObjectToGrids(o, diff.dec) \cup SendRemoveGridsToPlayer(diff.dec, o)
    /\ synced' = [synced EXCEPT ![o] = pos[o]]
    /\ status' = [status EXCEPT ![o] = "None"]
    /\ UNCHANGED <<heap, id, pos, inScene, stopped>>
-----------------------------------------------------------------------------
Commands == \E p \in Players, at \in Places :
                \/ OnCmdCharEnterSceneReq(p, at)
                \/ OnCmdPlayerMove(p, at)
                \/ OnCmdLeaveGameReq(p)

HandleUpdateObject(o) == \/ HandleUpdateNew(o) \/ HandleUpdateDelete(o)
                         \/ HandleUpdateInCell(o) \/ HandleUpdateMoved(o)
                         \/ HandleUpdateThrows(o)

Next == Commands \/ \E o \in Objects : HandleUpdateObject(o)

Spec == Init /\ [][Next]_vars
-----------------------------------------------------------------------------
(* Properties *)

MaybeObject == Objects \cup {NULL}
Positions == Places \cup {Origin}

TypeOK ==
    /\ players \in [Players -> MaybeObject] /\ heap \subseteq Objects
    /\ id \in [Objects -> Players \cup {NULL}]
    /\ pos \in [Objects -> Positions] /\ synced \in [Objects -> Positions]
    /\ status \in [Objects -> {"None", "Update", "New", "Delete"}]
    /\ inScene \in [Objects -> BOOLEAN]
    /\ gridNext \in [Objects -> MaybeObject] /\ gridPrev \in [Objects -> MaybeObject]
    /\ head \in [Cells -> MaybeObject]
    /\ updateList \subseteq Objects /\ updating \in BOOLEAN /\ stopped \in BOOLEAN
    /\ \A m \in sends : m.what \in {"enter", "add", "update", "remove"}
    /\ stale \subseteq Objects

\* The objects players[p] stands for.
Registered == {players[p] : p \in Players} \ {NULL}

\* Until a registered player is freed, each cell's list holds the registered
\* players that stand in the cell and nothing else: a command finds the list a
\* player is on by computing the cell from its position again.
ListsHoldThePlayers ==
  ~Dangling =>
    /\ \A g \in Cells : IsListOf(Links, g, {o \in Registered : IndexOf(o) = g})
    /\ \A o \in Objects \ Registered : gridNext[o] = NULL /\ gridPrev[o] = NULL

\* An object is freed once, and only when nothing refers to it any more, unless
\* it was made from memory that held UT_Delete: the other registered players
\* and the objects on the update list are on the heap, a player under its own
\* ID, and an object that has left waits for the tick that frees it.
HeapSound ==
    /\ \A p \in Players : players[p] # NULL =>
           IF players[p] \in heap THEN id[players[p]] = p ELSE players[p] \in stale
    /\ updateList \subseteq heap
    /\ ~stopped => \A o \in heap \ Registered : o \in updateList /\ status[o] = "Delete"

\* What no tick has taken out yet is on the update list, with the right
\* status: no change is lost, a tick meets no object without one, and it deletes
\* only players that have left or were made from memory that held UT_Delete.
ChangesAreListed ==
    ~stopped => \A o \in heap :
        /\ inScene[o] /\ (pos[o] # synced[o] \/ status[o] \in {"New", "Delete"}) => o \in updateList
        /\ o \in updateList => inScene[o] /\ status[o] # "None"
        /\ o \in updateList => IndexOf(o) # -1
        /\ status[o] = "Delete" => o \notin Registered \/ o \in stale

\* Nobody is ever announced in the last row of the map: the server stops at
\* the first tick that meets a player there.
LastRowStops ==
    /\ \A o \in heap : inScene[o] /\ status[o] = "None" =>
           RowOf(GetIndexByPos(synced[o])) < MaxRows - 1
    /\ stopped => \E o \in heap : RowOf(IndexOf(o)) = MaxRows - 1

\* Players within sight of a cell.
Watchers(n) == {q \in Registered : IndexOf(q) # -1 /\ InSight(IndexOf(q), n)}

\* What the tick that takes o owes, by who sees the cell it was last sent out
\* from (m_UpdateObjPos) and who the cell it stands in.
Due(o) ==
    LET new == Watchers(IndexOf(o))
        old == Watchers(GetIndexByPos(synced[o]))
        But(os) == {q \in os : id[q] # id[o]}
    IN  CASE status[o] = "New" -> ToEach(But(new), "add", o) \cup ToOne(o, "add", But(new))
          [] status[o] = "Delete" -> ToEach(new, "remove", o)
          [] OTHER -> ToOne(o, "update", {o})
                      \cup ToEach(But(new \cap old), "update", o)
                      \cup ToEach(But(new \ old), "add", o) \cup ToOne(o, "add", But(new \ old))
                      \cup ToEach(old \ new, "remove", o) \cup ToOne(o, "remove", old \ new)

\* A tick calls SendCmdToConnection for exactly those who see the changed player,
\* have come into its sight or have gone out of it, with the packet that is due
\* to each, wherever on the map it moved and however the cells' lists came about.
\* (Where the others stand counts, not where they were last sent out from: two
\* who move in one tick may never be added to each other.  See the README.)
TellsWhoSees == [][\A o \in updateList \ updateList' : ~stopped' => sends' = Due(o)]_vars
=============================================================================
