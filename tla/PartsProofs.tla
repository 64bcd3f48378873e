----------------------------- MODULE PartsProofs -----------------------------
(***************************************************************************)
(* Proofs about the parts that MCParts puts side by side: the network      *)
(* table and its upload, the sensors, the disks, the CPUs and the sizes    *)
(* for HPL, in this order.  They share no variable, and no proof about one *)
(* uses a fact about another.                                              *)
(***************************************************************************)
EXTENDS NicTable, Sensors, Disks, CpuUsage, HplSizes, NatFacts

-----------------------------------------------------------------------------
(***************************************************************************)
(* NicTable: any list of cards                                             *)
(***************************************************************************)

RowType == [name : Names \cup {"none"}, hi : Names \cup {"none"}, lo : Names \cup {"none"}]

NicTypes ==
  /\ card \in [Names -> {"absent", "bare", "up"}]
  /\ changed \in BOOLEAN
  /\ pc \in {"idle", "name", "hi", "lo", "next"}
  /\ req \subseteq Places
  /\ nics \in Nat
  /\ nic_qty \in Nat
  /\ nic_data \in [Slots -> RowType]
  /\ up_pc \in {"scan", "hi", "lo", "send"}
  /\ i \in Nat
  /\ found \in BOOLEAN
  /\ id \in [hi : Names \cup {"none"}, lo : Names \cup {"none"}]

\* There is a row for every interface that may still need one, and no more rows
\* than interfaces; the reader stays within them.
NicRoom ==
  /\ nics <= Len(Cards)
  /\ \A r \in req : nics < r
  /\ pc = "idle" => nic_qty = nics
  /\ pc \in {"hi", "lo", "next"} => req # {}
  /\ nic_qty <= Len(Cards)
  /\ up_pc \in {"hi", "lo"} => i \in Slots

\* A row shows one of the cards with its whole address.
Whole(n) == nic_data[n].name # "none" /\ OwnAddress(n)

\* The rows before nics are whole; the row that is being written shows the
\* present card as far as the step says.
Filled ==
  /\ \A n \in 0..(nics - 1) : Whole(n)
  /\ pc \in {"hi", "lo", "next"} => nic_data[nics].name = Current
  /\ pc \in {"lo", "next"} => nic_data[nics].hi = Current
  /\ pc = "next" => nic_data[nics].lo = Current

NicInv == NicTypes /\ NicRoom /\ Filled

-----------------------------------------------------------------------------
\* The places of the kernel's list that get a row as long as nothing changes, and
\* the row each of them gets.
Live(place) == card[Cards[place]] = "up" /\ Cards[place] # "lo"
Kept == {place \in Places : Live(place)}
RowOf(place) == Cardinality({q \in Kept : q < place})

Shows(n, place) == nic_data[n] = [name |-> Cards[place], hi |-> Cards[place], lo |-> Cards[place]]

\* These places stand in the first so many rows, each in its own.
InTheirRows(places, count) ==
  /\ \A n \in 0..(count - 1) : \E place \in places : Shows(n, place)
  /\ \A place \in places : RowOf(place) \in 0..(count - 1) /\ Shows(RowOf(place), place)

\* In a round the places that are done come before those that are not; in the
\* first round they have rows.
ThisRound ==
  pc # "idle" =>
    /\ nics = Cardinality(Kept \ req)
    /\ \A place \in Kept \ req, r \in req : place < r
    /\ nic_qty = 0 => InTheirRows(Kept \ req, nics)

\* After the first round all have.
TableOfCards ==
  nic_qty > 0 => nic_qty = Cardinality(Kept) /\ InTheirRows(Kept, nic_qty)

Coming ==
  /\ pc # "idle" => \A r \in req : card[Cards[r]] = "up"
  /\ pc \in {"hi", "lo", "next"} => Live(First)

WiredUp(c) == c \in Wired /\ card[c] = "up"

\* What do_update has read so far.
Reader ==
  /\ found \/ up_pc # "scan" => nic_qty > 0
  /\ up_pc \in {"hi", "lo"} => i < nic_qty /\ nic_data[i].name \in Wired
  /\ up_pc = "lo" => id.hi = nic_data[i].name
  /\ (up_pc = "scan" /\ found) \/ up_pc = "send" => id.hi = id.lo /\ WiredUp(id.hi)

SteadyInv == ~changed => Coming /\ ThisRound /\ TableOfCards /\ Reader

-----------------------------------------------------------------------------
LEMMA FirstIsLeast ==
  ASSUME req \subseteq Places, req # {}
  PROVE  First \in req /\ \A m \in req : First <= m
<1>1. \E n \in req : \A m \in req : n <= m
  BY LeastNat DEF Places
<1> QED
  BY <1>1 DEF First

LEMMA PlacesOfCards ==
  /\ Len(Cards) \in Nat
  /\ \A n \in Places : Cards[n] \in Names /\ Cards[n] # "none"
BY CardsAssumption DEF Places, Names

LEMMA CurrentCard ==
  ASSUME NicTypes, NicRoom, req # {}
  PROVE  /\ First \in req /\ First \in Places /\ \A m \in Rest : First < m
         /\ Current \in Names /\ Current # "none"
         /\ nics \in Slots
<1>1. First \in req /\ First \in Places /\ \A m \in Rest : First < m
  <2>1. req \subseteq Nat /\ First \in req /\ \A m \in req : First <= m
    BY FirstIsLeast DEF NicTypes, Places
  <2> QED
    BY <2>1 DEF NicTypes, Rest
<1>2. Current \in Names /\ Current # "none"
  BY <1>1, PlacesOfCards DEF Current
<1>3. nics \in Slots
  BY <1>1, PlacesOfCards DEF NicTypes, NicRoom, Slots, Places
<1> QED
  BY <1>1, <1>2, <1>3

LEMMA SameCurrent == UNCHANGED req => UNCHANGED <<First, Current>>
BY DEF Current, First

\* What writing one field of the present row does to the table.
LEMMA PutField ==
  ASSUME NicTypes, NicRoom, req # {}, NEW field \in {"name", "hi", "lo"}, Put(field)
  PROVE  /\ nic_data' \in [Slots -> RowType]
         /\ \A n \in Slots \ {nics} : nic_data'[n] = nic_data[n]
         /\ nic_data'[nics] = [nic_data[nics] EXCEPT ![field] = Current]
BY CurrentCard DEF Put, NicTypes, RowType

-----------------------------------------------------------------------------
LEMMA InitNicTypes == Init => NicTypes
<1>1. Empty \in RowType
  BY DEF Empty, RowType
<1>2. ASSUME Init PROVE nic_data \in [Slots -> RowType] /\ card \in [Names -> {"absent", "bare", "up"}]
  BY <1>1, <1>2 DEF Init
<1>3. ASSUME Init PROVE id \in [hi : Names \cup {"none"}, lo : Names \cup {"none"}]
  BY <1>3 DEF Init
<1>4. ASSUME Init
      PROVE  /\ pc = "idle" /\ up_pc = "scan" /\ req \subseteq Places
             /\ nics \in Nat /\ nic_qty \in Nat /\ i \in Nat
             /\ changed \in BOOLEAN /\ found \in BOOLEAN
  BY <1>4 DEF Init
<1> QED
  BY <1>2, <1>3, <1>4 DEF NicTypes

LEMMA NextNicTypes == NicTypes /\ NicRoom /\ [Next]_vars => NicTypes'
<1> SUFFICES ASSUME NicTypes, NicRoom, [Next]_vars PROVE NicTypes'
  OBVIOUS
<1> USE DEF NicTypes, kernel, update, upload
<1>0. CASE FinishHardware
  BY <1>0 DEF FinishHardware
<1>1. CASE \E c \in Names : Change(c)
  <2>1. PICK c \in Names : Change(c)
    BY <1>1
  <2>2. card' \in [Names -> {"absent", "bare", "up"}]
    BY <2>1 DEF Change
  <2>3. changed' \in BOOLEAN /\ UNCHANGED <<pc, req, nics, nic_qty, nic_data, up_pc, i, found, id>>
    BY <2>1 DEF Change
  <2> QED
    BY <2>2, <2>3
<1>2. CASE List
  BY <1>2 DEF List
<1>3. CASE Skip
  BY <1>3 DEF Skip, Rest
<1>4. CASE PutName
  BY <1>4, PutField DEF PutName
<1>5. CASE PutAddress
  BY <1>5, PutField DEF PutAddress, NicRoom
<1>6. CASE NextCard
  BY <1>6 DEF NextCard, Rest
<1>7. CASE EndList
  BY <1>7 DEF EndList, SetQty
<1>8. CASE Scan
  BY <1>8 DEF Scan
<1>9. CASE Copy
  <2>1. nic_data[i][up_pc] \in Names \cup {"none"}
    BY <1>9 DEF Copy, NicRoom, RowType
  <2> QED
    BY <1>9, <2>1 DEF Copy
<1>10. CASE NoneFound \/ Send
  BY <1>10 DEF NoneFound, Send
<1>11. CASE UNCHANGED vars
  BY <1>11 DEF vars
<1> QED
  BY <1>0, <1>1, <1>2, <1>3, <1>4, <1>5, <1>6, <1>7, <1>8, <1>9, <1>10, <1>11
     DEF Next, GetNicInfo, DoUpdate

LEMMA InitRows == Init => NicRoom /\ Filled
BY PlacesOfCards DEF Init, NicRoom, Filled

LEMMA NextRoom == NicTypes /\ NicRoom /\ [Next]_vars => NicRoom'
<1> SUFFICES ASSUME NicTypes, NicRoom, [Next]_vars PROVE NicRoom'
  OBVIOUS
<1> USE PlacesOfCards DEF NicTypes, NicRoom, kernel, update, upload, Places, Slots
<1>1. CASE FinishHardware \/ \E c \in Names : Change(c)
  <2>1. UNCHANGED <<update, upload>>
    BY <1>1 DEF FinishHardware, Change
  <2> QED
    BY <2>1
<1>2. CASE List
  <2>1. req' \subseteq Places /\ nics' = 0 /\ pc' = "name"
    BY <1>2 DEF List
  <2> QED
    BY <1>2, <2>1 DEF List
<1>3. CASE Skip
  BY <1>3 DEF Skip, Rest
<1>4. CASE PutName
  BY <1>4 DEF PutName
<1>5. CASE PutAddress
  BY <1>5 DEF PutAddress
<1>6. CASE NextCard
  <2>1. /\ First \in Nat /\ First <= Len(Cards) /\ nics < First
        /\ \A m \in Rest : First < m /\ m \in Nat
    BY <1>6, CurrentCard DEF NextCard, Rest
  <2>2. nics' <= First
    BY <1>6, <2>1 DEF NextCard
  <2> QED
    BY <1>6, <2>1, <2>2 DEF NextCard
<1>7. CASE EndList
  BY <1>7 DEF EndList, SetQty
<1>8. CASE Scan
  BY <1>8 DEF Scan
<1>9. CASE Copy
  BY <1>9 DEF Copy
<1>10. CASE NoneFound \/ Send
  BY <1>10 DEF NoneFound, Send
<1>11. CASE UNCHANGED vars
  BY <1>11 DEF vars
<1> QED
  BY <1>1, <1>2, <1>3, <1>4, <1>5, <1>6, <1>7, <1>8, <1>9, <1>10, <1>11
     DEF Next, GetNicInfo, DoUpdate

LEMMA NextFilled == NicInv /\ [Next]_vars => Filled'
<1> SUFFICES ASSUME NicTypes, NicRoom, Filled, [Next]_vars PROVE Filled'
  BY DEF NicInv
<1> USE DEF Filled, Whole, OwnAddress
<1>1. CASE FinishHardware \/ \E c \in Names : Change(c)
  BY <1>1, SameCurrent DEF FinishHardware, Change, update
<1>2. CASE List
  BY <1>2 DEF List
<1>3. CASE Skip
  BY <1>3 DEF Skip, Rest, NicTypes
<1>4. CASE PutName
  <2>1. /\ UNCHANGED <<req, nics, Current>> /\ pc' = "hi" /\ nics \in Slots
        /\ \A n \in Slots \ {nics} : nic_data'[n] = nic_data[n]
        /\ nic_data'[nics] = [nic_data[nics] EXCEPT !["name"] = Current]
    BY <1>4, PutField, CurrentCard, SameCurrent DEF PutName
  <2>2. nic_data'[nics].name = Current
    BY <2>1 DEF NicTypes, RowType
  <2>3. \A n \in 0..(nics - 1) : n \in Slots \ {nics}
    BY <2>1 DEF NicTypes, Slots
  <2> QED
    BY <2>1, <2>2, <2>3 DEF NicTypes
<1>5. CASE PutAddress
  <2>1. /\ UNCHANGED <<req, nics, Current>> /\ nics \in Slots
        /\ \A n \in Slots \ {nics} : nic_data'[n] = nic_data[n]
        /\ nic_data'[nics] = [nic_data[nics] EXCEPT ![pc] = Current]
        /\ \/ pc = "hi" /\ pc' = "lo"
           \/ pc = "lo" /\ pc' = "next"
    BY <1>5, PutField, CurrentCard, SameCurrent DEF PutAddress, NicRoom
  <2>2. /\ nic_data'[nics].name = Current /\ nic_data'[nics].hi = Current
        /\ pc' = "next" => nic_data'[nics].lo = Current
    BY <1>5, <2>1 DEF PutAddress, NicTypes, RowType
  <2>3. \A n \in 0..(nics - 1) : n \in Slots \ {nics}
    BY <2>1 DEF NicTypes, Slots
  <2> QED
    BY <2>1, <2>2, <2>3 DEF NicTypes
<1>6. CASE NextCard
  <2>1. nics' = nics \/ nics' = nics + 1
    BY <1>6 DEF NextCard
  <2>2. Whole(nics)
    BY <1>6, CurrentCard DEF NextCard, NicRoom
  <2>3. \A n \in 0..nics : Whole(n)
    <3>1. \A n \in 0..nics : n \in 0..(nics - 1) \/ n = nics
      BY DEF NicTypes
    <3> QED
      BY <2>2, <3>1
  <2> QED
    BY <1>6, <2>1, <2>3 DEF NextCard, NicTypes
<1>7. CASE EndList
  BY <1>7 DEF EndList
<1>8. CASE DoUpdate
  BY <1>8, SameCurrent DEF DoUpdate, Scan, Copy, NoneFound, Send, update
<1>9. CASE UNCHANGED vars
  BY <1>9, SameCurrent DEF vars, update
<1> QED
  BY <1>1, <1>2, <1>3, <1>4, <1>5, <1>6, <1>7, <1>8, <1>9 DEF Next, GetNicInfo

LEMMA TableInductive == Spec => []NicInv
<1>1. Init => NicInv
  BY InitNicTypes, InitRows DEF NicInv
<1>2. NicInv /\ [Next]_vars => NicInv'
  BY NextNicTypes, NextRoom, NextFilled DEF NicInv
<1> QED
  BY <1>1, <1>2, PTL DEF Spec

\* Outside get_nic_info every row of the table shows a card under its own whole
\* address, whatever comes and goes and however often the kernel lists a card
\* (get_nic_info).
THEOREM TableAlwaysWhole == Spec => []TableWhole
<1>1. NicInv => TableWhole
  BY DEF NicInv, NicRoom, Filled, Whole, TableWhole
<1> QED
  BY TableInductive, <1>1, PTL

-----------------------------------------------------------------------------
LEMMA KeptFinite ==
  ASSUME NEW S, S \subseteq Kept
  PROVE  IsFiniteSet(S) /\ Cardinality(S) \in Nat
<1>1. S \in SUBSET (1..Len(Cards)) /\ Len(Cards) \in Nat
  BY PlacesOfCards DEF Kept, Places
<1> QED
  BY <1>1, CountUpTo

\* The present place gets the row that is written.
LEMMA RowOfFirst ==
  ASSUME NicTypes, ThisRound, pc # "idle", req # {}, Live(First)
  PROVE  RowOf(First) = nics /\ First \in Kept
<1>1. req \subseteq Nat /\ First \in req /\ First \in Places /\ \A m \in req : First <= m
  <2>1. req \subseteq Places
    BY DEF NicTypes
  <2>2. First \in req /\ \A m \in req : First <= m
    BY <2>1, FirstIsLeast
  <2> QED
    BY <2>1, <2>2, PlacesOfCards DEF Places
<1>2. {q \in Kept : q < First} = Kept \ req
  <2>1. ASSUME NEW q \in Kept, q < First PROVE q \notin req
    BY <1>1, <2>1 DEF Kept, Places
  <2>2. ASSUME NEW q \in Kept \ req PROVE q < First
    BY <1>1 DEF ThisRound
  <2> QED
    BY <2>1, <2>2
<1> QED
  BY <1>1, <1>2 DEF RowOf, ThisRound, Kept

\* In a later round it is there already.
LEMMA PutSame ==
  ASSUME NicTypes, ThisRound, TableOfCards, nic_qty > 0, pc # "idle", req # {}, Live(First),
         NEW field \in {"name", "hi", "lo"}, Put(field)
  PROVE  nic_data' = nic_data
<1>1. Shows(nics, First)
  BY RowOfFirst DEF TableOfCards, InTheirRows
<1>2. [nic_data[nics] EXCEPT ![field] = Current] = nic_data[nics]
  BY <1>1 DEF Shows, Current
<1> QED
  BY <1>2 DEF Put, NicTypes

LEMMA SameNicRows ==
  ASSUME UNCHANGED <<card, nic_data>>
  PROVE  /\ Kept' = Kept
         /\ \A S, count : InTheirRows(S, count) => InTheirRows(S, count)'
BY DEF Kept, Live, InTheirRows, Shows, RowOf

\* A step of the update thread after which the cards are the same.
LEMMA SteadyPut ==
  ASSUME NicInv, SteadyInv, ~changed, PutName \/ PutAddress
  PROVE  Coming' /\ ThisRound' /\ TableOfCards' /\ Reader'
<1>1. UNCHANGED <<req, nics, nic_qty, card, upload, First>>
  BY SameCurrent DEF PutName, PutAddress, kernel
<1>2. /\ pc \in {"name", "hi", "lo"} /\ pc' \in {"hi", "lo", "next"}
      /\ req # {}
  BY DEF PutName, PutAddress, NicInv, NicRoom
<1>3. Live(First)
  <2>1. CASE PutName
    BY <2>1, CurrentCard DEF PutName, Ignored, Live, SteadyInv, Coming, NicInv, Current
  <2>2. CASE PutAddress
    BY <2>2 DEF PutAddress, SteadyInv, Coming
  <2> QED
    BY <2>1, <2>2
<1>4. PICK field \in {"name", "hi", "lo"} : Put(field)
  BY DEF PutName, PutAddress
<1>5. Coming'
  BY <1>1, <1>2, <1>3 DEF SteadyInv, Coming, Live
<1>6. Kept' = Kept /\ \A place : RowOf(place)' = RowOf(place)
  BY <1>1 DEF Kept, Live, RowOf
<1>7. CASE nic_qty > 0
  <2>1. nic_data' = nic_data
    BY <1>2, <1>3, <1>4, <1>7, PutSame DEF SteadyInv, NicInv
  <2>2. ThisRound'
    BY <1>1, <1>2, <1>6, <1>7 DEF SteadyInv, ThisRound
  <2>3. TableOfCards'
    BY <1>1, <2>1, SameNicRows DEF SteadyInv, TableOfCards
  <2>4. Reader'
    BY <1>1, <2>1 DEF SteadyInv, Reader, WiredUp, upload
  <2> QED
    BY <1>5, <2>2, <2>3, <2>4
<1>8. CASE nic_qty = 0
  <2>1. \A n \in 0..(nics - 1) : nic_data'[n] = nic_data[n]
    BY <1>2, <1>4, PutField, CurrentCard DEF NicInv, NicTypes, Slots
  <2>2. InTheirRows(Kept \ req, nics)
    BY <1>2, <1>8 DEF SteadyInv, ThisRound
  <2>3. InTheirRows(Kept \ req, nics)'
    BY <1>1, <1>6, <2>1, <2>2 DEF InTheirRows, Shows
  <2>4. ThisRound'
    BY <1>1, <1>2, <1>6, <2>3 DEF SteadyInv, ThisRound
  <2>5. TableOfCards'
    BY <1>1, <1>8 DEF TableOfCards
  <2>6. Reader'
    BY <1>1, <1>8 DEF SteadyInv, Reader, upload, NicInv, NicTypes
  <2> QED
    BY <1>5, <2>4, <2>5, <2>6
<1> QED
  BY <1>7, <1>8 DEF NicInv, NicTypes

LEMMA SteadyReader ==
  ASSUME NicInv, SteadyInv, ~changed, UNCHANGED <<card, nic_qty, nic_data, upload>>
  PROVE  Reader' /\ TableOfCards'
<1>1. Reader'
  BY DEF SteadyInv, Reader, WiredUp, upload
<1>2. TableOfCards'
  BY SameNicRows DEF SteadyInv, TableOfCards
<1> QED
  BY <1>1, <1>2

LEMMA SteadyList ==
  ASSUME NicInv, SteadyInv, ~changed, List
  PROVE  Coming' /\ ThisRound' /\ TableOfCards' /\ Reader'
<1>1. /\ UNCHANGED <<card, nic_qty, nic_data, upload>> /\ nics' = 0 /\ pc' = "name"
      /\ req' = {n \in Places : card[Cards[n]] = "up"}
  BY DEF List, kernel
<1>2. Coming'
  BY <1>1 DEF Coming
<1>3. Kept' = Kept /\ Kept \ req' = {}
  BY <1>1 DEF Kept, Live
<1>4. InTheirRows({}, 0)' /\ Cardinality({}) = 0
  BY FS_EmptySet DEF InTheirRows
<1>5. ThisRound'
  BY <1>1, <1>3, <1>4 DEF ThisRound
<1> QED
  BY <1>1, <1>2, <1>5, SteadyReader

LEMMA SteadySkip ==
  ASSUME NicInv, SteadyInv, ~changed, Skip
  PROVE  Coming' /\ ThisRound' /\ TableOfCards' /\ Reader'
<1>1. /\ UNCHANGED <<card, pc, nics, nic_qty, nic_data, upload>>
      /\ pc = "name" /\ req # {} /\ req' = req \ {First}
  BY DEF Skip, kernel, Rest
<1>2. ~Live(First)
  BY <1>1, CurrentCard DEF Skip, Ignored, Current, Live, SteadyInv, Coming, NicInv
<1>3. Coming'
  BY <1>1 DEF SteadyInv, Coming
<1>4. Kept \ req' = Kept \ req /\ Kept' = Kept
  BY <1>1, <1>2 DEF Kept, Live
<1>5. ThisRound'
  BY <1>1, <1>4, SameNicRows DEF SteadyInv, ThisRound
<1> QED
  BY <1>1, <1>3, <1>5, SteadyReader

LEMMA SteadyNext ==
  ASSUME NicInv, SteadyInv, ~changed, NextCard
  PROVE  Coming' /\ ThisRound' /\ TableOfCards' /\ Reader'
<1>1. /\ UNCHANGED <<card, nic_qty, nic_data, upload>>
      /\ pc = "next" /\ pc' = "name" /\ req # {} /\ req' = req \ {First}
  BY DEF NextCard, kernel, Rest, NicInv, NicRoom
<1>2. First \in req /\ First \in Places /\ \A r \in req' : First < r
  BY <1>1, CurrentCard DEF NicInv, Rest
<1>3. nics' = nics + 1
  BY <1>1, <1>2 DEF NextCard, HasAddress, Current, SteadyInv, Coming
<1>4. Live(First) /\ First \in Kept /\ RowOf(First) = nics
  <2>1. Live(First)
    BY <1>1 DEF SteadyInv, Coming
  <2> QED
    BY <1>1, <2>1, RowOfFirst DEF SteadyInv, NicInv
<1>5. Shows(nics, First)
  BY <1>1, CurrentCard DEF NicInv, Filled, NicTypes, RowType, Shows, Current
<1>6. Coming'
  BY <1>1 DEF SteadyInv, Coming
<1>7. Kept' = Kept /\ Kept \ req' = (Kept \ req) \cup {First}
  BY <1>1, <1>2, <1>4, SameNicRows
<1>8. Cardinality((Kept \ req) \cup {First}) = nics + 1
  <2>1. nics = Cardinality(Kept \ req)
    BY <1>1 DEF SteadyInv, ThisRound
  <2>2. IsFiniteSet(Kept \ req)
    BY KeptFinite
  <2> QED
    BY <1>2, <2>1, <2>2, FS_AddElement
<1>9. ASSUME nic_qty = 0 PROVE InTheirRows((Kept \ req) \cup {First}, nics + 1)
  <2>1. InTheirRows(Kept \ req, nics) /\ nics \in Nat
    BY <1>1, <1>9 DEF SteadyInv, ThisRound, NicInv, NicTypes
  <2>2. \A n \in 0..((nics + 1) - 1) : n \in 0..(nics - 1) \/ n = nics
    BY <2>1
  <2>3. nics \in 0..((nics + 1) - 1) /\ \A n \in 0..(nics - 1) : n \in 0..((nics + 1) - 1)
    BY <2>1
  <2> QED
    BY <1>4, <1>5, <2>1, <2>2, <2>3 DEF InTheirRows
<1>10. ThisRound'
  <2>1. \A place \in (Kept \ req) \cup {First}, r \in req' : place < r
    BY <1>1, <1>2 DEF SteadyInv, ThisRound
  <2>2. nic_qty' = 0 => InTheirRows(Kept \ req, nics)'
    <3>1. \A place : RowOf(place)' = RowOf(place)
      BY <1>1, <1>7 DEF RowOf
    <3>2. ASSUME nic_qty' = 0 PROVE InTheirRows((Kept \ req) \cup {First}, nics + 1)
      BY <1>1, <1>9, <3>2
    <3> QED
      BY <1>1, <1>3, <1>7, <3>1, <3>2 DEF InTheirRows, Shows
  <2> QED
    BY <1>3, <1>7, <1>8, <2>1, <2>2 DEF ThisRound
<1> QED
  BY <1>1, <1>6, <1>10, SteadyReader

LEMMA SteadyEnd ==
  ASSUME NicInv, SteadyInv, ~changed, EndList
  PROVE  Coming' /\ ThisRound' /\ TableOfCards' /\ Reader'
<1>1. /\ UNCHANGED <<card, nics, nic_data, upload>>
      /\ pc = "name" /\ pc' = "idle" /\ req = {} /\ nic_qty' = nics
  BY DEF EndList, kernel, SetQty
<1>2. Coming' /\ ThisRound'
  BY <1>1 DEF Coming, ThisRound
<1>3. Kept' = Kept /\ nics = Cardinality(Kept) /\ (nic_qty = 0 => InTheirRows(Kept, nics))
  <2>1. Kept \ req = Kept
    BY <1>1
  <2> QED
    BY <1>1, <2>1, SameNicRows DEF SteadyInv, ThisRound
<1>4. CASE nic_qty = 0
  <2>1. TableOfCards'
    BY <1>1, <1>3, <1>4, SameNicRows DEF TableOfCards
  <2>2. Reader'
    BY <1>1, <1>4 DEF SteadyInv, Reader, upload
  <2> QED
    BY <1>2, <2>1, <2>2
<1>5. CASE nic_qty > 0
  <2>1. nic_qty' = nic_qty
    BY <1>1, <1>3, <1>5 DEF SteadyInv, TableOfCards
  <2> QED
    BY <1>1, <1>2, <2>1, SteadyReader
<1> QED
  BY <1>4, <1>5 DEF NicInv, NicTypes

\* The reader is told of a card while it is there, with its address.
LEMMA SteadyUpload ==
  ASSUME NicInv, SteadyInv, ~changed, DoUpdate
  PROVE  Coming' /\ ThisRound' /\ TableOfCards' /\ Reader'
<1>1. UNCHANGED <<kernel, update>>
  BY DEF DoUpdate, Scan, Copy, NoneFound, Send
<1>2. Coming' /\ ThisRound' /\ TableOfCards'
  BY <1>1, SameCurrent, SameNicRows
     DEF kernel, update, SteadyInv, Coming, ThisRound, TableOfCards, Live
<1>3. CASE Scan
  <2>1. /\ up_pc = "scan" /\ i < nic_qty /\ UNCHANGED <<nic_qty, nic_data, card, found, id>>
        /\ \/ nic_data[i].name \in Wired /\ up_pc' = "hi" /\ i' = i
           \/ up_pc' = "scan"
    BY <1>1, <1>3 DEF Scan, kernel, update, Ethernet
  <2>2. nic_qty' > 0
    BY <2>1 DEF NicInv, NicTypes
  <2>3. ~changed' /\ Reader'
    BY <1>1, <2>1, <2>2 DEF SteadyInv, Reader, kernel, WiredUp
  <2> QED
    BY <1>2, <2>3
<1>4. CASE Copy
  <2>1. i < nic_qty /\ nic_data[i].name \in Wired
    BY <1>4 DEF Copy, SteadyInv, Reader
  <2>2. PICK place \in Kept : Shows(i, place) /\ Live(place)
    <3>1. i \in 0..(nic_qty - 1) /\ nic_qty > 0
      BY <2>1 DEF NicInv, NicTypes
    <3> QED
      BY <3>1 DEF SteadyInv, TableOfCards, InTheirRows, Kept
  <2>3. /\ nic_data[i].name = Cards[place] /\ nic_data[i].hi = Cards[place] /\ nic_data[i].lo = Cards[place]
        /\ WiredUp(Cards[place])
    BY <2>1, <2>2 DEF Shows, Live, WiredUp
  <2>4. UNCHANGED <<nic_qty, nic_data, card, i>>
    BY <1>1, <1>4 DEF Copy, kernel, update
  <2>5. nic_qty' > 0
    BY <2>1, <2>4 DEF NicInv, NicTypes
  <2>6. CASE up_pc = "hi"
    <3>1. up_pc' = "lo" /\ id'.hi = Cards[place]
      BY <1>4, <2>3, <2>6 DEF Copy, NicInv, NicTypes
    <3> QED
      BY <1>2, <2>1, <2>3, <2>4, <2>5, <3>1 DEF Reader
  <2>7. CASE up_pc = "lo"
    <3>1. id.hi = Cards[place]
      BY <2>3, <2>7 DEF SteadyInv, Reader
    <3>2. up_pc' = "send" /\ id'.hi = Cards[place] /\ id'.lo = Cards[place]
      BY <1>4, <2>3, <2>7, <3>1 DEF Copy, NicInv, NicTypes
    <3> QED
      BY <1>2, <2>3, <2>4, <2>5, <3>2 DEF Reader, WiredUp
  <2> QED
    BY <1>4, <2>6, <2>7 DEF Copy
<1>5. CASE NoneFound \/ Send
  <2>1. /\ UNCHANGED <<nic_qty, nic_data, card, found, id>>
        /\ \/ up_pc = "scan" /\ found /\ up_pc' = "send"
           \/ up_pc = "scan" /\ ~found /\ up_pc' = "scan"
           \/ up_pc = "send" /\ up_pc' = "scan"
    BY <1>1, <1>5 DEF NoneFound, Send, kernel, update
  <2>2. Reader'
    BY <2>1 DEF SteadyInv, Reader, WiredUp
  <2> QED
    BY <1>2, <2>2
<1> QED
  BY <1>2, <1>3, <1>4, <1>5 DEF DoUpdate

LEMMA SteadyChange ==
  ASSUME NicInv, SteadyInv, NEW c \in Names, Change(c), ~changed'
  PROVE  Coming' /\ ThisRound' /\ TableOfCards' /\ Reader'
<1>1. ~changed /\ pc = "idle" /\ nic_qty = 0 /\ UNCHANGED <<update, upload>>
  <2>1. ~(changed \/ pc # "idle" \/ nic_qty > 0) /\ UNCHANGED <<update, upload>>
    BY DEF Change
  <2> QED
    BY <2>1 DEF NicInv, NicTypes
<1> QED
  BY <1>1 DEF SteadyInv, Coming, ThisRound, TableOfCards, Reader, update, upload

LEMMA InitSteady == Init => SteadyInv
BY DEF Init, SteadyInv, Coming, ThisRound, TableOfCards, Reader

LEMMA NextSteady == NicInv /\ SteadyInv /\ [Next]_vars => SteadyInv'
<1> SUFFICES ASSUME NicInv, SteadyInv, [Next]_vars, ~changed'
             PROVE  Coming' /\ ThisRound' /\ TableOfCards' /\ Reader'
  BY DEF SteadyInv
<1>1. CASE \E c \in Names : Change(c)
  BY <1>1, SteadyChange
<1>2. CASE GetNicInfo
  BY <1>2, SteadyList, SteadySkip, SteadyPut, SteadyNext, SteadyEnd
     DEF GetNicInfo, List, Skip, PutName, PutAddress, NextCard, EndList, kernel
<1>3. CASE DoUpdate
  BY <1>3, SteadyUpload DEF DoUpdate, Scan, Copy, NoneFound, Send, kernel
<1>4. CASE FinishHardware \/ UNCHANGED vars
  <2>1. UNCHANGED <<card, changed, update, upload>>
    BY <1>4 DEF FinishHardware, vars, kernel
  <2> QED
    BY <2>1, SameCurrent, SameNicRows, SteadyReader
       DEF update, SteadyInv, Coming, ThisRound, Live
<1> QED
  BY <1>1, <1>2, <1>3, <1>4 DEF Next

\* As long as the cards stay as they were first listed, the id that is sent is
\* the whole address of an ethernet card that is up, although it is copied in
\* two steps from a row that is written again in every round (do_update).
THEOREM SentIdAlways == Spec => []SentId
<1>1. SteadyInv => SentId
  BY DEF SteadyInv, Reader, WiredUp, SentId
<1> QED
  BY TableInductive, InitSteady, NextSteady, <1>1, PTL DEF Spec

-----------------------------------------------------------------------------
(***************************************************************************)
(* Sensors: any reports of ipmitool                                        *)
(***************************************************************************)

Reading == Nat \cup {Text, Blank}

SensorTypes ==
  /\ ipmi_log \in [Kinds -> Seq(Reading)]
  /\ kind \in Kinds \cup {"none"}
  /\ file \in [Kinds -> Seq(Reading)]
  /\ line \in Nat
  /\ value \in Nat
  /\ todo \in {"read", "store", "count"}
  /\ qty \in [Kinds -> 0..MaxSensors]
  /\ rows \in [Kinds -> [0..(MaxSensors - 1) -> [value : Nat, line : Nat]]]

Taken(k, l) == {j \in 1..l : file[k][j] # Text}

Before(k) == IF k = "fan" THEN Len(file["temp"]) ELSE 0

\* Row n of a table is what the file says.
GoodRow(k, n) ==
  LET row == rows[k][n]
  IN  /\ row.line \in 1..Len(file[k]) /\ file[k][row.line] # Text
      /\ Cardinality(Taken(k, row.line - 1)) = n
      /\ row.value = LastNumber(Before(k) + row.line)

\* The table has what the first l lines say, as far as there is room.
ParsedTo(k, l) ==
  /\ IF Cardinality(Taken(k, l)) < MaxSensors THEN qty[k] = Cardinality(Taken(k, l))
                                              ELSE qty[k] = MaxSensors
  /\ \A n \in 0..(qty[k] - 1) : GoodRow(k, n)

\* Where the update thread is.
Place ==
  /\ kind = "none" => todo = "read"
  /\ kind # "none" => line <= Len(file[kind]) /\ value = LastNumber(Before(kind) + line)
  /\ todo # "read" => /\ line > 0 /\ file[kind][line] # Text /\ qty[kind] < MaxSensors
                      /\ ParsedTo(kind, line - 1)
  /\ todo = "count" => rows[kind][qty[kind]] = Row
  /\ kind # "none" /\ todo = "read" => ParsedTo(kind, line)

\* The file before the present one is parsed, the next one is not begun.
Others ==
  /\ kind = "temp" => qty["fan"] = 0
  /\ kind \in {"fan", "none"} => ParsedTo("temp", Len(file["temp"]))
  /\ kind = "none" => ParsedTo("fan", Len(file["fan"]))

SensorInv == SensorTypes /\ Place /\ Others

\* What the report has met.
SeenInv ==
  /\ nth \in Nat
  /\ printing => \A n \in 0..(qty["temp"] - 1) : rows["temp"][n] \in seen
  /\ positive => printing /\ nth < MaxSensors /\ rows["temp"][nth] \in seen
  /\ ReportTrue

-----------------------------------------------------------------------------
LEMMA MaxOfNumbers ==
  ASSUME NEW n \in Nat, NEW T \in SUBSET (1..n), T # {}
  PROVE  Max(T) \in T /\ \A k \in T : Max(T) >= k
<1>1. PICK m \in T : \A k \in T : k <= m
  <2>1. T \subseteq Nat /\ \A k \in T : k <= n
    OBVIOUS
  <2> QED
    BY <2>1, GreatestNat
<1>2. m \in T /\ \A k \in T : m >= k
  BY <1>1
<1> QED
  BY <1>2 DEF Max

\* One reading more.
LEMMA LastInStep ==
  ASSUME NEW readings, NEW n \in Nat
  PROVE  LastIn(readings, n + 1) = IF readings[n + 1] \in {Text, Blank} THEN LastIn(readings, n)
                                                                        ELSE readings[n + 1]
<1> DEFINE Given(k) == {l \in 1..k : readings[l] \notin {Text, Blank}}
<1>1. 1..(n + 1) = (1..n) \cup {n + 1}
  OBVIOUS
<1>2. CASE readings[n + 1] \in {Text, Blank}
  <2>1. Given(n + 1) = Given(n)
    BY <1>1, <1>2
  <2> QED
    BY <1>2, <2>1 DEF LastIn
<1>3. CASE readings[n + 1] \notin {Text, Blank}
  <2>1. n + 1 \in Given(n + 1)
    BY <1>3
  <2>2. Max(Given(n + 1)) = n + 1
    <3>1. n + 1 \in Nat /\ Given(n + 1) \in SUBSET (1..(n + 1)) /\ Given(n + 1) # {}
      BY <2>1
    <3>2. Max(Given(n + 1)) \in Given(n + 1) /\ Max(Given(n + 1)) >= n + 1
      BY <2>1, <3>1, MaxOfNumbers
    <3>3. Max(Given(n + 1)) \in 1..(n + 1)
      BY <3>1, <3>2
    <3> QED
      BY <3>2, <3>3
  <2> QED
    BY <1>3, <2>1, <2>2 DEF LastIn
<1> QED
  BY <1>2, <1>3

\* What comes after does not matter.
LEMMA LastInPrefix ==
  ASSUME NEW a, NEW b, NEW n \in Nat, \A j \in 1..n : a[j] = b[j]
  PROVE  LastIn(a, n) = LastIn(b, n)
<1> DEFINE Given == {l \in 1..n : a[l] \notin {Text, Blank}}
<1>1. Given = {l \in 1..n : b[l] \notin {Text, Blank}}
  OBVIOUS
<1>2. CASE Given = {}
  BY <1>1, <1>2 DEF LastIn
<1>3. CASE Given # {}
  <2>1. Max(Given) \in 1..n
    BY <1>3, MaxOfNumbers
  <2> QED
    BY <1>1, <1>3, <2>1 DEF LastIn
<1> QED
  BY <1>2, <1>3

LEMMA LastInNone == ASSUME NEW readings PROVE LastIn(readings, 0) = 0
BY DEF LastIn

LEMMA Joined ==
  ASSUME SensorTypes, NEW k \in Kinds, NEW l \in 1..Len(file[k])
  PROVE  (file["temp"] \o file["fan"])[Before(k) + l] = file[k][l]
<1>1. PICK a \in Seq(Reading), b \in Seq(Reading) : a = file["temp"] /\ b = file["fan"]
  BY DEF SensorTypes, Kinds
<1>2. /\ \A j \in 1..Len(a) : (a \o b)[j] = a[j]
      /\ \A j \in 1..Len(b) : (a \o b)[Len(a) + j] = b[j]
  OBVIOUS
<1>3. CASE k = "temp"
  <2>1. Before(k) = 0 /\ file[k] = a /\ 0 + l = l /\ l \in 1..Len(a)
    BY <1>1, <1>3 DEF Before
  <2>2. (a \o b)[l] = a[l]
    BY <1>2, <2>1
  <2> QED
    BY <1>1, <2>1, <2>2
<1>4. CASE k = "fan"
  <2>1. Before(k) = Len(a) /\ file[k] = b /\ l \in 1..Len(b)
    BY <1>1, <1>4 DEF Before
  <2>2. (a \o b)[Len(a) + l] = b[l]
    BY <1>2, <2>1
  <2> QED
    BY <1>1, <2>1, <2>2
<1> QED
  BY <1>3, <1>4 DEF Kinds

LEMMA CountTaken ==
  ASSUME NEW k \in Kinds, NEW l \in Nat
  PROVE  /\ Cardinality(Taken(k, l)) \in Nat
         /\ Cardinality(Taken(k, l + 1)) = IF file[k][l + 1] = Text THEN Cardinality(Taken(k, l))
                                                                  ELSE Cardinality(Taken(k, l)) + 1
<1>1. 1..(l + 1) = (1..l) \cup {l + 1}
  OBVIOUS
<1>2. Taken(k, l) \in SUBSET (1..l)
  BY DEF Taken
<1>3. Taken(k, l + 1) = IF file[k][l + 1] = Text THEN Taken(k, l) ELSE Taken(k, l) \cup {l + 1}
  BY <1>1 DEF Taken
<1> QED
  BY <1>2, <1>3, CountUpTo, CountOneMore

LEMMA CountNone == ASSUME NEW k \in Kinds PROVE Cardinality(Taken(k, 0)) = 0
<1>1. Taken(k, 0) = {}
  BY DEF Taken
<1> QED
  BY <1>1, FS_EmptySet

\* What is parsed stays parsed as long as its rows and its file do.
LEMMA SameRows ==
  ASSUME SensorTypes, UNCHANGED file, NEW k \in Kinds, NEW l \in Nat,
         qty'[k] = qty[k], \A n \in 0..(qty[k] - 1) : rows'[k][n] = rows[k][n],
         ParsedTo(k, l)
  PROVE  ParsedTo(k, l)'
BY DEF ParsedTo, GoodRow, Taken, Before, LastNumber

LEMMA InitSensorTypes == SensorsInit => SensorTypes
<1> SUFFICES ASSUME SensorsInit PROVE SensorTypes
  OBVIOUS
<1> USE MaxSensorsAssumption
<1>1. ipmi_log \in [Kinds -> Seq(Reading)]
  BY ReadingAssumption DEF SensorsInit, Reading
<1>2. file \in [Kinds -> Seq(Reading)] /\ qty \in [Kinds -> 0..MaxSensors]
  BY DEF SensorsInit
<1>3. rows \in [Kinds -> [0..(MaxSensors - 1) -> [value : Nat, line : Nat]]]
  BY DEF SensorsInit, NoRow
<1> QED
  BY <1>1, <1>2, <1>3 DEF SensorsInit, SensorTypes

LEMMA NextSensorTypes == SensorTypes /\ Place /\ [SensorsNext]_sensorvars => SensorTypes'
<1> SUFFICES ASSUME SensorTypes, Place, [SensorsNext]_sensorvars PROVE SensorTypes'
  OBVIOUS
<1> USE MaxSensorsAssumption DEF SensorTypes, tables
<1>1. CASE \E k \in Kinds : Measure(k)
  BY <1>1, ReadingAssumption DEF Measure, Reading
<1>2. CASE Begin
  BY <1>2 DEF Begin, Kinds
<1>3. CASE ReadSensor
  <2>1. file[kind][line + 1] \in Reading
    BY <1>3 DEF ReadSensor
  <2>2. value' \in Nat
    BY <1>3, <2>1 DEF ReadSensor, Number, Reading
  <2>3. todo' \in {"read", "store", "count"} /\ line' \in Nat
    BY <1>3 DEF ReadSensor
  <2> QED
    BY <1>3, <2>2, <2>3 DEF ReadSensor
<1>4. CASE Store
  <2>1. kind \in Kinds /\ qty[kind] \in 0..(MaxSensors - 1) /\ Row \in [value : Nat, line : Nat]
    BY <1>4 DEF Store, Row, Place
  <2>2. rows' = [rows EXCEPT ![kind][qty[kind]] = Row]
    BY <1>4 DEF Store
  <2>3. rows' \in [Kinds -> [0..(MaxSensors - 1) -> [value : Nat, line : Nat]]]
    BY <2>1, <2>2
  <2> QED
    BY <1>4, <2>3 DEF Store
<1>5. CASE Count
  <2>0. kind \in Kinds /\ qty[kind] \in 0..(MaxSensors - 1)
    BY <1>5 DEF Count, Place
  <2>1. kind \in Kinds /\ qty[kind] + 1 \in 0..MaxSensors
    BY <2>0
  <2> QED
    BY <1>5, <2>1 DEF Count
<1>6. CASE EndFile
  BY <1>6 DEF EndFile, Kinds
<1>7. CASE Report
  BY <1>7 DEF Report, BeginReport, Compare, PrintRow, EndReport
<1>8. CASE UNCHANGED sensorvars
  BY <1>8 DEF sensorvars
<1> QED
  BY <1>1, <1>2, <1>3, <1>4, <1>5, <1>6, <1>7, <1>8 DEF SensorsNext, GetIpmiSensors

LEMMA SameFile ==
  ASSUME UNCHANGED file
  PROVE  /\ \A k \in Kinds, l \in Nat : Taken(k, l)' = Taken(k, l)
         /\ \A k \in Kinds : Before(k)' = Before(k)
         /\ \A l \in Nat : LastNumber(l)' = LastNumber(l)
BY DEF Taken, Before, LastNumber

LEMMA ParsedReads ==
  ASSUME SensorInv, ReadSensor
  PROVE  Place' /\ Others'
<1>1. PICK k \in Kinds : k = kind
  BY DEF ReadSensor, SensorInv, SensorTypes
<1>2. PICK new : new = file[k][line + 1]
  OBVIOUS
<1>3. /\ UNCHANGED <<kind, file, qty, rows>> /\ todo = "read"
      /\ line' = line + 1 /\ line \in Nat /\ line < Len(file[k]) /\ Len(file[k]) \in Nat
      /\ value' = Number(new)
      /\ todo' = IF new # Text /\ qty[k] < MaxSensors THEN "store" ELSE "read"
  BY <1>1, <1>2 DEF ReadSensor, SensorInv, SensorTypes, Found
<1>4. ParsedTo(k, line) /\ value = LastNumber(Before(k) + line)
  BY <1>1, <1>3 DEF SensorInv, Place, Kinds
<1>5. Before(k) \in Nat
  BY DEF SensorInv, SensorTypes, Kinds, Before
<1>6. value' = LastNumber(Before(k) + line)'
  <2>1. PICK n \in Nat : n = Before(k) + line /\ Before(k) + (line + 1) = n + 1
    BY <1>3, <1>5
  <2>2. line + 1 \in 1..Len(file[k])
    BY <1>3
  <2>3. (file["temp"] \o file["fan"])[n + 1] = new
    BY <1>2, <2>1, <2>2, Joined DEF SensorInv
  <2>4. value' = LastNumber(n + 1)
    BY <1>3, <1>4, <2>1, <2>3, LastInStep DEF LastNumber, Number
  <2> QED
    BY <1>3, <2>1, <2>4 DEF LastNumber, Before
<1>7. PICK c \in Nat : c = Cardinality(Taken(k, line))
  BY <1>3, CountTaken
<1>8. Cardinality(Taken(k, line))' = IF new = Text THEN c ELSE c + 1
  BY <1>2, <1>3, <1>7, CountTaken DEF Taken
<1>9. /\ IF c < MaxSensors THEN qty[k] = c ELSE qty[k] = MaxSensors
      /\ \A n \in 0..(qty[k] - 1) : GoodRow(k, n)'
  BY <1>3, <1>4, <1>7 DEF ParsedTo, GoodRow, Taken, Before, LastNumber
<1>10. todo' = "read" => ParsedTo(k, line)'
  BY <1>3, <1>8, <1>9, MaxSensorsAssumption DEF ParsedTo
<1>11. todo' # "read" => /\ new # Text /\ qty[k] < MaxSensors
                         /\ ParsedTo(k, line - 1)'
  <2>1. (line + 1) - 1 = line
    BY <1>3
  <2>2. Cardinality(Taken(k, line - 1))' = c
    BY <1>3, <1>7, <2>1 DEF Taken
  <2> QED
    BY <1>3, <1>9, <2>2 DEF ParsedTo
<1>12. Place'
  BY <1>1, <1>2, <1>3, <1>6, <1>10, <1>11 DEF Place, Kinds
<1>13. Others'
  BY <1>3 DEF SensorInv, Others, ParsedTo, GoodRow, Taken, Before, LastNumber
<1> QED
  BY <1>12, <1>13

LEMMA ParsedStores ==
  ASSUME SensorInv, Store
  PROVE  Place' /\ Others'
<1>1. PICK k \in Kinds : k = kind
  BY DEF Store, SensorInv, SensorTypes, Place
<1>2. /\ UNCHANGED <<kind, file, line, value, qty>> /\ todo = "store" /\ todo' = "count"
      /\ rows' = [rows EXCEPT ![k][qty[k]] = Row]
  BY <1>1 DEF Store
<1>3. /\ line \in Nat /\ line > 0 /\ line <= Len(file[k]) /\ value = LastNumber(Before(k) + line)
      /\ file[k][line] # Text /\ qty[k] < MaxSensors /\ ParsedTo(k, line - 1)
  BY <1>1, <1>2 DEF SensorInv, SensorTypes, Place, Kinds
<1>4. qty[k] \in 0..(MaxSensors - 1)
  BY <1>3, MaxSensorsAssumption DEF SensorInv, SensorTypes
<1>5. rows'[k] = [rows[k] EXCEPT ![qty[k]] = Row] /\ \A j \in Kinds \ {k} : rows'[j] = rows[j]
  BY <1>2 DEF SensorInv, SensorTypes
<1>6. rows'[k][qty[k]] = Row /\ \A n \in 0..(qty[k] - 1) : rows'[k][n] = rows[k][n]
  <2>1. PICK now \in [0..(MaxSensors - 1) -> [value : Nat, line : Nat]] : now = rows[k]
    BY DEF SensorInv, SensorTypes
  <2>2. PICK q \in 0..(MaxSensors - 1) : q = qty[k]
    BY <1>4
  <2>3. rows'[k] = [now EXCEPT ![q] = Row]
    BY <1>5, <2>1, <2>2
  <2>4. \A n \in 0..(q - 1) : n \in 0..(MaxSensors - 1) /\ n # q
    BY MaxSensorsAssumption
  <2> QED
    BY <2>1, <2>2, <2>3, <2>4
<1>7. PICK l \in Nat : l = line - 1
  BY <1>3
<1>8. ParsedTo(k, l)'
  BY <1>2, <1>3, <1>6, <1>7 DEF ParsedTo, GoodRow, Taken, Before, LastNumber
<1>9. Place'
  BY <1>1, <1>2, <1>3, <1>6, <1>7, <1>8 DEF Place, Row, LastNumber, Before, Kinds
<1>10. Others'
  <2>1. CASE k = "temp"
    BY <1>1, <1>2, <2>1 DEF SensorInv, Others
  <2>2. CASE k = "fan"
    <3>1. ParsedTo("temp", Len(file["temp"])) /\ rows'["temp"] = rows["temp"]
      BY <1>1, <1>5, <2>2 DEF SensorInv, Others, Kinds
    <3> QED
      BY <1>1, <1>2, <2>2, <3>1 DEF Others, ParsedTo, GoodRow, Taken, Before, LastNumber
  <2> QED
    BY <2>1, <2>2 DEF Kinds
<1> QED
  BY <1>9, <1>10

LEMMA ParsedCounts ==
  ASSUME SensorInv, Count
  PROVE  Place' /\ Others'
<1>1. PICK k \in Kinds : k = kind
  BY DEF Count, SensorInv, SensorTypes, Place
<1>2. UNCHANGED <<kind, file, line, value, rows>> /\ todo = "count" /\ todo' = "read"
  BY DEF Count
<1>3. /\ line \in Nat /\ line > 0 /\ line <= Len(file[k]) /\ value = LastNumber(Before(k) + line)
      /\ file[k][line] # Text /\ qty[k] < MaxSensors /\ rows[k][qty[k]] = Row
      /\ ParsedTo(k, line - 1)
  BY <1>1, <1>2 DEF SensorInv, SensorTypes, Place, Kinds
<1>4. /\ qty[k] \in 0..(MaxSensors - 1)
      /\ qty'[k] = qty[k] + 1 /\ \A j \in Kinds \ {k} : qty'[j] = qty[j]
  BY <1>1, <1>3, MaxSensorsAssumption DEF Count, SensorInv, SensorTypes
<1>5. PICK l \in Nat : l = line - 1 /\ line = l + 1 /\ ParsedTo(k, l)
  BY <1>3
<1>6. Cardinality(Taken(k, l)) = qty[k]
  BY <1>4, <1>5, CountTaken, MaxSensorsAssumption DEF ParsedTo
<1>7. Cardinality(Taken(k, line)) = qty[k] + 1
  BY <1>3, <1>5, <1>6, CountTaken
<1>8. GoodRow(k, qty[k])
  BY <1>3, <1>5, <1>6 DEF GoodRow, Row, SensorInv, SensorTypes
<1>9. ParsedTo(k, line)'
  <2>1. \A n \in 0..qty[k] : GoodRow(k, n)
    BY <1>3, <1>4, <1>8 DEF ParsedTo
  <2>2. \A n \in 0..qty[k] : GoodRow(k, n)'
    BY <1>2, <2>1 DEF GoodRow, Taken, Before, LastNumber
  <2>3. Cardinality(Taken(k, line))' = qty[k] + 1
    BY <1>2, <1>7 DEF Taken
  <2> QED
    BY <1>3, <1>4, <2>2, <2>3, MaxSensorsAssumption DEF ParsedTo
<1>10. Place'
  BY <1>1, <1>2, <1>3, <1>9 DEF Place, LastNumber, Before, Kinds
<1>11. Others'
  <2>1. CASE k = "temp"
    BY <1>1, <1>2, <1>4, <2>1 DEF SensorInv, Others, Kinds
  <2>2. CASE k = "fan"
    <3>1. ParsedTo("temp", Len(file["temp"])) /\ qty'["temp"] = qty["temp"]
      BY <1>1, <1>4, <2>2 DEF SensorInv, Others, Kinds
    <3> QED
      BY <1>1, <1>2, <2>2, <3>1 DEF Others, ParsedTo, GoodRow, Taken, Before, LastNumber
  <2> QED
    BY <2>1, <2>2 DEF Kinds
<1> QED
  BY <1>10, <1>11

LEMMA ParsedBegins ==
  ASSUME SensorInv, Begin
  PROVE  Place' /\ Others'
<1>1. /\ kind' = "temp" /\ line' = 0 /\ value' = 0 /\ todo' = "read" /\ qty'["temp"] = 0
      /\ qty'["fan"] = 0 /\ file'["temp"] = ipmi_log["temp"]
  BY DEF Begin, SensorInv, Place, SensorTypes, Kinds
<1>2. Len(file'["temp"]) \in Nat
  BY <1>1 DEF SensorInv, SensorTypes, Kinds
<1>3. LastNumber(0)' = 0
  BY LastInNone DEF LastNumber
<1>4. Before("temp")' = 0
  BY DEF Before
<1>5. Cardinality(Taken("temp", 0))' = 0
  <2>1. Taken("temp", 0)' = {}
    BY DEF Taken
  <2> QED
    BY <2>1, FS_EmptySet
<1>6. ParsedTo("temp", 0)'
  BY <1>1, <1>5, MaxSensorsAssumption DEF ParsedTo
<1> QED
  BY <1>1, <1>2, <1>3, <1>4, <1>6 DEF Place, Others

LEMMA ParsedEnds ==
  ASSUME SensorInv, EndFile
  PROVE  Place' /\ Others'
<1>1. /\ UNCHANGED <<value, todo, qty, rows>> /\ todo = "read" /\ line' = 0
      /\ line = Len(file[kind])
  BY DEF EndFile
<1>2. CASE kind = "fan"
  <2>1. kind' = "none" /\ UNCHANGED file
    BY <1>2 DEF EndFile
  <2>2. ParsedTo("temp", Len(file["temp"])) /\ ParsedTo("fan", Len(file["fan"]))
    BY <1>1, <1>2 DEF SensorInv, Place, Others
  <2> QED
    BY <1>1, <2>1, <2>2 DEF Place, Others, ParsedTo, GoodRow, Taken, Before, LastNumber
<1>3. CASE kind = "temp"
  <2>1. kind' = "fan" /\ file'["temp"] = file["temp"] /\ file'["fan"] = ipmi_log["fan"]
    BY <1>3 DEF EndFile, SensorInv, SensorTypes, Kinds
  <2>2. PICK a \in Seq(Reading), b \in Seq(Reading), c \in Seq(Reading) :
          a = file["temp"] /\ b = file["fan"] /\ c = file'["fan"]
    BY <2>1 DEF SensorInv, SensorTypes, Kinds
  <2>3. ASSUME NEW l \in 0..Len(a) PROVE LastNumber(l)' = LastNumber(l)
    <3>1. \A j \in 1..l : (a \o b)[j] = (a \o c)[j]
      OBVIOUS
    <3>2. LastIn(a \o b, l) = LastIn(a \o c, l)
      <4>1. PICK x, y : x = a \o b /\ y = a \o c
        OBVIOUS
      <4>2. l \in Nat /\ \A j \in 1..l : x[j] = y[j]
        BY <3>1, <4>1
      <4>3. LastIn(x, l) = LastIn(y, l)
        BY <4>2, LastInPrefix
      <4> QED
        BY <4>1, <4>3
    <3> QED
      BY <2>1, <2>2, <3>2 DEF LastNumber
  <2>4. ParsedTo("temp", Len(a)) /\ value = LastNumber(Len(a)) /\ qty["fan"] = 0
    BY <1>1, <1>3, <2>2 DEF SensorInv, Place, Others, Before
  <2>5. ParsedTo("temp", Len(a))'
    <3>1. Cardinality(Taken("temp", Len(a)))' = Cardinality(Taken("temp", Len(a)))
      BY <2>1 DEF Taken
    <3>2. ASSUME NEW n \in 0..(qty["temp"] - 1) PROVE GoodRow("temp", n)'
      <4>1. GoodRow("temp", n)
        BY <2>4, <3>2 DEF ParsedTo
      <4>2. PICK l \in 1..Len(a) : l = rows["temp"][n].line
        BY <2>2, <4>1 DEF GoodRow
      <4>3. LastNumber(0 + l)' = LastNumber(0 + l)
        BY <2>3
      <4> QED
        BY <1>1, <2>1, <2>2, <4>1, <4>2, <4>3 DEF GoodRow, Taken, Before
    <3> QED
      BY <1>1, <2>4, <3>1, <3>2 DEF ParsedTo
  <2>6. ParsedTo("fan", 0)'
    <3>1. Taken("fan", 0)' = {}
      BY DEF Taken
    <3>2. Cardinality(Taken("fan", 0))' = 0
      BY <3>1, FS_EmptySet
    <3> QED
      BY <1>1, <2>4, <3>2, MaxSensorsAssumption DEF ParsedTo
  <2>7. value' = LastNumber(Before("fan") + 0)'
    <3>1. Before("fan")' = Len(a) /\ Len(a) + 0 = Len(a) /\ Len(a) \in 0..Len(a)
      BY <2>1, <2>2 DEF Before
    <3> QED
      BY <1>1, <2>3, <2>4, <3>1
  <2>8. Len(c) \in Nat
    OBVIOUS
  <2> QED
    BY <1>1, <2>1, <2>2, <2>5, <2>6, <2>7, <2>8 DEF Place, Others
<1> QED
  BY <1>2, <1>3 DEF EndFile, SensorInv, SensorTypes, Kinds

LEMMA ParsedStands ==
  ASSUME SensorInv, UNCHANGED tables
  PROVE  Place' /\ Others'
<1>1. UNCHANGED <<kind, file, line, value, todo, qty, rows>>
  BY DEF tables
<1>2. \A k \in Kinds : UNCHANGED <<file[k], qty[k], rows[k], Before(k)>>
  BY <1>1 DEF Before
<1>3. \A k \in Kinds, l \in Nat : ParsedTo(k, l) => ParsedTo(k, l)'
  BY <1>1 DEF ParsedTo, GoodRow, Taken, Before, LastNumber
<1>4. /\ line \in Nat /\ Len(file["temp"]) \in Nat /\ Len(file["fan"]) \in Nat
      /\ line > 0 => line - 1 \in Nat
  BY DEF SensorInv, SensorTypes, Kinds
<1>5. Place'
  BY <1>1, <1>3, <1>4 DEF SensorInv, SensorTypes, Place, Row, LastNumber, Before
<1>6. Others'
  BY <1>1, <1>3, <1>4 DEF SensorInv, Others, Kinds
<1> QED
  BY <1>5, <1>6

LEMMA NextSensorInv == SensorInv /\ [SensorsNext]_sensorvars => SensorInv'
<1> SUFFICES ASSUME SensorInv, [SensorsNext]_sensorvars PROVE Place' /\ Others'
  BY NextSensorTypes DEF SensorInv
<1>1. CASE GetIpmiSensors
  BY <1>1, ParsedBegins, ParsedReads, ParsedStores, ParsedCounts, ParsedEnds DEF GetIpmiSensors
<1>2. CASE (\E k \in Kinds : Measure(k)) \/ Report \/ UNCHANGED sensorvars
  BY <1>2, ParsedStands
     DEF Measure, Report, BeginReport, Compare, PrintRow, EndReport, sensorvars
<1> QED
  BY <1>1, <1>2 DEF SensorsNext

LEMMA InitSensorInv == SensorsInit => SensorInv
<1> SUFFICES ASSUME SensorsInit PROVE Place /\ Others
  BY InitSensorTypes DEF SensorInv
<1>1. \A k \in Kinds : file[k] = <<>> /\ qty[k] = 0
  BY DEF SensorsInit
<1>2. \A k \in Kinds : ParsedTo(k, 0)
  BY <1>1, CountNone, MaxSensorsAssumption DEF ParsedTo
<1> QED
  BY <1>1, <1>2 DEF SensorsInit, Place, Others, Kinds

LEMMA MinOfTwo ==
  ASSUME NEW a \in Nat, NEW b \in Nat
  PROVE  Min({a, b}) = IF a < b THEN a ELSE b
<1>1. CASE a < b
  <2>1. \A x \in {a, b} : (\A y \in {a, b} : x <= y) <=> x = a
    BY <1>1
  <2> QED
    BY <1>1, <2>1 DEF Min
<1>2. CASE ~(a < b)
  <2>1. \A x \in {a, b} : (\A y \in {a, b} : x <= y) <=> x = b
    BY <1>2
  <2> QED
    BY <1>2, <2>1 DEF Min
<1> QED
  BY <1>1, <1>2

\* Outside get_ipmi_sensors the two tables are what one version of each file
\* says, line by line, although ipmi.sh replaces the files at any time.
THEOREM SensorsAlwaysParsed == SensorsSpec => []SensorsParsed
<1>1. SensorInv => SensorsParsed
  <2> SUFFICES ASSUME SensorInv, kind = "none", NEW k \in Kinds
               PROVE  LET taken == {l \in 1..Len(file[k]) : file[k][l] # Text}
                          before == IF k = "fan" THEN Len(file["temp"]) ELSE 0
                      IN  /\ qty[k] = Min({Cardinality(taken), MaxSensors})
                          /\ \A n \in 0..(qty[k] - 1) :
                               LET row == rows[k][n]
                               IN  /\ row.line \in taken
                                   /\ Cardinality({l \in taken : l < row.line}) = n
                                   /\ row.value = LastNumber(before + row.line)
    BY DEF SensorsParsed
  <2>1. ParsedTo(k, Len(file[k])) /\ Len(file[k]) \in Nat
    BY DEF SensorInv, SensorTypes, Others, Kinds
  <2>2. Cardinality(Taken(k, Len(file[k]))) \in Nat
    BY <2>1, CountTaken
  <2>3. qty[k] = Min({Cardinality(Taken(k, Len(file[k]))), MaxSensors})
    BY <2>1, <2>2, MinOfTwo, MaxSensorsAssumption DEF ParsedTo
  <2>4. ASSUME NEW n \in 0..(qty[k] - 1)
        PROVE  /\ rows[k][n].line \in Taken(k, Len(file[k]))
               /\ Cardinality({l \in Taken(k, Len(file[k])) : l < rows[k][n].line}) = n
               /\ rows[k][n].value = LastNumber(Before(k) + rows[k][n].line)
    <3>1. GoodRow(k, n)
      BY <2>1 DEF ParsedTo
    <3>2. {l \in Taken(k, Len(file[k])) : l < rows[k][n].line} = Taken(k, rows[k][n].line - 1)
      BY <2>1, <3>1 DEF GoodRow, Taken
    <3> QED
      BY <3>1, <3>2 DEF GoodRow, Taken
  <2> QED
    BY <2>3, <2>4 DEF Taken, Before
<1> QED
  BY InitSensorInv, NextSensorInv, <1>1, PTL DEF SensorsSpec

-----------------------------------------------------------------------------
LEMMA InitSeen == SensorsInit => SeenInv
BY DEF SensorsInit, SeenInv, ReportTrue

LEMMA NextSeen == SensorInv /\ SeenInv /\ [SensorsNext]_sensorvars => SeenInv'
<1> SUFFICES ASSUME SensorInv, SeenInv, [SensorsNext]_sensorvars PROVE SeenInv'
  OBVIOUS
<1> USE DEF SeenInv, ReportTrue
<1>1. CASE (\E k \in Kinds : Measure(k)) \/ ReadSensor \/ EndFile \/ UNCHANGED sensorvars
  BY <1>1 DEF Measure, ReadSensor, EndFile, sensorvars, tables, report
<1>2. CASE Begin
  BY <1>2 DEF Begin, report, Kinds
<1>3. CASE Store
  <2>1. /\ UNCHANGED <<qty, printing, nth, positive, printed>>
        /\ rows' = [rows EXCEPT ![kind][qty[kind]] = Row]
    BY <1>3 DEF Store, report
  <2>2. kind \in Kinds /\ qty[kind] \in 0..(MaxSensors - 1)
    BY <1>3, MaxSensorsAssumption DEF Store, SensorInv, SensorTypes, Place
  <2>3. CASE kind = "temp" /\ printing
    <3>1. seen' = seen \cup {Row}
      BY <1>3, <2>3 DEF Store, See
    <3>2. \A n : rows'["temp"][n] \in {rows["temp"][n], Row} \/ n \notin 0..(MaxSensors - 1)
      BY <2>1, <2>2, <2>3 DEF SensorInv, SensorTypes
    <3>3. \A n \in 0..(qty["temp"] - 1) : n \in 0..(MaxSensors - 1)
      BY <2>2, <2>3, MaxSensorsAssumption
    <3>4. positive => nth \in 0..(MaxSensors - 1)
      BY MaxSensorsAssumption
    <3>5. \A n \in 0..(qty["temp"] - 1) : rows'["temp"][n] \in seen'
      BY <2>3, <3>1, <3>2, <3>3
    <3>6. positive => rows'["temp"][nth] \in seen'
      BY <3>1, <3>2, <3>4
    <3> QED
      BY <2>1, <2>3, <3>1, <3>5, <3>6
  <2>4. CASE kind = "fan"
    <3>1. seen' = seen /\ rows'["temp"] = rows["temp"]
      BY <1>3, <2>1, <2>4 DEF Store, See, SensorInv, SensorTypes, Kinds
    <3> QED
      BY <2>1, <3>1
  <2>5. CASE ~printing
    <3>1. ~positive /\ seen' = seen
      BY <1>3, <2>5 DEF Store, See
    <3> QED
      BY <2>1, <2>5, <3>1
  <2> QED
    BY <2>2, <2>3, <2>4, <2>5 DEF Kinds
<1>4. CASE Count
  <2>1. /\ UNCHANGED <<rows, printing, nth, positive, printed>>
        /\ qty' = [qty EXCEPT ![kind] = @ + 1] /\ rows[kind][qty[kind]] = Row
    BY <1>4 DEF Count, report, SensorInv, Place
  <2>2. kind \in Kinds /\ qty[kind] \in Nat
    BY <1>4 DEF Count, SensorInv, SensorTypes, Place
  <2>3. CASE kind = "temp" /\ printing
    <3>1. seen' = seen \cup {Row} /\ qty'["temp"] = qty["temp"] + 1
      BY <1>4, <2>1, <2>3 DEF Count, See, SensorInv, SensorTypes, Kinds
    <3>2. \A n \in 0..qty["temp"] : n \in 0..(qty["temp"] - 1) \/ n = qty["temp"]
      BY <2>2, <2>3
    <3> QED
      BY <2>1, <2>2, <2>3, <3>1, <3>2
  <2>4. CASE kind = "fan"
    <3>1. seen' = seen /\ qty'["temp"] = qty["temp"]
      BY <1>4, <2>1, <2>4 DEF Count, See, SensorInv, SensorTypes, Kinds
    <3> QED
      BY <2>1, <3>1
  <2>5. CASE ~printing
    <3>1. ~positive /\ seen' = seen
      BY <1>4, <2>5 DEF Count, See
    <3> QED
      BY <2>1, <2>5, <3>1
  <2> QED
    BY <2>2, <2>3, <2>4, <2>5 DEF Kinds
<1>5. CASE BeginReport
  <2>1. ~positive /\ positive' = positive /\ nth' = 0
    BY <1>5 DEF BeginReport
  <2>2. /\ UNCHANGED <<qty, rows>> /\ printed' = NoRow
        /\ seen' = {rows["temp"][n] : n \in 0..(qty["temp"] - 1)}
    BY <1>5 DEF BeginReport, tables
  <2>3. \A n \in 0..(qty["temp"] - 1) : rows["temp"][n] \in seen'
    BY <2>2
  <2>4. ~positive'
    BY <2>1
  <2>5. nth' \in Nat
    BY <2>1
  <2>6. \A n \in 0..(qty'["temp"] - 1) : rows'["temp"][n] \in seen'
    BY <2>2, <2>3
  <2> QED
    BY <2>2, <2>4, <2>5, <2>6
<1>6. CASE Compare
  <2>1. qty["temp"] \in 0..MaxSensors /\ printing /\ nth < qty["temp"] /\ nth \in 0..(qty["temp"] - 1)
    BY <1>6 DEF Compare, Below, SensorInv, SensorTypes, Kinds
  <2> QED
    BY <1>6, <2>1, MaxSensorsAssumption DEF Compare, tables
<1>7. CASE PrintRow
  BY <1>7 DEF PrintRow, tables
<1>8. CASE EndReport
  BY <1>8 DEF EndReport, tables
<1> QED
  BY <1>1, <1>2, <1>3, <1>4, <1>5, <1>6, <1>7, <1>8 DEF SensorsNext, GetIpmiSensors, Report

\* What a report prints is a row the table had while the report was made, though
\* the update thread empties and fills it at the same time (update_logdev_write).
THEOREM ReportAlwaysTrue == SensorsSpec => []ReportTrue
<1>1. SeenInv => ReportTrue
  BY DEF SeenInv
<1> QED
  BY InitSensorInv, NextSensorInv, InitSeen, NextSeen, <1>1, PTL DEF SensorsSpec

-----------------------------------------------------------------------------
(***************************************************************************)
(* Disks: any list of block devices                                        *)
(***************************************************************************)

\* What bench_disk has still to take from the segment it has.
Held(n) ==
  CASE n = disk /\ bench \in {"lock", "attach"} -> {"there"}
    [] n = disk /\ bench \in {"read", "quit"}   -> {"attached"}
    [] OTHER                                    -> {}

SegmentInv ==
  /\ segment \in [Indices -> SUBSET {"there", "attached"}]
  /\ refused \in [Indices -> SUBSET {"there", "attached"}]
  /\ \A n \in Indices : segment[n] \subseteq refused[n] \cup Held(n)

LEMMA InitSegment == DisksInit => SegmentInv
BY DEF DisksInit, SegmentInv

\* A call takes what it is to take, or has failed to; the rest is left from before.
LEMMA TakenFrom ==
  ASSUME SegmentInv, NEW this \in SUBSET {"there", "attached"}, NEW one \in {"there", "attached"},
         TakeFrom(this, one),
         \A n \in Indices : n = disk => this \subseteq refused[n] \cup {one} \cup Held(n)',
         \A n \in Indices : n # disk => Held(n) = {}
  PROVE  SegmentInv'
<1>1. /\ segment' \in [Indices -> SUBSET {"there", "attached"}]
      /\ refused' \in [Indices -> SUBSET {"there", "attached"}]
  <2>1. this \ {one} \in SUBSET {"there", "attached"}
    OBVIOUS
  <2>2. \A n \in Indices : refused[n] \cup {one} \in SUBSET {"there", "attached"}
    BY DEF SegmentInv
  <2>3. CASE segment' = [segment EXCEPT ![disk] = this \ {one}] /\ refused' = refused
    BY <2>1, <2>3 DEF SegmentInv
  <2>4. CASE segment' = [segment EXCEPT ![disk] = this] /\ refused' = [refused EXCEPT ![disk] = @ \cup {one}]
    BY <2>2, <2>4 DEF SegmentInv
  <2> QED
    BY <2>3, <2>4 DEF TakeFrom
<1>2. ASSUME NEW n \in Indices, n # disk PROVE segment'[n] \subseteq refused'[n] \cup Held(n)'
  BY <1>2 DEF TakeFrom, SegmentInv
<1>3. ASSUME NEW n \in Indices, n = disk PROVE segment'[n] \subseteq refused'[n] \cup Held(n)'
  <2>1. CASE segment' = [segment EXCEPT ![disk] = this \ {one}] /\ refused' = refused
    BY <1>3, <2>1 DEF SegmentInv
  <2>2. CASE segment' = [segment EXCEPT ![disk] = this] /\ refused' = [refused EXCEPT ![disk] = @ \cup {one}]
    BY <1>3, <2>2 DEF SegmentInv
  <2> QED
    BY <2>1, <2>2 DEF TakeFrom
<1> QED
  BY <1>1, <1>2, <1>3 DEF SegmentInv

\* Where nothing changes for the segments, the same is held, or nothing was.
LEMMA NotTaken ==
  ASSUME SegmentInv, UNCHANGED shm, \A n \in Indices : Held(n) \subseteq Held(n)'
  PROVE  SegmentInv'
BY DEF SegmentInv, shm

LEMMA NextSegment == SegmentInv /\ [DisksNext]_diskvars => SegmentInv'
<1> SUFFICES ASSUME SegmentInv, [DisksNext]_diskvars PROVE SegmentInv'
  OBVIOUS
<1>1. CASE (\E d \in Plugged : Plug(d)) \/ GetHdInfo \/ UNCHANGED diskvars
  <2>1. UNCHANGED measure
    BY <1>1 DEF Plug, GetHdInfo, OpenDir, ReadDir, CloseDir, diskvars
  <2> QED
    BY <2>1, NotTaken DEF measure, Held
<1>2. CASE EndStream \/ NextDisk \/ StoreSpeed \/ OpenDisk
  <2>1. UNCHANGED shm /\ bench \in {"stream", "loop", "store", "open"}
    BY <1>2 DEF EndStream, NextDisk, StoreSpeed, OpenDisk
  <2> QED
    BY <2>1, NotTaken DEF Held
<1>3. CASE Shmget
  <2>1. bench = "shmget" /\ disk' = disk /\ refused' = refused
    BY <1>3 DEF Shmget
  <2>2. CASE UNCHANGED segment
    BY <2>1, <2>2, NotTaken DEF Held, shm
  <2>3. CASE bench' = "lock" /\ segment' = [segment EXCEPT ![disk] = {"there"}]
    BY <2>1, <2>3 DEF SegmentInv, Held
  <2> QED
    BY <1>3, <2>2, <2>3 DEF Shmget
<1>4. CASE Lock
  <2>1. bench = "lock" /\ disk' = disk
    BY <1>4 DEF Lock
  <2>2. CASE bench' = "attach" /\ UNCHANGED shm
    BY <2>1, <2>2, NotTaken DEF Held
  <2>3. CASE RemoveSegment
    <3>1. \A n \in Indices : n # disk => Held(n) = {}
      BY DEF Held
    <3> QED
      BY <2>1, <2>3, <3>1, TakenFrom DEF RemoveSegment
  <2> QED
    BY <1>4, <2>2, <2>3 DEF Lock
<1>5. CASE Attach
  <2>1. bench = "attach" /\ disk' = disk
    BY <1>5 DEF Attach
  <2>2. CASE bench' = "read" /\ TakeFrom({"there", "attached"}, "there")
    <3>1. \A n \in Indices : n # disk => Held(n) = {}
      BY DEF Held
    <3>2. \A n \in Indices : n = disk => Held(n)' = {"attached"}
      BY <2>1, <2>2 DEF Held
    <3> QED
      BY <2>2, <3>1, <3>2, TakenFrom
  <2>3. CASE RemoveSegment
    <3>1. \A n \in Indices : n # disk => Held(n) = {}
      BY DEF Held
    <3> QED
      BY <2>1, <2>3, <3>1, TakenFrom DEF RemoveSegment
  <2> QED
    BY <1>5, <2>2, <2>3 DEF Attach
<1>6. CASE ReadBlocks
  <2>1. bench = "read" /\ bench' = "quit" /\ disk' = disk /\ UNCHANGED shm
    BY <1>6 DEF ReadBlocks
  <2> QED
    BY <2>1, NotTaken DEF Held
<1>7. CASE Quit
  <2>1. bench = "quit" /\ disk' = disk /\ TakeFrom(segment[disk], "attached")
    BY <1>7 DEF Quit
  <2>2. CASE disk \in Indices
    <3>1. PICK this \in SUBSET {"there", "attached"} : this = segment[disk]
      BY <2>2 DEF SegmentInv
    <3>2. TakeFrom(this, "attached")
      BY <2>1, <3>1
    <3>3. \A n \in Indices : n = disk => this \subseteq refused[n] \cup {"attached"} \cup Held(n)'
      BY <2>1, <2>2, <3>1 DEF SegmentInv, Held
    <3>4. \A n \in Indices : n # disk => Held(n) = {}
      BY DEF Held
    <3> QED
      BY <3>2, <3>3, <3>4, TakenFrom
  <2>3. CASE disk \notin Indices
    <3>1. segment' = segment /\ refused' = refused
      BY <2>1, <2>3 DEF TakeFrom, SegmentInv
    <3>2. \A n \in Indices : Held(n) = {}
      BY <2>3 DEF Held
    <3> QED
      BY <3>1, <3>2, NotTaken DEF shm
  <2> QED
    BY <2>2, <2>3
<1> QED
  BY <1>1, <1>2, <1>3, <1>4, <1>5, <1>6, <1>7 DEF DisksNext, RunBenchmarks, BenchDisk

\* Whichever call fails, for whichever disk, locked memory stays behind only where
\* the call that removes it has failed, or the one that detaches it (bench_disk).
THEOREM NoSegmentLeftAlways == DisksSpec => []NoSegmentLeft
<1>1. SegmentInv => NoSegmentLeft
  BY DEF SegmentInv, NoSegmentLeft, Held
<1> QED
  BY InitSegment, NextSegment, <1>1, PTL DEF DisksSpec

-----------------------------------------------------------------------------
DiskTypes ==
  /\ entries = Closed \/ entries \in SUBSET (1..Len(Block))
  /\ diskcount \in 0..MaxDisks
  /\ disk_qty \in 0..MaxDisks
  /\ device \in [Indices -> Devices \cup {"none"}]
  /\ performance \in [Indices -> Devices \cup {"none", "1", "any"}]
  /\ known \in {"no", "began", "ended"}
  /\ disk \in Nat
  /\ name \in Devices \cup {"none"}
  /\ mb \in Devices \cup {"none", "1", "any"}
  /\ moved \in BOOLEAN

\* What a scan that nothing has changed under has put into the table: the disks
\* of the entries it has passed, which are before all that it has not.
ScanOfBlock ==
  (known # "no" /\ entries # Closed) =>
    /\ \A place \in entries : Block[place] \in present
    /\ \A q \in Wanted \ entries, place \in entries : q < place
    /\ diskcount = Cardinality(Wanted \ entries)
    /\ \A q \in Wanted \ entries : device[Rank(q)] = Block[q]

\* While nothing changes, a later scan writes what is there already.
DiskInv ==
  /\ DiskTypes
  /\ known = "began" => entries # Closed
  /\ ScanOfBlock
  /\ TableOfDisks

-----------------------------------------------------------------------------
LEMMA WantedFinite ==
  ASSUME NEW T \in SUBSET Wanted
  PROVE  IsFiniteSet(T) /\ Cardinality(T) \in Nat
<1>1. Len(Block) \in Nat
  BY BlockAssumption
<1>2. T \in SUBSET (1..Len(Block))
  BY DEF Wanted
<1> QED
  BY <1>1, <1>2, CountUpTo

LEMMA RankIsNat == \A place \in Wanted : Rank(place) \in Nat
<1> TAKE place \in Wanted
<1>1. {q \in Wanted : q < place} \in SUBSET Wanted
  OBVIOUS
<1> QED
  BY <1>1, WantedFinite DEF Rank

LEMMA RanksGrow ==
  ASSUME NEW place \in Wanted, NEW q \in Wanted, q < place
  PROVE  Rank(q) < Rank(place)
<1> DEFINE Q == {x \in Wanted : x < q}
           P == {x \in Wanted : x < place}
<1>1. Wanted \subseteq Int
  BY BlockAssumption DEF Wanted
<1>2. Q \cup {q} \subseteq P /\ q \notin Q
  <2>1. \A x \in Q : x < place
    <3> TAKE x \in Q
    <3>1. x \in Int /\ q \in Int /\ place \in Int /\ x < q
      BY <1>1
    <3> QED
      BY <3>1
  <2>2. ~ (q < q)
    <3>1. q \in Int
      BY <1>1
    <3> QED
      BY <3>1
  <2>3. q \in P
    OBVIOUS
  <2>4. Q \subseteq P
    BY <2>1
  <2>5. q \notin Q
    BY <2>2
  <2> QED
    BY <2>3, <2>4, <2>5, Zenon
<1>3. IsFiniteSet(Q) /\ IsFiniteSet(P) /\ Cardinality(Q) \in Nat /\ Cardinality(P) \in Nat
  BY WantedFinite
<1>4. Cardinality(Q \cup {q}) = Cardinality(Q) + 1
  BY <1>2, <1>3, FS_AddElement
<1>5. Cardinality(Q \cup {q}) <= Cardinality(P)
  BY <1>2, <1>3, FS_Subset
<1>6. Cardinality(Q) < Cardinality(P)
  BY <1>3, <1>4, <1>5
<1> QED
  BY <1>6 DEF Rank

\* readdir returns the first of the entries that are left.
LEMMA ReturnedIsFirst ==
  ASSUME entries \in SUBSET (1..Len(Block)), entries # {}
  PROVE  Returned \in entries /\ \A place \in entries : Returned <= place
<1>1. entries \in SUBSET Nat
  BY BlockAssumption
<1> QED
  BY <1>1, LeastNat DEF Returned

\* As many wanted disks are before it as the scan has counted.
LEMMA ReturnedRank ==
  ASSUME entries \in SUBSET (1..Len(Block)), entries # {},
         \A q \in Wanted \ entries, place \in entries : q < place,
         Returned \in Wanted
  PROVE  Rank(Returned) = Cardinality(Wanted \ entries)
<1>1. Returned \in entries /\ \A place \in entries : Returned <= place
  BY ReturnedIsFirst
<1>2. Wanted \subseteq Int
  BY BlockAssumption DEF Wanted
<1>3. PICK r \in Wanted : r = Returned
  OBVIOUS
<1>4. ASSUME NEW q \in Wanted PROVE q < r <=> q \notin entries
  <2>1. q \in Int /\ r \in Int
    BY <1>2
  <2> QED
    BY <1>1, <1>3, <2>1
<1>5. {q \in Wanted : q < r} = Wanted \ entries
  BY <1>4
<1> QED
  BY <1>3, <1>5 DEF Rank

LEMMA InitTable == DisksInit => DiskInv
<1> SUFFICES ASSUME DisksInit PROVE DiskInv
  OBVIOUS
<1>1. /\ entries = Closed /\ diskcount = 0 /\ disk_qty = 0 /\ known = "no"
      /\ disk = 0 /\ name = "none" /\ mb = "any"
      /\ device = [n \in Indices |-> "none"]
      /\ performance = [n \in Indices |-> "none"]
  BY DEF DisksInit
<1>2. moved \in BOOLEAN
  BY DEF DisksInit
<1>3. DiskTypes
  BY <1>1, <1>2, MaxDisksAssumption DEF DiskTypes
<1> QED
  BY <1>1, <1>3 DEF DiskInv, ScanOfBlock, TableOfDisks

LEMMA OpenDirTable == DiskInv /\ OpenDir => DiskInv'
<1> SUFFICES ASSUME DiskInv, OpenDir PROVE DiskInv'
  OBVIOUS
<1>1. UNCHANGED <<present, device, disk_qty, measure, performance, moved>>
  BY DEF OpenDir
<1>2. /\ entries' = {place \in 1..Len(Block) : Block[place] \in present}
      /\ diskcount' = 0 /\ known' \in {"began", "ended"}
      /\ known' = "ended" => known = "ended"
  BY DEF OpenDir, DiskInv, DiskTypes
<1>3. UNCHANGED Wanted /\ \A place : UNCHANGED Rank(place)
  BY <1>1 DEF Wanted, Rank
<1>4. DiskTypes'
  BY <1>1, <1>2, MaxDisksAssumption DEF DiskInv, DiskTypes, measure
<1>5. entries' # Closed
  BY <1>2 DEF Closed
<1>6. ScanOfBlock'
  <2>1. Wanted \ entries' = {}
    BY <1>2 DEF Wanted
  <2>2. Cardinality(Wanted \ entries') = 0
    BY <2>1, FS_EmptySet
  <2> QED
    BY <1>1, <1>2, <1>3, <2>1, <2>2 DEF ScanOfBlock
<1>7. TableOfDisks'
  BY <1>1, <1>2, <1>3 DEF DiskInv, TableOfDisks
<1> QED
  BY <1>4, <1>5, <1>6, <1>7 DEF DiskInv

\* An entry of a scan that nothing has changed under.
LEMMA ReadDirScan ==
  ASSUME DiskInv, ReadDir, known # "no"
  PROVE  /\ ScanOfBlock'
         /\ known = "ended" => device' = device
<1> DEFINE next == Returned
<1>1. /\ entries # Closed /\ entries # {} /\ diskcount < MaxDisks
      /\ entries' = entries \ {next}
      /\ UNCHANGED <<present, disk_qty, known>>
  BY DEF ReadDir
<1>2. entries \in SUBSET (1..Len(Block))
  BY <1>1 DEF DiskInv, DiskTypes
<1>3. next \in entries /\ \A place \in entries : next <= place
  BY <1>1, <1>2, ReturnedIsFirst
<1>4. /\ \A place \in entries : Block[place] \in present
      /\ \A q \in Wanted \ entries, place \in entries : q < place
      /\ diskcount = Cardinality(Wanted \ entries)
      /\ \A q \in Wanted \ entries : device[Rank(q)] = Block[q]
  BY <1>1 DEF DiskInv, ScanOfBlock
<1>5. UNCHANGED Wanted /\ \A place : UNCHANGED Rank(place)
  BY <1>1 DEF Wanted, Rank
<1>6. Fixed(Block[next]) <=> next \in Wanted
  BY <1>2, <1>3 DEF Fixed, Readable, Wanted
<1>7. Wanted \subseteq Int /\ entries \subseteq Int
  BY <1>2, BlockAssumption DEF Wanted
<1>8. \A q \in Wanted \ entries', place \in entries' : q < place
  BY <1>1, <1>3, <1>4, <1>7
<1>9. CASE next \in Wanted
  <2>1. /\ device' = [device EXCEPT ![diskcount] = Block[next]]
        /\ diskcount' = diskcount + 1
    BY <1>6, <1>9 DEF ReadDir
  <2>2. Rank(next) = diskcount
    BY <1>1, <1>2, <1>4, <1>9, ReturnedRank
  <2>3. Wanted \ entries' = (Wanted \ entries) \cup {next}
    BY <1>1, <1>3, <1>9
  <2>4. Cardinality(Wanted \ entries') = Cardinality(Wanted \ entries) + 1
    BY <1>3, <2>3, WantedFinite, FS_AddElement
  <2>5. diskcount \in Indices
    BY <1>1, MaxDisksAssumption DEF DiskInv, DiskTypes, Indices
  <2>6. device'[Rank(next)] = Block[next]
    BY <2>1, <2>2, <2>5 DEF DiskInv, DiskTypes
  <2>7. ASSUME NEW q \in Wanted \ entries PROVE device'[Rank(q)] = Block[q]
    <3>1. q < next
      BY <1>3, <1>4
    <3>2. Rank(q) < diskcount /\ Rank(q) \in Nat
      BY <1>9, <2>2, <3>1, RanksGrow, RankIsNat
    <3>3. Rank(q) \in Indices /\ Rank(q) # diskcount
      BY <2>5, <3>2, MaxDisksAssumption DEF Indices
    <3>4. device'[Rank(q)] = device[Rank(q)]
      BY <2>1, <3>3 DEF DiskInv, DiskTypes
    <3> QED
      BY <1>4, <3>4
  <2>8. ScanOfBlock'
    <3>1. \A q \in Wanted \ entries' : device'[Rank(q)] = Block[q]
      BY <2>3, <2>6, <2>7
    <3>2. diskcount' = Cardinality(Wanted \ entries')
      BY <1>4, <2>1, <2>4
    <3> QED
      BY <1>1, <1>4, <1>5, <1>8, <3>1, <3>2 DEF ScanOfBlock
  <2>9. known = "ended" => device' = device
    <3> SUFFICES ASSUME known = "ended" PROVE device' = device
      OBVIOUS
    <3>1. device[diskcount] = Block[next]
      BY <1>1, <1>9, <2>2 DEF DiskInv, TableOfDisks
    <3> QED
      BY <2>1, <2>5, <3>1 DEF DiskInv, DiskTypes
  <2> QED
    BY <2>8, <2>9
<1>10. CASE next \notin Wanted
  <2>1. UNCHANGED <<device, diskcount>>
    BY <1>6, <1>10 DEF ReadDir
  <2>2. Wanted \ entries' = Wanted \ entries
    BY <1>1, <1>10
  <2> QED
    BY <1>1, <1>4, <1>5, <1>8, <2>1, <2>2 DEF ScanOfBlock
<1> QED
  BY <1>9, <1>10

LEMMA ReadDirTable == DiskInv /\ ReadDir => DiskInv'
<1> SUFFICES ASSUME DiskInv, ReadDir PROVE DiskInv'
  OBVIOUS
<1>1. /\ UNCHANGED <<present, disk_qty, known, measure, performance, moved>>
      /\ entries # Closed /\ entries # {} /\ diskcount < MaxDisks
      /\ entries' = entries \ {Returned}
  BY DEF ReadDir
<1>2. entries \in SUBSET (1..Len(Block))
  BY <1>1 DEF DiskInv, DiskTypes
<1>3. entries' \in SUBSET (1..Len(Block)) /\ entries' # Closed
  <2>1. entries' \in SUBSET (1..Len(Block))
    BY <1>1, <1>2
  <2>2. 0 \notin entries'
    BY <2>1, BlockAssumption
  <2> QED
    BY <2>1, <2>2 DEF Closed
<1>4. Block[Returned] \in Devices
  BY <1>1, <1>2, ReturnedIsFirst DEF Devices
<1>5. DiskTypes'
  <2>1. diskcount' \in 0..MaxDisks /\ device' \in [Indices -> Devices \cup {"none"}]
    BY <1>1, <1>4, MaxDisksAssumption DEF ReadDir, DiskInv, DiskTypes
  <2> QED
    BY <1>1, <1>3, <2>1 DEF DiskInv, DiskTypes, measure
<1>6. ScanOfBlock'
  BY <1>1, ReadDirScan DEF ScanOfBlock
<1>7. TableOfDisks'
  <2>1. UNCHANGED Wanted /\ \A place : UNCHANGED Rank(place)
    BY <1>1 DEF Wanted, Rank
  <2> QED
    BY <1>1, <2>1, ReadDirScan DEF DiskInv, TableOfDisks
<1> QED
  BY <1>1, <1>3, <1>5, <1>6, <1>7 DEF DiskInv

\* When a scan ends, all wanted disks are in the table or it is full.
LEMMA CloseDirTable ==
  DiskInv /\ CloseDir => DiskInv' /\ (known = "ended" => disk_qty' = disk_qty)
<1> SUFFICES ASSUME DiskInv, CloseDir
             PROVE  DiskInv' /\ (known = "ended" => disk_qty' = disk_qty)
  OBVIOUS
<1>1. /\ UNCHANGED <<present, diskcount, device, measure, performance, moved>>
      /\ entries # Closed /\ (entries = {} \/ diskcount = MaxDisks)
      /\ entries' = Closed /\ disk_qty' = diskcount
  BY DEF CloseDir, Closed
<1>2. /\ known' # "began" /\ known' \in {"no", "ended"}
      /\ known' = "ended" <=> known # "no"
  BY DEF CloseDir, DiskInv, DiskTypes
<1>3. DiskTypes'
  BY <1>1, <1>2 DEF DiskInv, DiskTypes, measure
<1>4. UNCHANGED Wanted /\ \A place : UNCHANGED Rank(place)
  BY <1>1 DEF Wanted, Rank
<1>5. ASSUME known # "no"
      PROVE  /\ disk_qty' = IF Cardinality(Wanted) < MaxDisks THEN Cardinality(Wanted) ELSE MaxDisks
             /\ \A place \in Wanted : Rank(place) < MaxDisks => device[Rank(place)] = Block[place]
  <2>1. /\ \A q \in Wanted \ entries, place \in entries : q < place
        /\ diskcount = Cardinality(Wanted \ entries)
        /\ \A q \in Wanted \ entries : device[Rank(q)] = Block[q]
    BY <1>1, <1>5 DEF DiskInv, ScanOfBlock
  <2>2. diskcount \in 0..MaxDisks /\ MaxDisks \in Nat
    BY MaxDisksAssumption DEF DiskInv, DiskTypes
  <2>3. CASE entries = {}
    <3>1. Wanted \ entries = Wanted
      BY <2>3
    <3> QED
      BY <1>1, <2>1, <2>2, <3>1
  <2>4. CASE diskcount = MaxDisks
    <3>1. Cardinality(Wanted \ entries) <= Cardinality(Wanted) /\ Cardinality(Wanted) \in Nat
      BY WantedFinite, FS_Subset
    <3>2. disk_qty' = IF Cardinality(Wanted) < MaxDisks THEN Cardinality(Wanted) ELSE MaxDisks
      BY <1>1, <2>1, <2>2, <2>4, <3>1
    <3>3. ASSUME NEW place \in Wanted, place \in entries PROVE Rank(place) >= MaxDisks
      <4>1. Wanted \ entries \subseteq {q \in Wanted : q < place}
        BY <2>1, <3>3
      <4>2. Cardinality(Wanted \ entries) <= Cardinality({q \in Wanted : q < place})
        BY <4>1, WantedFinite, FS_Subset
      <4> QED
        BY <2>1, <2>4, <4>2 DEF Rank
    <3>4. ASSUME NEW place \in Wanted, Rank(place) < MaxDisks PROVE device[Rank(place)] = Block[place]
      <4>1. place \notin entries
        BY <2>2, <3>3, <3>4, RankIsNat
      <4> QED
        BY <2>1, <4>1
    <3> QED
      BY <3>2, <3>4
  <2> QED
    BY <1>1, <2>3, <2>4
<1>6. TableOfDisks'
  BY <1>1, <1>2, <1>4, <1>5 DEF TableOfDisks
<1>7. known = "ended" => disk_qty' = disk_qty
  BY <1>5 DEF DiskInv, TableOfDisks
<1> QED
  BY <1>1, <1>2, <1>3, <1>6, <1>7 DEF DiskInv, ScanOfBlock

LEMMA PlugTable == DiskInv /\ (\E d \in Plugged : Plug(d)) => DiskInv'
<1> SUFFICES ASSUME DiskInv, \E d \in Plugged : Plug(d) PROVE DiskInv'
  OBVIOUS
<1>1. /\ known' = "no"
      /\ UNCHANGED <<entries, diskcount, disk_qty, device, performance, measure>>
      /\ moved' = (moved \/ bench # "stream")
  BY DEF Plug
<1>2. DiskTypes'
  BY <1>1 DEF DiskInv, DiskTypes, measure
<1> QED
  BY <1>1, <1>2 DEF DiskInv, ScanOfBlock, TableOfDisks

LEMMA BenchTable == DiskInv /\ RunBenchmarks => DiskInv'
<1> SUFFICES ASSUME DiskInv, RunBenchmarks PROVE DiskInv'
  OBVIOUS
<1> USE MaxDisksAssumption
<1>1. UNCHANGED <<present, entries, diskcount, disk_qty, device, known>>
  BY DEF RunBenchmarks, BenchDisk, EndStream, NextDisk, StoreSpeed, OpenDisk, Shmget, Lock,
         Attach, ReadBlocks, Quit, table
<1>2. DiskTypes'
  <2>1. performance' \in [Indices -> Devices \cup {"none", "1", "any"}] /\ disk' \in Nat
    BY DEF DiskInv, DiskTypes, RunBenchmarks, BenchDisk, EndStream, NextDisk, StoreSpeed,
           OpenDisk, Shmget, Lock, Attach, ReadBlocks, Quit
  <2>2. name' \in Devices \cup {"none"}
    <3>1. CASE NextDisk
      <4>1. disk < disk_qty => disk \in Indices
        BY DEF DiskInv, DiskTypes, Indices
      <4> QED
        BY <3>1, <4>1 DEF DiskInv, DiskTypes, NextDisk
    <3>2. CASE ~ NextDisk
      BY <3>2 DEF DiskInv, DiskTypes, RunBenchmarks, BenchDisk, EndStream, StoreSpeed,
             OpenDisk, Shmget, Lock, Attach, ReadBlocks, Quit
    <3> QED
      BY <3>1, <3>2
  <2>3. mb' \in Devices \cup {"none", "1", "any"}
    BY DEF DiskInv, DiskTypes, RunBenchmarks, BenchDisk, EndStream, NextDisk, StoreSpeed,
           OpenDisk, Shmget, Lock, Attach, ReadBlocks, Quit, GiveUp
  <2>4. moved' \in BOOLEAN
    BY DEF DiskInv, DiskTypes, RunBenchmarks, BenchDisk, EndStream, NextDisk, StoreSpeed,
           OpenDisk, Shmget, Lock, Attach, ReadBlocks, Quit
  <2> QED
    BY <1>1, <2>1, <2>2, <2>3, <2>4 DEF DiskInv, DiskTypes
<1>3. ScanOfBlock' /\ TableOfDisks'
  BY <1>1 DEF DiskInv, ScanOfBlock, TableOfDisks, Wanted, Rank
<1> QED
  BY <1>1, <1>2, <1>3 DEF DiskInv

LEMMA NextTable == DiskInv /\ [DisksNext]_diskvars => DiskInv'
<1> SUFFICES ASSUME DiskInv, [DisksNext]_diskvars PROVE DiskInv'
  OBVIOUS
<1>1. CASE UNCHANGED diskvars
  BY <1>1 DEF diskvars, table, measure, DiskInv, DiskTypes, ScanOfBlock, TableOfDisks, Wanted, Rank
<1> QED
  BY <1>1, PlugTable, OpenDirTable, ReadDirTable, CloseDirTable, BenchTable
     DEF DisksNext, GetHdInfo

\* A scan that nothing changed under leaves in the table the fixed disks that
\* are there, in the order of the directory (get_hd_info).
THEOREM TableOfDisksAlways == DisksSpec => []TableOfDisks
<1>1. DiskInv => TableOfDisks
  BY DEF DiskInv
<1> QED
  BY InitTable, NextTable, <1>1, PTL DEF DisksSpec

-----------------------------------------------------------------------------
\* While no disk comes or goes, main finds at its index the disk it measures.
SpeedInv ==
  /\ bench = "stream" => ~moved /\ disk = 0 /\ \A n \in Indices : performance[n] = "none"
  /\ ~moved /\ bench # "stream" => known = "ended"
  /\ ~moved /\ bench \notin {"stream", "loop", "completed"} =>
       disk < disk_qty /\ name = device[disk]
  /\ bench \in {"quit", "store"} => mb \in {name, "1", "any"}
  /\ SpeedAtItsDisk

LEMMA TableStands ==
  ASSUME DiskInv, [GetHdInfo]_table, known = "ended"
  PROVE  UNCHANGED <<disk_qty, device, known>>
<1>1. CASE OpenDir
  BY <1>1 DEF OpenDir
<1>2. CASE ReadDir
  BY <1>2, ReadDirScan DEF ReadDir
<1>3. CASE CloseDir
  BY <1>3, CloseDirTable DEF CloseDir
<1> QED
  BY <1>1, <1>2, <1>3 DEF GetHdInfo, table

LEMMA InitSpeed == DisksInit => SpeedInv
<1> SUFFICES ASSUME DisksInit PROVE SpeedInv
  OBVIOUS
<1>1. disk_qty = 0 /\ bench = "stream" /\ disk = 0 /\ \A n \in Indices : performance[n] = "none"
  BY DEF DisksInit
<1>2. ~moved
  BY DEF DisksInit
<1> QED
  BY <1>1, <1>2 DEF SpeedInv, SpeedAtItsDisk

LEMMA NextSpeed == DiskInv /\ SpeedInv /\ [DisksNext]_diskvars => SpeedInv'
<1> SUFFICES ASSUME DiskInv, SpeedInv, [DisksNext]_diskvars PROVE SpeedInv'
  OBVIOUS
<1>1. CASE moved' /\ (GetHdInfo \/ \E d \in Plugged : Plug(d))
  <2>1. bench # "stream" /\ UNCHANGED <<bench, name, mb>>
    BY <1>1 DEF GetHdInfo, OpenDir, ReadDir, CloseDir, Plug, measure, SpeedInv
  <2> QED
    BY <1>1, <2>1 DEF SpeedInv, SpeedAtItsDisk
<1>2. CASE ~moved' /\ \E d \in Plugged : Plug(d)
  <2>1. bench = "stream"
    BY <1>2 DEF Plug
  <2>2. UNCHANGED <<disk_qty, device, performance, bench, disk>>
    BY <1>2 DEF Plug, measure
  <2>3. ~moved
    BY <1>2 DEF Plug
  <2> QED
    BY <1>2, <2>1, <2>2, <2>3 DEF SpeedInv, SpeedAtItsDisk
<1>3. CASE ~moved' /\ GetHdInfo
  <2>1. UNCHANGED <<performance, bench, disk, name, mb>>
    BY <1>3 DEF GetHdInfo, OpenDir, ReadDir, CloseDir, measure
  <2>2. ~moved
    BY <1>3 DEF GetHdInfo, OpenDir, ReadDir, CloseDir
  <2>3. CASE bench = "stream"
    <3>1. \A n \in Indices : performance'[n] = "none"
      BY <2>1, <2>3 DEF SpeedInv
    <3>2. \A n \in 0..(disk_qty' - 1) : n \in Indices
      BY NextTable, MaxDisksAssumption DEF DiskInv, DiskTypes, Indices
    <3>3. SpeedAtItsDisk'
      BY <3>1, <3>2 DEF SpeedAtItsDisk
    <3> QED
      BY <1>3, <2>1, <2>3, <3>1, <3>3 DEF SpeedInv
  <2>4. CASE bench # "stream"
    <3>1. UNCHANGED <<disk_qty, device, known>>
      BY <1>3, <2>2, <2>4, TableStands DEF SpeedInv
    <3> QED
      BY <2>1, <2>2, <2>4, <3>1 DEF SpeedInv, SpeedAtItsDisk
  <2> QED
    BY <2>3, <2>4
<1>4. CASE EndStream
  <2>1. UNCHANGED <<disk_qty, device, known, performance>> /\ bench = "stream" /\ bench' = "loop"
    BY <1>4 DEF EndStream, table
  <2>2. ~moved' => known = "ended"
    BY <1>4 DEF EndStream
  <2>3. ~moved
    BY <2>1 DEF SpeedInv
  <2> QED
    BY <2>1, <2>2, <2>3 DEF SpeedInv, SpeedAtItsDisk
<1>5. CASE RunBenchmarks /\ ~EndStream
  <2>1. UNCHANGED <<disk_qty, device, known>>
    BY <1>5 DEF RunBenchmarks, BenchDisk, NextDisk, StoreSpeed, OpenDisk, Shmget, Lock,
         Attach, ReadBlocks, Quit, table
  <2>2. bench # "stream" /\ bench' # "stream"
    BY <1>5 DEF RunBenchmarks, BenchDisk, NextDisk, StoreSpeed, OpenDisk, Shmget, Lock,
         Attach, ReadBlocks, Quit, GiveUp
  <2>3. moved' <=> moved
    BY <1>5 DEF RunBenchmarks, BenchDisk, NextDisk, StoreSpeed, OpenDisk, Shmget, Lock,
         Attach, ReadBlocks, Quit
  <2>4. CASE NextDisk
    <3>1. bench = "loop" /\ bench' \in {"open", "completed"} /\ UNCHANGED performance
      BY <2>4 DEF NextDisk
    <3>2. bench' = "open" => disk' < disk_qty /\ name' = device[disk']
      BY <2>4 DEF NextDisk
    <3> QED
      BY <2>1, <2>2, <2>3, <3>1, <3>2 DEF SpeedInv, SpeedAtItsDisk
  <2>5. CASE StoreSpeed
    <3>1. /\ bench = "store" /\ bench' = "loop"
          /\ performance' = [performance EXCEPT ![disk] = mb]
      BY <2>5 DEF StoreSpeed
    <3>2. ASSUME ~moved, NEW n \in 0..(disk_qty - 1)
          PROVE  performance'[n] \in {device[n], "none", "1", "any"}
      <4>1. disk < disk_qty /\ name = device[disk] /\ mb \in {name, "1", "any"}
        BY <3>1, <3>2 DEF SpeedInv
      <4>2. n \in Indices
        BY MaxDisksAssumption DEF DiskInv, DiskTypes, Indices
      <4>3. performance'[n] = IF n = disk THEN mb ELSE performance[n]
        BY <3>1, <4>2 DEF DiskInv, DiskTypes
      <4>4. performance[n] \in {device[n], "none", "1", "any"}
        BY <3>2 DEF SpeedInv, SpeedAtItsDisk
      <4> QED
        BY <4>1, <4>3, <4>4
    <3>3. SpeedAtItsDisk'
      BY <2>1, <2>3, <3>2 DEF SpeedAtItsDisk
    <3> QED
      BY <2>1, <2>2, <2>3, <3>1, <3>3 DEF SpeedInv
  <2>6. CASE BenchDisk
    <3>1. /\ UNCHANGED <<performance, disk, name>>
          /\ bench \notin {"stream", "loop", "completed", "store"}
      BY <2>6 DEF BenchDisk, OpenDisk, Shmget, Lock, Attach, ReadBlocks, Quit
    <3>2. bench' \in {"quit", "store"} => mb' \in {name, "1", "any"}
      BY <2>6 DEF BenchDisk, OpenDisk, Shmget, Lock, Attach, ReadBlocks, Quit, GiveUp, SpeedInv
    <3> QED
      BY <2>1, <2>2, <2>3, <3>1, <3>2 DEF SpeedInv, SpeedAtItsDisk
  <2> QED
    BY <1>5, <2>4, <2>5, <2>6 DEF RunBenchmarks
<1>6. CASE UNCHANGED diskvars
  BY <1>6 DEF diskvars, table, measure, SpeedInv, SpeedAtItsDisk
<1> QED
  BY <1>1, <1>2, <1>3, <1>4, <1>5, <1>6 DEF DisksNext

\* A speed stands at the disk it was measured on, though the update thread
\* rewrites the table while main measures by index, unless a disk comes or goes
\* (run_benchmarks, get_hd_info).
THEOREM SpeedAtItsDiskAlways == DisksSpec => []SpeedAtItsDisk
<1>1. SpeedInv => SpeedAtItsDisk
  BY DEF SpeedInv
<1> QED
  BY InitTable, NextTable, InitSpeed, NextSpeed, <1>1, PTL DEF DisksSpec

-----------------------------------------------------------------------------
(***************************************************************************)
(* CpuUsage: any number of CPUs                                            *)
(***************************************************************************)

Counts == [used : 0..(Wrap - 1), idle : 0..(Wrap - 1)]

\* An index that was filled in the last round holds the counters of its line.
UpToDate ==
  /\ counters \in [CpuLines -> Counts]
  /\ cpu_qty \in 0..MaxCpus
  /\ \A n \in Entries : shows[n][1] \in CpuLines =>
       /\ cpu_usage[n].last_usage = counters[shows[n][1]].used
       /\ cpu_usage[n].last_idle = counters[shows[n][1]].idle

\* What unsigned subtraction makes of a counter that has gone round at most once.
LEMMA MinusAdvance ==
  ASSUME NEW b \in 0..(Wrap - 1), NEW t \in 0..(Wrap - 1)
  PROVE  (b + t) % Wrap \in 0..(Wrap - 1) /\ Minus((b + t) % Wrap, b) = t
  BY WrapAssumption DEF Minus

\* The whole entry: both differences and their sum are the ticks that passed.
LEMMA DifferenceRight ==
  ASSUME NEW c \in CpuLines, NEW t \in Ticks, counters \in [CpuLines -> Counts],
         NEW entry, entry.last_usage = counters[c].used, entry.last_idle = counters[c].idle
  PROVE  /\ Difference(entry, Advanced(c, t)).time_used = t.used
         /\ Difference(entry, Advanced(c, t)).time_total = t.used + t.idle
<1>1. /\ counters[c].used \in 0..(Wrap - 1) /\ counters[c].idle \in 0..(Wrap - 1)
      /\ t.used \in Nat /\ t.idle \in Nat /\ t.used + t.idle \in 0..(Wrap - 1)
  BY WrapAssumption DEF Counts, Ticks
<1> /\ t.used \in 0..(Wrap - 1)
    /\ t.idle \in 0..(Wrap - 1)
  BY <1>1, WrapAssumption
<1>2. Minus((counters[c].used + t.used) % Wrap, counters[c].used) = t.used
  BY <1>1, MinusAdvance
<1>3. Minus((counters[c].idle + t.idle) % Wrap, counters[c].idle) = t.idle
  BY <1>1, MinusAdvance
<1>4. (t.used + t.idle) % Wrap = t.used + t.idle
  BY <1>1, WrapAssumption
<1> QED
  BY <1>2, <1>3, <1>4 DEF Difference, Advanced

\* In the first round nothing has been filled.
LEMMA InitUpToDate == CpuInit => UpToDate /\ UsageRight
<1> SUFFICES ASSUME CpuInit PROVE UpToDate /\ UsageRight
  OBVIOUS
<1>1. \A n \in Entries : shows[n][1] = "none"
  BY DEF CpuInit
<1>2. UpToDate
  BY <1>1, WrapAssumption, ListingsAssumption DEF CpuInit, UpToDate, Counts
<1>3. UsageRight
  BY DEF CpuInit, UsageRight
<1> QED
  BY <1>2, <1>3

\* A round keeps the table up to date, and fills it with the ticks of that round.
LEMMA RoundUpToDate == UpToDate /\ GetCpuUsage => UpToDate' /\ UsageRight'
<1> SUFFICES ASSUME UpToDate, GetCpuUsage PROVE UpToDate' /\ UsageRight'
  OBVIOUS
<1>1. PICK listed \in Listings, added \in [CpuLines -> Ticks] :
        /\ counters' = [c \in CpuLines |-> Advanced(c, added[c])]
        /\ fresh' = added
        /\ cpu_usage' = [n \in Entries |->
             IF n \in 1..Least(Len(listed), MaxCpus)
             THEN Difference(cpu_usage[n], Advanced(listed[n], added[listed[n]]))
             ELSE cpu_usage[n]]
        /\ shows' = [n \in Entries |->
             IF n \in 1..Least(Len(listed), MaxCpus) THEN <<listed[n], shows[n][1]>>
                                                     ELSE <<"none", "none">>]
        /\ cpu_qty' = Least(Len(listed), MaxCpus)
  BY DEF GetCpuUsage
<1>2. /\ Len(listed) \in Nat
      /\ cpu_qty' \in 0..MaxCpus /\ cpu_qty' <= Len(listed)
      /\ \A n \in 1..Len(listed) : listed[n] \in CpuLines
  BY <1>1, ListingsAssumption, WrapAssumption DEF Least
<1>3. counters' \in [CpuLines -> Counts]
  <2> SUFFICES ASSUME NEW c \in CpuLines PROVE Advanced(c, added[c]) \in Counts
    BY <1>1
  <2>1. /\ counters[c].used \in 0..(Wrap - 1) /\ counters[c].idle \in 0..(Wrap - 1)
        /\ added[c].used \in 0..(Wrap - 1) /\ added[c].idle \in 0..(Wrap - 1)
    BY <1>1, WrapAssumption DEF UpToDate, Counts, Ticks
  <2> QED
    BY <2>1, MinusAdvance DEF Advanced, Counts
<1>4. ASSUME NEW n \in Entries, shows'[n][1] \in CpuLines
      PROVE  /\ n \in 1..cpu_qty'
             /\ shows'[n] = <<listed[n], shows[n][1]>>
             /\ cpu_usage'[n] = Difference(cpu_usage[n], Advanced(listed[n], added[listed[n]]))
  BY <1>1, <1>4, ListingsAssumption
<1>5. ASSUME NEW n \in Entries, shows'[n][1] \in CpuLines
      PROVE  /\ cpu_usage'[n].last_usage = counters'[shows'[n][1]].used
             /\ cpu_usage'[n].last_idle = counters'[shows'[n][1]].idle
  BY <1>1, <1>4, <1>5 DEF Difference
<1>6. UpToDate'
  BY <1>2, <1>3, <1>5 DEF UpToDate
<1>7. UsageRight'
  <2> SUFFICES ASSUME NEW n \in 1..cpu_qty', shows'[n][1] = shows'[n][2]
               PROVE  /\ cpu_usage'[n].time_used = fresh'[shows'[n][1]].used
                      /\ cpu_usage'[n].time_total =
                           fresh'[shows'[n][1]].used + fresh'[shows'[n][1]].idle
    BY DEF UsageRight
  <2>1. n \in Entries /\ n \in 1..Len(listed) /\ listed[n] \in CpuLines
    BY <1>2, WrapAssumption DEF Entries
  <2>2. /\ shows'[n] = <<listed[n], shows[n][1]>>
        /\ cpu_usage'[n] = Difference(cpu_usage[n], Advanced(listed[n], added[listed[n]]))
    BY <1>1, <2>1
  <2>3. shows[n][1] = listed[n]
    BY <2>2
  <2>4. /\ cpu_usage[n].last_usage = counters[listed[n]].used
        /\ cpu_usage[n].last_idle = counters[listed[n]].idle
    BY <2>1, <2>3 DEF UpToDate
  <2>5. added[listed[n]] \in Ticks /\ counters \in [CpuLines -> Counts]
    BY <2>1, <1>1 DEF UpToDate
  <2>6. /\ Difference(cpu_usage[n], Advanced(listed[n], added[listed[n]])).time_used
             = added[listed[n]].used
        /\ Difference(cpu_usage[n], Advanced(listed[n], added[listed[n]])).time_total
             = added[listed[n]].used + added[listed[n]].idle
    BY <2>1, <2>4, <2>5, DifferenceRight
  <2>7. shows'[n][1] = listed[n]
    BY <2>2
  <2>8. fresh' = added
    BY <1>1
  <2> QED
    BY <2>2, <2>6, <2>7, <2>8
<1> QED
  BY <1>6, <1>7

\* For any lines, any number of CPUs and any width of the counters, the usage shown
\* is made of the ticks since the last round (get_cpu_usage).
THEOREM UsageRightAlways == CpuSpec => []UsageRight
<1>1. UpToDate /\ UsageRight /\ [GetCpuUsage]_cpuvars => UpToDate' /\ UsageRight'
  <2>1. UpToDate /\ UsageRight /\ UNCHANGED cpuvars => UpToDate' /\ UsageRight'
    BY DEF UpToDate, UsageRight, cpuvars
  <2> QED
    BY <2>1, RoundUpToDate
<1> QED
  BY InitUpToDate, <1>1, PTL DEF CpuSpec

-----------------------------------------------------------------------------
(***************************************************************************)
(* HplSizes: any machine                                                   *)
(***************************************************************************)

\* What the search for the height has passed is no divisor, up to the root.
GInv ==
  /\ cores \in Nat \ {0} /\ p \in 0..cores
  /\ p # 0 => /\ (p - 1) * (p - 1) < cores
              /\ \A d \in Nat : d > p /\ (d - 1) * (d - 1) < cores => cores % d # 0
  /\ GridOfAllCores

LEMMA Square == ASSUME NEW a \in Nat, NEW b \in Nat, a <= b  PROVE a * a \in Nat /\ b * b \in Nat /\ a * a <= b * b
<1>1. a * a <= a * b
  OBVIOUS
<1>2. a * b <= b * b
  OBVIOUS
<1>3. a * a \in Nat /\ b * b \in Nat /\ a * b \in Nat
  OBVIOUS
<1> QED
  BY <1>1, <1>2, <1>3

LEMMA AboveRoot ==
  ASSUME NEW n \in Nat, NEW k \in Nat, k * k >= n, NEW d \in Nat, d > k
  PROVE  ~((d - 1) * (d - 1) < n)
<1>1. d - 1 \in Nat /\ k <= d - 1
  OBVIOUS
<1>2. k * k <= (d - 1) * (d - 1) /\ k * k \in Nat /\ (d - 1) * (d - 1) \in Nat
  BY <1>1, Square
<1> QED
  BY <1>2

LEMMA Quotient ==
  ASSUME NEW n \in Nat, NEW d \in Nat \ {0}, n % d = 0
  PROVE  n \div d \in Nat /\ d * (n \div d) = n
OBVIOUS

LEMMA Multiple == ASSUME NEW a \in Nat, NEW b \in Nat \ {0} PROVE (a * b) % b = 0
<1>1. PICK k \in Int, r \in 0..(b - 1) : a * b = b * k + r /\ r = (a * b) % b
  <2>1. a * b \in Nat
    OBVIOUS
  <2>2. \A x \in Nat : x = b * (x \div b) + (x % b) /\ x \div b \in Int /\ x % b \in 0..(b - 1)
    OBVIOUS
  <2> QED
    BY <2>1, <2>2
<1>2. b * (a - k) = r
  BY <1>1
<1>3. a - k <= 0
  <2> SUFFICES ASSUME a - k >= 1 PROVE FALSE
    BY <1>1
  <2>1. b * (a - k) >= b
    BY <1>1
  <2> QED
    BY <1>1, <1>2, <2>1
<1>4. a - k >= 0
  <2> SUFFICES ASSUME a - k <= -1 PROVE FALSE
    BY <1>1
  <2>1. b * (a - k) <= -b
    BY <1>1
  <2> QED
    BY <1>1, <1>2, <2>1
<1> QED
  BY <1>1, <1>2, <1>3, <1>4

\* A divisor and its cofactor: the smaller is not above the root.
LEMMA SmallDivisor ==
  ASSUME NEW n \in Nat \ {0}, NEW low \in Nat \ {0}, NEW high \in Nat, low * high = n,
         NEW d \in Nat, low < d, d < high, n % d = 0
  PROVE  \E m \in Nat : m > low /\ (m - 1) * (m - 1) < n /\ n % m = 0
<1>1. PICK e \in Nat : d * e = n
  <2>1. n \div d \in Nat /\ d * (n \div d) = n
    BY Quotient
  <2> QED
    BY <2>1
<1>2. e > low
  <2> SUFFICES ASSUME e <= low PROVE FALSE
    BY <1>1
  <2>1. d * e <= d * low
    BY <1>1
  <2>2. d * low < high * low
    OBVIOUS
  <2> QED
    BY <1>1, <2>1, <2>2
<1>3. CASE d <= e
  <2>1. (d - 1) * (d - 1) < d * d
    OBVIOUS
  <2>2. d * d <= d * e
    BY <1>1, <1>3
  <2>3. (d - 1) * (d - 1) < n
    BY <1>1, <2>1, <2>2
  <2> WITNESS d \in Nat
  <2> QED
    BY <2>3
<1>4. CASE e < d
  <2>1. (e - 1) * (e - 1) < e * e
    BY <1>1, <1>2
  <2>2. e * e <= d * e
    BY <1>1, <1>4
  <2>3. n % e = 0
    <3>1. n = e * d /\ e > 0
      BY <1>1, <1>2
    <3>2. (d * e) % e = 0
      BY <1>1, <3>1, Multiple
    <3> QED
      BY <1>1, <3>2
  <2>4. (e - 1) * (e - 1) < n
    BY <1>1, <2>1, <2>2
  <2> QED
    BY <1>2, <2>3, <2>4
<1> QED
  BY <1>1, <1>3, <1>4

LEMMA InitGrid == HplInit => GInv
BY DEF HplInit, GInv, GridOfAllCores

LEMMA StartGrid == GInv /\ Start => GInv'
<1> SUFFICES ASSUME GInv, Start PROVE GInv'
  OBVIOUS
<1>1. cores' \in Nat \ {0} /\ p' \in 0..cores' /\ CeilSqrt(p', cores')
  BY CoresAssumption DEF Start
<1>2. p' * p' >= cores'
  BY <1>1 DEF CeilSqrt
<1>3. p' # 0
  <2> SUFFICES ASSUME p' = 0 PROVE FALSE
    OBVIOUS
  <2>1. 0 * 0 >= cores'
    BY <1>2
  <2> QED
    BY <1>1, <2>1
<1>4. (p' - 1) * (p' - 1) < cores'
  BY <1>1, <1>3 DEF CeilSqrt
<1>5. ASSUME NEW d \in Nat, d > p' PROVE ~((d - 1) * (d - 1) < cores')
  <2>1. p' \in Nat /\ cores' \in Nat
    BY <1>1
  <2> QED
    BY <1>2, <1>5, <2>1, AboveRoot
<1>6. GridOfAllCores'
  BY <1>3 DEF GridOfAllCores
<1> QED
  BY <1>1, <1>3, <1>4, <1>5, <1>6 DEF GInv

LEMMA DownGrid == GInv /\ Down => GInv'
<1> SUFFICES ASSUME GInv, Down PROVE GInv'
  OBVIOUS
<1>1. cores' = cores /\ p' = p - 1 /\ p > 1 /\ cores % p # 0 /\ p' \in Nat /\ p' # 0 /\ p \in Nat
  BY DEF GInv, Down, Divides
<1>2. (p' - 1) * (p' - 1) < cores
  <2>1. (p' - 1) * (p' - 1) <= (p - 1) * (p - 1)
    BY <1>1, Square
  <2>2. (p - 1) * (p - 1) < cores /\ cores \in Nat
    BY <1>1 DEF GInv
  <2> QED
    BY <1>1, <2>1, <2>2
<1>3. ASSUME NEW d \in Nat, d > p', (d - 1) * (d - 1) < cores PROVE cores % d # 0
  BY <1>1, <1>3 DEF GInv
<1> QED
  BY <1>1, <1>2, <1>3 DEF GInv, GridOfAllCores

LEMMA PrintedGrid == GInv /\ PrintGrid => GInv'
<1> SUFFICES ASSUME GInv, PrintGrid PROVE GInv'
  OBVIOUS
<1> DEFINE q == cores \div p
<1>1. /\ cores' = cores /\ cores \in Nat \ {0} /\ p \in Nat \ {0} /\ p' = 0
      /\ (p - 1) * (p - 1) < cores
      /\ \A d \in Nat : d > p /\ (d - 1) * (d - 1) < cores => cores % d # 0
      /\ grid' = IF p > q THEN [P |-> q, Q |-> p] ELSE [P |-> p, Q |-> q]
  BY DEF GInv, PrintGrid
<1>2. cores % p = 0
  BY <1>1 DEF PrintGrid, Divides
<1>3. q \in Nat /\ p * q = cores
  BY <1>1, <1>2, Quotient
<1>4. CASE p > q
  <2>1. q >= p - 1
    <3> SUFFICES ASSUME q <= p - 2 PROVE FALSE
      BY <1>1, <1>3
    <3>1. p * q <= p * (p - 2)
      BY <1>1, <1>3
    <3>2. p * (p - 2) < (p - 1) * (p - 1)
      BY <1>1
    <3> QED
      BY <1>1, <1>3, <3>1, <3>2
  <2>2. grid'.P = q /\ grid'.Q = p /\ q * p = cores
    BY <1>1, <1>3, <1>4
  <2>3. \A d \in (q + 1)..(p - 1) : cores % d # 0
    BY <1>1, <1>3, <2>1
  <2>4. GridOfAllCores'
    BY <1>1, <1>3, <1>4, <2>2, <2>3 DEF GridOfAllCores
  <2> QED
    BY <1>1, <2>4 DEF GInv
<1>5. CASE p <= q
  <2>1. ASSUME NEW d \in (p + 1)..(q - 1), cores % d = 0 PROVE FALSE
    <3>1. d \in Nat /\ p < d /\ d < q
      BY <1>1, <1>3
    <3>2. \E m \in Nat : m > p /\ (m - 1) * (m - 1) < cores /\ cores % m = 0
      BY <1>1, <1>3, <2>1, <3>1, SmallDivisor
    <3> QED
      BY <1>1, <3>2
  <2>2. grid'.P = p /\ grid'.Q = q
    BY <1>1, <1>3, <1>5
  <2>3. GridOfAllCores'
    BY <1>1, <1>3, <1>5, <2>1, <2>2 DEF GridOfAllCores
  <2> QED
    BY <1>1, <2>3 DEF GInv
<1> QED
  BY <1>1, <1>3, <1>4, <1>5

\* For any number of cores the grid has a place for each of them and no other is
\* nearer to a square, although the search starts above the root (hpl_calc_pq).
THEOREM GridOfAllCoresAlways == HplSpec => []GridOfAllCores
<1>1. GInv /\ [HplNext]_hplvars => GInv'
  <2>1. GInv /\ UNCHANGED hplvars => GInv'
    BY DEF GInv, GridOfAllCores, hplvars
  <2> QED
    BY <2>1, StartGrid, DownGrid, PrintedGrid DEF HplNext
<1>2. GInv => GridOfAllCores
  BY DEF GInv
<1> QED
  BY InitGrid, <1>1, <1>2, PTL DEF HplSpec

-----------------------------------------------------------------------------
\* Rounding down: to the root, to a multiple of the step, to a number of elements.
LEMMA RoundedDown ==
  ASSUME NEW bytes \in Nat, NEW root \in Nat, NEW step \in Nat \ {0},
         root * root <= bytes \div 8, (root + 1) * (root + 1) > bytes \div 8
  PROVE  LET n == (root \div step) * step
         IN  8 * n * n <= bytes /\ 8 * (n + step) * (n + step) > bytes
<1> DEFINE n == (root \div step) * step
<1>1. n \in Nat /\ n <= root /\ root + 1 <= n + step
  <2>1. root = step * (root \div step) + (root % step) /\ root % step \in 0..(step - 1)
    OBVIOUS
  <2>2. root \div step \in Nat
    OBVIOUS
  <2>3. step * (root \div step) = n /\ n \in Nat
    BY <2>2
  <2> HIDE DEF n
  <2> QED
    BY <2>1, <2>3
<1> HIDE DEF n
<1>2. n * n <= root * root /\ (root + 1) * (root + 1) <= (n + step) * (n + step)
  <2>1. n + step \in Nat /\ root + 1 \in Nat
    BY <1>1
  <2> QED
    BY <1>1, <2>1, Square
<1>3. n * n \in Nat /\ (n + step) * (n + step) \in Nat /\ root * root \in Nat /\ (root + 1) * (root + 1) \in Nat
  <2>1. n + step \in Nat /\ root + 1 \in Nat
    BY <1>1
  <2> QED
    BY <1>1, <2>1, Square
<1>4. n * n <= bytes \div 8 /\ (n + step) * (n + step) >= (bytes \div 8) + 1 /\ bytes \div 8 \in Nat
  BY <1>2, <1>3
<1>5. 8 * (n * n) <= bytes /\ 8 * ((n + step) * (n + step)) > bytes
  BY <1>3, <1>4
<1>6. 8 * n * n = 8 * (n * n) /\ 8 * (n + step) * (n + step) = 8 * ((n + step) * (n + step))
  BY <1>1
<1> QED
  BY <1>5, <1>6 DEF n

LEMMA TimesMono ==
  ASSUME NEW a \in Int, NEW b \in Int, NEW k \in Nat, a <= b
  PROVE  k * a <= k * b
<1>1. b - a \in Nat
  OBVIOUS
<1>2. k * (b - a) \in Nat /\ k * (b - a) = k * b - k * a
  BY <1>1
<1>3. k * a \in Int /\ k * b \in Int
  OBVIOUS
<1> QED
  BY <1>2, <1>3

LEMMA TimesCancel ==
  ASSUME NEW a \in Int, NEW b \in Int, NEW k \in Nat \ {0}, k * a <= k * b
  PROVE  a <= b
<1> SUFFICES ASSUME b + 1 <= a PROVE FALSE
  OBVIOUS
<1>1. k * (b + 1) <= k * a
  BY TimesMono
<1>2. k * (b + 1) = k * b + k /\ k * a \in Int /\ k * b \in Int
  OBVIOUS
<1> QED
  BY <1>1, <1>2

\* Two roundings add less than three in the last digit.
LEMMA RoundedUpTwice ==
  ASSUME NEW d \in Nat \ (0..2), NEW f \in Nat, NEW x \in Nat, NEW y \in Nat, NEW m \in Nat,
         NEW c \in Int, NEW s \in Nat,
         d * y <= (d + 1) * x, d * m <= (d + 1) * (y * f), 100 * (d + 3) * f <= c * d * s
  PROVE  100 * m <= c * x * s
<1>1. ((d + 1) * f) * (d * y) <= ((d + 1) * f) * ((d + 1) * x)
  <2>1. (d + 1) * f \in Nat /\ d * y \in Int /\ (d + 1) * x \in Int
    OBVIOUS
  <2> QED
    BY <2>1, TimesMono
<1>2. d * (d * m) <= d * ((d + 1) * (y * f))
  <2>1. d * m \in Int /\ (d + 1) * (y * f) \in Int
    OBVIOUS
  <2> QED
    BY <2>1, TimesMono
<1>3. (f * x) * ((d + 1) * (d + 1)) <= (f * x) * (d * (d + 3))
  <2>1. (d + 1) * (d + 1) <= d * (d + 3)
    OBVIOUS
  <2>2. f * x \in Nat /\ (d + 1) * (d + 1) \in Int /\ d * (d + 3) \in Int
    OBVIOUS
  <2> QED
    BY <2>1, <2>2, TimesMono
<1>4. d * (d * m) <= d * ((d + 3) * (f * x))
  <2>1. d * ((d + 1) * (y * f)) = ((d + 1) * f) * (d * y)
    OBVIOUS
  <2>2. ((d + 1) * f) * ((d + 1) * x) = (f * x) * ((d + 1) * (d + 1))
    OBVIOUS
  <2>3. (f * x) * (d * (d + 3)) = d * ((d + 3) * (f * x))
    OBVIOUS
  <2>4. /\ d * (d * m) \in Int /\ ((d + 1) * f) * (d * y) \in Int
        /\ (f * x) * ((d + 1) * (d + 1)) \in Int /\ d * ((d + 3) * (f * x)) \in Int
    OBVIOUS
  <2> QED
    BY <1>1, <1>2, <1>3, <2>1, <2>2, <2>3, <2>4
<1>5. d * m <= (d + 3) * (f * x)
  <2>1. d * m \in Int /\ (d + 3) * (f * x) \in Int
    OBVIOUS
  <2> QED
    BY <1>4, <2>1, TimesCancel
<1>6. x * (100 * (d + 3) * f) <= x * (c * d * s)
  <2>1. 100 * (d + 3) * f \in Int /\ c * d * s \in Int
    OBVIOUS
  <2> QED
    BY <2>1, TimesMono
<1>7. d * (100 * m) <= d * (c * x * s)
  <2>1. x * (100 * (d + 3) * f) = 100 * ((d + 3) * (f * x))
    OBVIOUS
  <2>2. x * (c * d * s) = d * (c * x * s) /\ d * (100 * m) = 100 * (d * m)
    OBVIOUS
  <2>3. d * m \in Int /\ (d + 3) * (f * x) \in Int /\ d * (c * x * s) \in Int
    OBVIOUS
  <2> QED
    BY <1>5, <1>6, <2>1, <2>2, <2>3
<1>8. 100 * m \in Int /\ c * x * s \in Int
  OBVIOUS
<1> QED
  BY <1>7, <1>8, TimesCancel

LEMMA RoundedDownTwice ==
  ASSUME NEW d \in Nat \ (0..2), NEW f \in Nat, NEW x \in Nat, NEW y \in Nat, NEW m \in Nat,
         NEW c \in Int, NEW s \in Nat,
         (d - 1) * x <= d * y, (d - 1) * (y * f) <= d * m, c * d * s <= 100 * (d - 3) * f
  PROVE  c * x * s <= 100 * m
<1>1. ((d - 1) * f) * ((d - 1) * x) <= ((d - 1) * f) * (d * y)
  <2>1. d - 1 \in Nat
    OBVIOUS
  <2>2. (d - 1) * f \in Nat /\ d * y \in Int /\ (d - 1) * x \in Int
    BY <2>1
  <2> QED
    BY <2>2, TimesMono
<1>2. d * ((d - 1) * (y * f)) <= d * (d * m)
  <2>1. d * m \in Int /\ (d - 1) * (y * f) \in Int
    OBVIOUS
  <2> QED
    BY <2>1, TimesMono
<1>3. (f * x) * (d * (d - 3)) <= (f * x) * ((d - 1) * (d - 1))
  <2>1. d * (d - 3) <= (d - 1) * (d - 1)
    OBVIOUS
  <2>2. f * x \in Nat /\ (d - 1) * (d - 1) \in Int /\ d * (d - 3) \in Int
    OBVIOUS
  <2> QED
    BY <2>1, <2>2, TimesMono
<1>4. d * ((d - 3) * (f * x)) <= d * (d * m)
  <2>1. d * ((d - 1) * (y * f)) = ((d - 1) * f) * (d * y)
    OBVIOUS
  <2>2. ((d - 1) * f) * ((d - 1) * x) = (f * x) * ((d - 1) * (d - 1))
    OBVIOUS
  <2>3. (f * x) * (d * (d - 3)) = d * ((d - 3) * (f * x))
    OBVIOUS
  <2>4. /\ d * (d * m) \in Int /\ ((d - 1) * f) * (d * y) \in Int
        /\ (f * x) * ((d - 1) * (d - 1)) \in Int /\ d * ((d - 3) * (f * x)) \in Int
    OBVIOUS
  <2> QED
    BY <1>1, <1>2, <1>3, <2>1, <2>2, <2>3, <2>4
<1>5. (d - 3) * (f * x) <= d * m
  <2>1. d * m \in Int /\ (d - 3) * (f * x) \in Int
    OBVIOUS
  <2> QED
    BY <1>4, <2>1, TimesCancel
<1>6. x * (c * d * s) <= x * (100 * (d - 3) * f)
  <2>1. 100 * (d - 3) * f \in Int /\ c * d * s \in Int
    OBVIOUS
  <2> QED
    BY <2>1, TimesMono
<1>7. d * (c * x * s) <= d * (100 * m)
  <2>1. x * (100 * (d - 3) * f) = 100 * ((d - 3) * (f * x))
    OBVIOUS
  <2>2. x * (c * d * s) = d * (c * x * s) /\ d * (100 * m) = 100 * (d * m)
    OBVIOUS
  <2>3. d * m \in Int /\ (d - 3) * (f * x) \in Int /\ d * (c * x * s) \in Int
    OBVIOUS
  <2> QED
    BY <1>5, <1>6, <2>1, <2>2, <2>3
<1>8. 100 * m \in Int /\ c * x * s \in Int
  OBVIOUS
<1> QED
  BY <1>7, <1>8, TimesCancel

-----------------------------------------------------------------------------
LEMMA DistanceRight ==
  ASSUME NEW n \in Nat, n <= 2 * Width * Factor
  PROVE  /\ Distance(n) \in Nat \ {0} /\ n <= Digits * Distance(n)
         /\ Distance(n) = 1 \/ Digits * Distance(n) <= 2 * n
<1> DEFINE T == {u \in Powers : n <= Digits * u}
<1>1. Digits \in Nat /\ 2 * Width * Factor \in Nat
  BY DoubleAssumption, MemoryAssumption
<1>2. T # {}
  <2>1. PICK u \in Powers : Digits * u >= 2 * Width * Factor
    BY DoubleAssumption
  <2>2. Digits * u \in Nat
    BY <1>1, DoubleAssumption
  <2> QED
    BY <1>1, <2>1, <2>2
<1>3. Distance(n) \in T /\ \A v \in T : Distance(n) <= v
  <2>1. T \in SUBSET Nat
    BY DoubleAssumption
  <2>2. \E u \in Powers : n <= Digits * u /\ \A v \in Powers : n <= Digits * v => u <= v
    BY <1>2, <2>1, LeastNat
  <2> QED
    BY <2>2 DEF Distance
<1>4. Distance(n) \in Nat \ {0}
  BY <1>3, DoubleAssumption
<1>5. ASSUME Distance(n) # 1 PROVE Digits * Distance(n) <= 2 * n
  <2>1. PICK v \in Powers : Distance(n) = 2 * v
    BY <1>3, <1>5, DoubleAssumption
  <2>2. v \in Nat \ {0} /\ ~(Distance(n) <= v)
    BY <1>4, <2>1, DoubleAssumption
  <2>3. ~(n <= Digits * v)
    BY <1>3, <2>2
  <2>4. Digits * v \in Nat /\ Digits * Distance(n) = 2 * (Digits * v)
    BY <1>1, <2>1, <2>2
  <2> QED
    BY <2>3, <2>4
<1> QED
  BY <1>3, <1>4, <1>5

LEMMA NearestRight ==
  ASSUME NEW n \in Nat, NEW u \in Nat \ {0}
  PROVE  /\ Nearest(n, u) \in Nat
         /\ 2 * (Nearest(n, u) - n) <= u /\ 2 * (n - Nearest(n, u)) <= u
         /\ u = 1 => Nearest(n, u) = n
<1>1. n = u * (n \div u) + (n % u) /\ n % u \in 0..(u - 1) /\ n \div u \in Nat
  OBVIOUS
<1>2. PICK q \in Nat, rest \in Nat : q = n \div u /\ rest = n % u /\ rest < u
  BY <1>1
<1>3. PICK low \in Nat : low = q * u /\ (q + 1) * u = low + u /\ n = low + rest
  <2>1. q * u \in Nat /\ (q + 1) * u = q * u + u /\ u * q = q * u
    OBVIOUS
  <2> QED
    BY <1>1, <1>2, <2>1
<1>4. \/ Nearest(n, u) = low /\ 2 * rest <= u
      \/ Nearest(n, u) = low + u /\ 2 * rest >= u
  BY <1>2, <1>3 DEF Nearest
<1> QED
  BY <1>2, <1>3, <1>4

\* A double is within one in the last digit of what it is rounded from.
LEMMA DoubleRight ==
  ASSUME NEW n \in Nat, n <= 2 * Width * Factor
  PROVE  /\ Double(n) \in Nat
         /\ Digits * Double(n) <= (Digits + 1) * n
         /\ (Digits - 1) * n <= Digits * Double(n)
<1>1. PICK u \in Nat \ {0} : u = Distance(n) /\ (u = 1 \/ Digits * u <= 2 * n)
  BY DistanceRight
<1>2. PICK r \in Nat : /\ r = Double(n)
                       /\ 2 * (r - n) <= u /\ 2 * (n - r) <= u
                       /\ u = 1 => r = n
  BY <1>1, NearestRight DEF Double
<1>3. Digits \in Nat
  BY DoubleAssumption
<1>4. CASE r = n
  BY <1>2, <1>3, <1>4
<1>5. CASE u # 1
  <2>1. Digits * (2 * (r - n)) <= Digits * u /\ Digits * (2 * (n - r)) <= Digits * u
    BY <1>2, <1>3, TimesMono
  <2>2. /\ Digits * (2 * (r - n)) = 2 * (Digits * r) - 2 * (Digits * n)
        /\ Digits * (2 * (n - r)) = 2 * (Digits * n) - 2 * (Digits * r)
        /\ Digits * r \in Nat /\ Digits * n \in Nat /\ Digits * u \in Nat
    BY <1>3
  <2>3. Digits * r <= Digits * n + n /\ Digits * n - n <= Digits * r
    BY <1>1, <1>5, <2>1, <2>2
  <2>4. (Digits + 1) * n = Digits * n + n /\ (Digits - 1) * n = Digits * n - n
    BY <1>3
  <2> QED
    BY <1>2, <2>3, <2>4
<1> QED
  BY <1>2, <1>4, <1>5

\* What hpl_calc_n multiplies and rounds is the share within one percent.
LEMMA ShareRight ==
  ASSUME NEW kb \in Memory, kb >= Reserve
  PROVE  \E x \in Nat, m \in Nat :
           /\ x = (kb - Reserve) * Unit /\ Bytes(kb) = m \div Scale
           /\ 100 * m <= (Percent + 1) * x * Scale /\ (Percent - 1) * x * Scale <= 100 * m
<1>1. /\ kb \in Nat /\ kb < Width /\ kb * Unit < Width
      /\ Reserve \in Nat /\ Unit \in Nat /\ Percent \in Nat /\ Width \in Nat \ {0}
  BY MemoryAssumption
<1>2. /\ Factor \in Nat \ {0} /\ Scale \in Nat \ {0} /\ Digits \in Nat \ (0..2)
      /\ 100 * (Digits + 3) * Factor <= (Percent + 1) * Digits * Scale
      /\ (Percent - 1) * Digits * Scale <= 100 * (Digits - 3) * Factor
  <2>1. 100 * (Digits - 3) * Factor >= (Percent - 1) * Digits * Scale
    BY DoubleAssumption
  <2>2. 100 * (Digits - 3) * Factor \in Int /\ (Percent - 1) * Digits * Scale \in Int
    BY <1>1, DoubleAssumption
  <2> QED
    BY <2>1, <2>2, DoubleAssumption
<1>3. PICK more \in Nat : kb - Reserve = more /\ more <= kb
  BY <1>1
<1>4. PICK x \in Nat : x = more * Unit /\ x < Width /\ Above(kb) = x
  <2>1. more % Width = more
    BY <1>1, <1>3
  <2>2. more * Unit <= kb * Unit /\ more * Unit \in Nat
    BY <1>1, <1>3
  <2>3. (more * Unit) % Width = more * Unit
    BY <1>1, <2>2
  <2> QED
    BY <1>1, <1>3, <2>1, <2>2, <2>3 DEF Above
<1>5. x <= 2 * Width * Factor
  <2>1. Width * 1 <= Width * Factor
    BY <1>1, <1>2, TimesMono
  <2>2. Width * Factor \in Nat /\ 2 * Width * Factor = 2 * (Width * Factor)
    BY <1>1, <1>2
  <2> QED
    BY <1>1, <1>4, <2>1, <2>2
<1>6. PICK y \in Nat : y = Double(x) /\ Digits * y <= (Digits + 1) * x /\ (Digits - 1) * x <= Digits * y
  BY <1>5, DoubleRight
<1>7. y * Factor <= 2 * Width * Factor /\ y * Factor \in Nat
  <2>1. Digits * y <= Digits * (2 * x)
    <3>1. (Digits + 1) * x <= Digits * (2 * x)
      <4>1. Digits * (2 * x) = Digits * x + Digits * x /\ (Digits + 1) * x = Digits * x + x
        BY <1>2
      <4>2. x * 1 <= x * Digits /\ x * Digits = Digits * x /\ Digits * x \in Nat
        BY <1>2, TimesMono
      <4> QED
        BY <4>1, <4>2
    <3>2. Digits * y \in Nat /\ (Digits + 1) * x \in Nat /\ Digits * (2 * x) \in Nat
      BY <1>2
    <3> QED
      BY <1>6, <3>1, <3>2
  <2>2. y <= 2 * x
    BY <1>2, <2>1, TimesCancel
  <2>3. Factor * y <= Factor * (2 * Width)
    BY <1>1, <1>2, <1>4, <2>2, TimesMono
  <2> QED
    BY <1>1, <1>2, <2>3
<1>8. PICK m \in Nat : /\ m = Double(y * Factor)
                       /\ Digits * m <= (Digits + 1) * (y * Factor)
                       /\ (Digits - 1) * (y * Factor) <= Digits * m
  BY <1>7, DoubleRight
<1>9. Bytes(kb) = m \div Scale
  BY <1>4, <1>6, <1>8 DEF Bytes
<1>10. 100 * m <= (Percent + 1) * x * Scale
  <2>1. Percent + 1 \in Int
    BY <1>1
  <2> QED
    BY <1>2, <1>6, <1>8, <2>1, RoundedUpTwice
<1>11. (Percent - 1) * x * Scale <= 100 * m
  <2>1. Percent - 1 \in Int
    BY <1>1
  <2> QED
    BY <1>2, <1>6, <1>8, <2>1, RoundedDownTwice
<1> QED
  BY <1>3, <1>4, <1>9, <1>10, <1>11

\* From the multiple of the scale back to the share.
LEMMA Unscaled ==
  ASSUME NEW m \in Nat, NEW s \in Nat \ {0}, NEW low \in Nat, NEW high \in Nat, NEW x \in Nat,
         NEW most \in Int, NEW least \in Int,
         low <= m \div s, high > m \div s, 100 * m <= most * x * s, least * x * s <= 100 * m
  PROVE  100 * low <= most * x /\ 100 * high > least * x
<1>1. PICK b \in Nat : b = m \div s /\ s * b <= m /\ m < s * (b + 1)
  <2>1. m = s * (m \div s) + (m % s) /\ m % s \in 0..(s - 1) /\ m \div s \in Nat
    OBVIOUS
  <2>2. s * ((m \div s) + 1) = s * (m \div s) + s /\ s * (m \div s) \in Nat
    BY <2>1
  <2> QED
    BY <2>1, <2>2
<1>2. 100 * low <= most * x
  <2>1. s * low <= s * b
    BY <1>1, TimesMono
  <2>2. s * low \in Nat /\ s * b \in Nat
    BY <1>1
  <2>3. 100 * (s * low) <= most * x * s
    <3>1. most * x * s \in Int
      OBVIOUS
    <3> QED
      BY <1>1, <2>1, <2>2, <3>1
  <2>4. s * (100 * low) <= s * (most * x) /\ 100 * low \in Int /\ most * x \in Int
    BY <2>3
  <2> QED
    BY <2>4, TimesCancel
<1>3. 100 * high > least * x
  <2> SUFFICES ASSUME 100 * high <= least * x PROVE FALSE
    <3>1. 100 * high \in Int /\ least * x \in Int
      OBVIOUS
    <3> QED
      BY <3>1
  <2>1. s * (100 * high) <= s * (least * x)
    <3>1. 100 * high \in Int /\ least * x \in Int
      OBVIOUS
    <3> QED
      BY <3>1, TimesMono
  <2>2. s * (b + 1) <= s * high
    BY <1>1, TimesMono
  <2>3. s * (b + 1) \in Nat /\ s * high \in Nat /\ s * (100 * high) = 100 * (s * high)
    BY <1>1
  <2>4. s * (least * x) <= 100 * m /\ s * (least * x) \in Int
    <3>1. s * (least * x) = least * x * s
      OBVIOUS
    <3> QED
      BY <3>1
  <2> QED
    BY <1>1, <2>1, <2>2, <2>3, <2>4
<1> QED
  BY <1>2, <1>3

LEMMA InitMatrix == HplInit => MatrixFits
<1> SUFFICES ASSUME HplInit, ram >= Reserve PROVE MatrixFits
  BY DEF MatrixFits
<1>1. ram = 0 /\ size = 0 /\ Reserve = 0
  BY MemoryAssumption DEF HplInit
<1>2. (ram - Reserve) * Unit = 0
  BY <1>1, MemoryAssumption
<1>3. (Percent + 1) * 0 = 0 /\ (Percent - 1) * 0 = 0
  BY MemoryAssumption
<1>4. 100 * (8 * size * size) = 0 /\ 100 * (8 * (size + Step) * (size + Step)) > 0
  <2>1. Step * Step > 0 /\ Step * Step \in Nat
    BY MemoryAssumption
  <2>2. 8 * (size + Step) * (size + Step) = 8 * (Step * Step)
    BY <1>1, MemoryAssumption
  <2> QED
    BY <1>1, <2>1, <2>2
<1> QED
  BY <1>2, <1>3, <1>4 DEF MatrixFits

LEMMA StartMatrix == Start => MatrixFits'
<1> SUFFICES ASSUME Start, ram' >= Reserve PROVE MatrixFits'
  BY DEF MatrixFits
<1>1. PICK x \in Nat, m \in Nat :
        /\ x = (ram' - Reserve) * Unit /\ Bytes(ram') = m \div Scale
        /\ 100 * m <= (Percent + 1) * x * Scale /\ (Percent - 1) * x * Scale <= 100 * m
  <2>1. ram' \in Memory
    BY DEF Start
  <2> QED
    BY <2>1, ShareRight
<1>2. PICK bytes \in Nat : bytes = m \div Scale
  <2>1. m \div Scale \in Nat
    BY DoubleAssumption
  <2> QED
    BY <2>1
<1>3. PICK root \in 0..Numbers(ram') :
        FloorSqrt(root, Numbers(ram')) /\ size' = (root \div Step) * Step
  BY DEF Start
<1>4. Numbers(ram') = bytes \div 8
  BY <1>1, <1>2 DEF Numbers
<1>5. root \in Nat /\ root * root <= bytes \div 8 /\ (root + 1) * (root + 1) > bytes \div 8
  BY <1>3, <1>4 DEF FloorSqrt
<1>6. 8 * size' * size' <= bytes /\ 8 * (size' + Step) * (size' + Step) > bytes
  BY <1>3, <1>5, RoundedDown, MemoryAssumption
<1>7. 8 * size' * size' \in Nat /\ 8 * (size' + Step) * (size' + Step) \in Nat
  <2>1. root \div Step \in Nat
    BY <1>5, MemoryAssumption
  <2>2. size' \in Nat /\ size' + Step \in Nat
    BY <1>3, <2>1, MemoryAssumption
  <2>3. \A n \in Nat : 8 * n * n \in Nat
    OBVIOUS
  <2> QED
    BY <2>2, <2>3
<1>8. PICK most \in Int, least \in Int :
        /\ most = Percent + 1 /\ least = Percent - 1
        /\ 100 * m <= most * x * Scale /\ least * x * Scale <= 100 * m
  <2>1. Percent + 1 \in Int /\ Percent - 1 \in Int
    BY MemoryAssumption
  <2> QED
    BY <1>1, <2>1
<1>9. PICK low \in Nat, high \in Nat :
        low = 8 * size' * size' /\ high = 8 * (size' + Step) * (size' + Step)
  BY <1>7
<1>10. 100 * low <= most * x /\ 100 * high > least * x
  <2>1. low <= m \div Scale /\ high > m \div Scale
    BY <1>2, <1>6, <1>9
  <2>2. Scale \in Nat \ {0}
    BY DoubleAssumption
  <2>3. 100 * m <= most * x * Scale /\ least * x * Scale <= 100 * m
    BY <1>8
  <2> QED
    BY <2>1, <2>2, <2>3, Unscaled
<1> QED
  BY <1>1, <1>8, <1>9, <1>10 DEF MatrixFits

\* On every machine that has more memory than the reserve, and whose memory in
\* bytes is a number of the width, the matrix takes the share of the memory that is
\* aimed at within one percent, although the share is computed with a double that
\* is rounded twice (hpl_calc_n).
THEOREM MatrixFitsAlways == HplSpec => []MatrixFits
<1>1. MatrixFits /\ [HplNext]_hplvars => MatrixFits'
  <2>1. MatrixFits /\ (Down \/ PrintGrid \/ UNCHANGED hplvars) => MatrixFits'
    BY DEF MatrixFits, Down, PrintGrid, hplvars
  <2> QED
    BY <2>1, StartMatrix DEF HplNext
<1> QED
  BY InitMatrix, <1>1, PTL DEF HplSpec
=============================================================================
