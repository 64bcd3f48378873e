------------------------------ MODULE NicTable ------------------------------
(***************************************************************************)
(* The table of network interfaces and the name under which a machine      *)
(* reports.  The update thread fills nic_data in every round               *)
(* (get_nic_info); the upload thread looks there for an ethernet card,     *)
(* takes its address as the id and sends the statistics under it           *)
(* (do_update).  There is no lock, and a card may come, go, or get its     *)
(* address at any time.                                                    *)
(*                                                                         *)
(* A hardware address is written and copied in two halves, so that a copy  *)
(* can meet a write.                                                       *)
(***************************************************************************)
EXTENDS Naturals, Sequences

CONSTANTS
  Cards,  \* the interfaces the machine may have, in the kernel's order: one with
          \* several addresses stands here once for each of them
  Wired   \* those with a name that begins with eth or ath

Names == {Cards[n] : n \in 1..Len(Cards)}

Places == 1..Len(Cards)

ASSUME CardsAssumption ==
  /\ Cards \in Seq(Names)
  /\ Wired \subseteq Names \ {"lo", "none"} /\ "none" \notin Names

VARIABLES
  \* the kernel
  card,               \* of an interface: "absent", "bare" (no address) or "up" (with
                      \* all its addresses)
  changed,            \* history: cards have changed since they were first listed
  hardware_finished,
  \* get_nic_info
  pc,                 \* "idle", or what is done next for the first interface of req
  req,                \* what is left of the kernel's list, IfcBuf: places in Cards
  nics,
  nic_qty,
  nic_data,           \* name and the halves of macaddr_num, by index
  \* do_update
  up_pc, i, found, id

kernel == <<card, changed, hardware_finished>>
update == <<pc, req, nics, nic_qty, nic_data>>
upload == <<up_pc, i, found, id>>
vars == <<kernel, update, upload>>

Slots == 0..(Len(Cards) - 1)
Empty == [name |-> "none", hi |-> "none", lo |-> "none"]

Init ==
  /\ card \in [Names -> {"absent", "bare", "up"}]
  /\ changed = FALSE
  /\ hardware_finished = FALSE
  /\ pc = "idle"
  /\ req = {}
  /\ nics = 0
  /\ nic_qty = 0
  /\ nic_data = [n \in Slots |-> Empty]
  /\ up_pc = "scan"
  /\ i = 0
  /\ found = FALSE
  /\ id = [hi |-> "none", lo |-> "none"]

\* Main has run hardware.sh.
FinishHardware ==
  /\ ~hardware_finished
  /\ hardware_finished' = TRUE
  /\ UNCHANGED <<card, changed, update, upload>>

Change(c) ==
  /\ \E state \in {"absent", "bare", "up"} \ {card[c]} : card' = [card EXCEPT ![c] = state]
  /\ changed' = (changed \/ pc # "idle" \/ nic_qty > 0)
  /\ UNCHANGED <<hardware_finished, update, upload>>

-----------------------------------------------------------------------------
(***************************************************************************)
(* get_nic_info                                                            *)
(***************************************************************************)

\* SIOCGIFCONF: an entry for each address of each interface, in order.
List ==
  /\ pc = "idle" /\ hardware_finished
  /\ req' = {n \in Places : card[Cards[n]] = "up"}
  /\ nics' = 0
  /\ pc' = "name"
  /\ UNCHANGED <<kernel, nic_qty, nic_data, upload>>

First == CHOOSE n \in req : \A m \in req : n <= m

\* The interface get_nic_info has come to.
Current == Cards[First]

Rest == req \ {First}

Put(field) == nic_data' = [nic_data EXCEPT ![nics] = [@ EXCEPT ![field] = Current]]

\* SIOCGIFHWADDR has failed, or it is the loopback interface.
Ignored(c) == card[c] = "absent" \/ c = "lo"

Skip ==
  /\ pc = "name" /\ req # {} /\ Ignored(Current)
  /\ req' = Rest
  /\ UNCHANGED <<kernel, pc, nics, nic_qty, nic_data, upload>>

PutName ==
  /\ pc = "name" /\ req # {} /\ ~Ignored(Current)
  /\ Put("name")
  /\ pc' = "hi"
  /\ UNCHANGED <<kernel, req, nics, nic_qty, upload>>

PutAddress ==
  /\ pc \in {"hi", "lo"}
  /\ Put(pc)
  /\ pc' = IF pc = "hi" THEN "lo" ELSE "next"
  /\ UNCHANGED <<kernel, req, nics, nic_qty, upload>>

\* Mutant: the result of the ioctl is taken the wrong way round.
NoAddress(c) == card[c] # "up"

\* SIOCGIFADDR
HasAddress(c) == card[c] = "up"

\* An interface without an address leaves its place in the table to the next.
NextCard ==
  /\ pc = "next"
  /\ nics' = IF HasAddress(Current) THEN nics + 1 ELSE nics
  /\ req' = Rest
  /\ pc' = "name"
  /\ UNCHANGED <<kernel, nic_qty, nic_data, upload>>

\* Mutant: the place that is free is counted.
QtyOneMore == nic_qty' = nics + 1

SetQty == nic_qty' = nics

EndList ==
  /\ pc = "name" /\ req = {}
  /\ SetQty
  /\ pc' = "idle"
  /\ UNCHANGED <<kernel, req, nics, nic_data, upload>>

GetNicInfo == List \/ Skip \/ PutName \/ PutAddress \/ NextCard \/ EndList

-----------------------------------------------------------------------------
(***************************************************************************)
(* do_update                                                               *)
(***************************************************************************)

\* Mutant: any card will do.
AnyCard(name) == name # "none"

Ethernet(name) == name \in Wired

Scan ==
  /\ up_pc = "scan" /\ i < nic_qty
  /\ IF Ethernet(nic_data[i].name) THEN up_pc' = "hi" /\ UNCHANGED i
                                   ELSE i' = i + 1 /\ UNCHANGED up_pc
  /\ UNCHANGED <<kernel, update, found, id>>

Copy ==
  /\ up_pc \in {"hi", "lo"}
  /\ id' = [id EXCEPT ![up_pc] = nic_data[i][up_pc]]
  /\ up_pc' = IF up_pc = "hi" THEN "lo" ELSE "send"
  /\ found' = (found \/ up_pc = "lo")
  /\ UNCHANGED <<kernel, update, i>>

\* The table has no ethernet card: the old id is sent again if there is one,
\* otherwise "we try again".
NoneFound ==
  /\ up_pc = "scan" /\ i >= nic_qty
  /\ up_pc' = IF found THEN "send" ELSE "scan"
  /\ i' = 0
  /\ UNCHANGED <<kernel, update, found, id>>

\* upload_data, and the pause
Send ==
  /\ up_pc = "send"
  /\ up_pc' = "scan"
  /\ i' = 0
  /\ UNCHANGED <<kernel, update, found, id>>

DoUpdate == Scan \/ Copy \/ NoneFound \/ Send

Next == FinishHardware \/ (\E c \in Names : Change(c)) \/ GetNicInfo \/ DoUpdate

\* Both threads are scheduled and hardware.sh ends.
Fairness == WF_vars(FinishHardware) /\ WF_vars(GetNicInfo) /\ WF_vars(DoUpdate)

Spec == Init /\ [][Next]_vars

FairSpec == Spec /\ Fairness

-----------------------------------------------------------------------------
OwnAddress(n) == nic_data[n].hi = nic_data[n].name /\ nic_data[n].lo = nic_data[n].name

\* Outside get_nic_info the table pairs every name with its own address, also
\* where a card without an address has left its place to the next, one with
\* several has more than one row, or cards came and went while it was filled:
\* that is what the update thread draws and writes to breakin.dat.
TableWhole ==
  pc = "idle" =>
    \A n \in 0..(nic_qty - 1) : nic_data[n].name # "none" /\ OwnAddress(n)

\* As long as the cards stay as they were first listed, the id under which a
\* machine reports is the whole address of one of its ethernet cards, although
\* the table is rewritten under the reader in every round.
SentId ==
  ~changed /\ up_pc = "send" =>
    id.hi = id.lo /\ id.hi \in Wired /\ card[id.hi] = "up"

\* A machine with an ethernet card that is up reports, unless the cards change.
Reports ==
  (\E c \in Wired : card[c] = "up") ~>
    (up_pc = "send" \/ changed \/ \A c \in Wired : card[c] # "up")
=============================================================================
