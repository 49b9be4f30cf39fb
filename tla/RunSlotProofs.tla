--------------------------- MODULE RunSlotProofs ---------------------------
(***************************************************************************)
(* The promises of a run slot, for any set of runs.                        *)
(***************************************************************************)
EXTENDS RunSlot, TLAPS

SlotInv == SlotTypeOK /\ OneOccupant /\ OfferedIsShown

(* Only a free slot is claimed, only its occupant shows a record in it, and *)
(* a record is forgotten only when its run does not occupy the slot.        *)
LEMMA SlotInvStep == SlotInv /\ [Next]_slot => SlotInv'
  <1> SUFFICES ASSUME SlotInv, [Next]_slot PROVE SlotInv'
    OBVIOUS
  <1> USE DEF SlotInv, SlotTypeOK, OneOccupant, OfferedIsShown,
              Phases, Occupying
  <1>1. ASSUME NEW r \in Runs, Claim(r) PROVE SlotInv'
    BY <1>1 DEF Claim, Free, Moves
  <1>2. ASSUME NEW r \in Runs, Show(r) PROVE SlotInv'
    BY <1>2 DEF Show
  <1>3. ASSUME NEW r \in Runs, Offer(r) PROVE SlotInv'
    BY <1>3 DEF Offer, Moves
  <1>4. ASSUME NEW r \in Runs, BeginStop(r) PROVE SlotInv'
    BY <1>4 DEF BeginStop, Moves
  <1>5. ASSUME NEW r \in Runs, FailStop(r) PROVE SlotInv'
    BY <1>5 DEF FailStop, Moves
  <1>6. ASSUME NEW r \in Runs, Leave(r) PROVE SlotInv'
    BY <1>6 DEF Leave, Moves
  <1>7. ASSUME NEW r \in Runs, Vanish(r) PROVE SlotInv'
    BY <1>7 DEF Vanish
  <1>8. ASSUME Forget PROVE SlotInv'
    BY <1>8 DEF Forget
  <1>9. CASE UNCHANGED slot
    BY <1>9 DEF slot
  <1>10. QED
    BY <1>1, <1>2, <1>3, <1>4, <1>5, <1>6, <1>7, <1>8, <1>9 DEF Next

LEMMA SlotInvInit == Init => SlotInv
  BY DEF Init, SlotInv, SlotTypeOK, OneOccupant, OfferedIsShown, Phases, Occupying

LEMMA SlotInvariant == SlotSpec => []SlotInv
  <1>1. QED
    BY SlotInvInit, SlotInvStep, PTL DEF SlotSpec

(* At most one run occupies the slot (_RunLease).                           *)
THEOREM Exclusive == SlotSpec => []OneOccupant
  <1>1. SlotInv => OneOccupant
    BY DEF SlotInv
  <1>2. QED
    BY <1>1, SlotInvariant, PTL

(* The slot shows the record of a run for as long as it is offered.         *)
THEOREM Published == SlotSpec => []OfferedIsShown
  <1>1. SlotInv => OfferedIsShown
    BY DEF SlotInv
  <1>2. QED
    BY <1>1, SlotInvariant, PTL
=============================================================================
