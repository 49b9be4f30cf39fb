------------------------------ MODULE RunSlot ------------------------------
(***************************************************************************)
(* What the process helper promises of one run slot (one project and one   *)
(* port), whatever its clients do: at most one run occupies the slot, the  *)
(* record the slot shows cannot be taken from the run that occupies it, a  *)
(* run is offered as ready only once the slot shows it, and a run that has *)
(* gone never comes back.  TestProcess implements this specification.      *)
(***************************************************************************)
CONSTANTS
    Runs, \* runs that may ever be launched in the slot
    None  \* the slot shows no record

VARIABLES
    phase, \* where each run is
    shown  \* the run whose record the slot shows

slot == << phase, shown >>

Phases == { "new", "owned", "ready", "stopping", "leaving", "gone" }

Occupying == { "owned", "ready", "stopping", "leaving" }

(* The state each variable ranges over.                                     *)
SlotTypeOK == phase \in [Runs -> Phases] /\ shown \in Runs \cup {None}

\* Runs that ended earlier, and the record one of them may have left.
Init ==
    /\ phase \in [Runs -> {"new", "gone"}]
    /\ shown \in { r \in Runs : phase[r] = "gone" } \cup {None}

Moves(r, from, to) ==
    /\ phase[r] = from
    /\ phase' = [phase EXCEPT ![r] = to]

\* No run occupies the slot.
Free == \A q \in Runs : phase[q] \notin Occupying

\* A guardian obtains the lease of the slot.
Claim(r) == Free /\ Moves(r, "new", "owned") /\ UNCHANGED shown

\* The occupant replaces the record by its own.
Show(r) == phase[r] = "owned" /\ shown' = r /\ UNCHANGED phase

\* The occupant accepts stop requests from now on.
Offer(r) == shown = r /\ Moves(r, "owned", "ready") /\ UNCHANGED shown

\* A stop request is being served; it may fail half-way.
BeginStop(r) == Moves(r, "ready", "stopping") /\ UNCHANGED shown
FailStop(r)  == Moves(r, "stopping", "ready") /\ UNCHANGED shown

\* The occupant leaves after a stop, a failed start or an error.
Leave(r) ==
    /\ Moves(r, "owned", "leaving") \/ Moves(r, "stopping", "leaving")
    /\ UNCHANGED shown

\* The run is over; a killed guardian gets here from anywhere.
Vanish(r) ==
    /\ phase[r] # "gone"
    /\ phase' = [phase EXCEPT ![r] = "gone"]
    /\ UNCHANGED shown

\* Start and cleanup clients remove a record whose run does not occupy the slot.
Forget ==
    /\ shown # None
    /\ phase[shown] \notin Occupying
    /\ shown' = None
    /\ UNCHANGED phase

Next ==
    \/ \E r \in Runs :
         \/ Claim(r) \/ Show(r) \/ Offer(r) \/ BeginStop(r) \/ FailStop(r)
         \/ Leave(r) \/ Vanish(r)
    \/ Forget

SlotSpec == Init /\ [][Next]_slot

\* A guardian that is leaving is eventually gone.
SlotFairSpec == SlotSpec /\ \A r \in Runs : WF_slot(phase[r] = "leaving" /\ Vanish(r))

-----------------------------------------------------------------------------
(* At most one run occupies the slot (_RunLease: "One live guardian per     *)
(* project/port, across concurrent launch clients.").                       *)
OneOccupant ==
    \A r, q \in Runs :
        (phase[r] \in Occupying /\ phase[q] \in Occupying) => r = q

(* The record a run is offered under stays in place until the run is over:  *)
(* as long as it accepts requests, or is serving one, the slot shows it.    *)
OfferedIsShown ==
    \A r \in Runs : phase[r] \in {"ready", "stopping"} => shown = r
=============================================================================
