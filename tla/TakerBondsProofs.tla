-------------------------- MODULE TakerBondsProofs --------------------------
(***************************************************************************)
(* Proofs about TakerBonds for any number of bonds, takers and faults: at  *)
(* most one taker bond is Locked, a bond row is closed only after its sats *)
(* were returned, a canceled order is never revived and, in the races of   *)
(* MCBonds, a take enters the trade with a Locked bond.                    *)
(***************************************************************************)
EXTENDS MCBonds, TLAPS

(* Zenon closes most leaves at once; SMT takes those with arithmetic.       *)
USE ZenonT(3), SMTT(60), ZenonT(60)

(* LND knows no invoice of a bond row that does not exist yet, and only     *)
(* existing rows are ever listed for release.                               *)
Fresh == \A b \in Bonds : bond[b] = "none" => inv[b] = "none"
ListedExist == \A w \in Workers : \A b \in todo[w] : bond[b] # "none"

(* A handler only runs for an existing row.                                 *)
Handled == \A b \in Bonds : notes[b] # {} \/ pc[b] # "idle" => bond[b] # "none"

(* The take in progress works on a new row, then on an existing one.        *)
Requesting ==
  /\ pc[Main] = "request" => subject \in Bonds /\ bond[subject] = "none"
  /\ pc[Main] = "subscribe" => subject \in Bonds /\ bond[subject] # "none"

(* Whoever is about to write Released has LND's cancel behind it.           *)
FreedReturned == \A w \in Workers : freed[w] # None => inv[freed[w]] = "canceled"
CanceledStep == \A b \in Bonds : pc[b] = "canceled" => inv[b] = "canceled"
CanceledNotes == \A b \in Bonds : "canceled" \in notes[b] => inv[b] = "canceled"

(* A taker's cancel only runs on an order the maker has not canceled: both  *)
(* are handled by the main loop.                                            *)
ResetOpen ==
  pc[Main] \in {"find", "release_sender", "remaining", "reset"} =>
    status # "canceled"

Safe ==
  /\ Fresh /\ ListedExist /\ Handled /\ Requesting
  /\ FreedReturned /\ CanceledStep /\ CanceledNotes
  /\ ResetOpen
  /\ OneLockedTaker /\ ReleasedIsReturned
IInv == TypeOK /\ Safe

-----------------------------------------------------------------------------
(* The take that enters the trade, in instances where no taker cancels.     *)
(* Who works on a list is releasing it, and frees a bond of the list.       *)
Listing ==
  \A w \in Workers : /\ todo[w] # {} => Releasing(w)
                     /\ freed[w] # None => freed[w] \in todo[w]

(* No taker cancels.                                                        *)
NoneLeaves == pc[Main] \notin {"find", "release_sender", "remaining", "reset", "pubkeys"}

(* Who lists every bond of the order has ended the window.                  *)
ListsAllAtEnd == \A w \in Workers : pc[w] = "enumerate" => ~PreTrade

(* A bond that was never sent to its taker is not paid.                     *)
Unpaid(b) == inv[b] \in {"unsent", "canceled"} /\ "accepted" \notin notes[b] /\ bond[b] # "locked"
NewIsUnpaid == pc[Main] = "subscribe" => Unpaid(subject)

(* Before the window ends only bonds never sent are released, or those that *)
(* lost to a Locked one.                                                    *)
NobodyLocked == \A b \in Bonds : bond[b] # "locked"
WindowLists ==
  PreTrade =>
    /\ todo[Expirer] = {}
    /\ \A b \in todo[Main] : Unpaid(b)
    /\ NobodyLocked => \A b \in Bonds : todo[b] = {}

(* A Locked bond is held at LND and listed by nobody; until there is one, a *)
(* payment LND has reported is still held.                                  *)
LockedIsHeld ==
  PreTrade => \A b \in Bonds : bond[b] = "locked" =>
    inv[b] = "accepted" /\ \A w \in Workers : b \notin todo[w]
AcceptedIsHeld ==
  PreTrade /\ NobodyLocked =>
    \A b \in Bonds : bond[b] = "requested" /\ "accepted" \in notes[b] => inv[b] = "accepted"

(* What a handler on its way to the trade relies on.                        *)
HandlersKnow ==
  PreTrade => \A b \in Bonds :
    /\ pc[b] \in {"won", "losers", "release_losers", "read_order", "promote", "resume"} =>
         bond[b] = "locked"
    /\ pc[b] # "losers_gone"
    /\ pc[b] = "lost" /\ bond[b] = "requested" => ~NobodyLocked
    /\ pc[b] = "resume" => taker = Owner[b]

WindowInv ==
  /\ Listing /\ NoneLeaves /\ ListsAllAtEnd /\ NewIsUnpaid
  /\ WindowLists /\ LockedIsHeld /\ AcceptedIsHeld /\ HandlersKnow

(* Initially nobody works on the order.                                     *)
LEMMA WindowInit == Init => WindowInv
  BY BondAssumption DEF Init, WindowInv, Workers, Listing, NoneLeaves, ListsAllAtEnd, NewIsUnpaid,
     WindowLists, LockedIsHeld, AcceptedIsHeld, HandlersKnow

(* Every step keeps it, one case per action.                                *)
LEMMA WindowStep ==
  ASSUME ~TakersCancel, IInv, WindowInv, [Next]_vars
  PROVE  WindowInv'
<1> USE BondAssumption
    DEF IInv, Safe, TypeOK, Workers, WindowInv, order, release, PreTrade, PRETRADE_STATUSES,
        Listing, NoneLeaves, ListsAllAtEnd, NewIsUnpaid, Unpaid, NobodyLocked, WindowLists,
        LockedIsHeld, AcceptedIsHeld, HandlersKnow, Releasing, Handled, Requesting,
        CanceledStep, OneLockedTaker
<1>1. ASSUME NEW b \in Bonds, Take(b) PROVE WindowInv'
  BY <1>1 DEF Take, Goto
<1>2. ASSUME NEW b \in Bonds, Resend(b) PROVE WindowInv'
  BY <1>2 DEF Resend
<1>3. CASE CreateBond
  BY <1>3 DEF CreateBond, Goto
<1>4. CASE Subscribe
  BY <1>4 DEF Subscribe, Goto
<1>5. CASE SubscribeFails
  BY <1>5 DEF SubscribeFails, Goto, ReleaseAll, AfterRelease, Fault
<1>6. CASE Park
  BY <1>6 DEF Park, Goto
<1>7. CASE MakerCancels
  BY <1>7 DEF MakerCancels, Goto
<1>8. CASE cancel_pending_order_from_maker
  BY <1>8 DEF cancel_pending_order_from_maker, Goto, cas_pretrade_order_status
<1>9. ASSUME NEW t \in Takers, TakerCancels(t) PROVE WindowInv'
  BY <1>9 DEF TakerCancels, Goto
<1>10. CASE cancel_order_by_taker
  BY <1>10 DEF cancel_order_by_taker, Goto
<1>11. CASE OthersRemain
  BY <1>11 DEF OthersRemain, Goto
<1>12. CASE update_order_to_initial_state
  BY <1>12 DEF update_order_to_initial_state, Goto
<1>13. CASE edit_pubkeys_order
  BY <1>13 DEF edit_pubkeys_order, Goto
<1>14. CASE Expires
  BY <1>14 DEF Expires
<1>15. CASE find_order_by_date
  BY <1>15 DEF find_order_by_date, Goto
<1>16. CASE job_expire_pending_older_orders
  BY <1>16 DEF job_expire_pending_older_orders, Goto
<1>17. ASSUME NEW b \in Bonds, on_bond_invoice_accepted(b) PROVE WindowInv'
  BY <1>17 DEF on_bond_invoice_accepted, Goto, CanLock
<1>18. ASSUME NEW b \in Bonds, Reread(b) PROVE WindowInv'
  BY <1>18 DEF Reread, Goto, ReleaseAll, AfterRelease, find_active_bonds_for_order, IsActive, Active
<1>19. ASSUME NEW b \in Bonds, ReleaseLosers(b) PROVE WindowInv'
  BY <1>19 DEF ReleaseLosers, Goto, ReleaseAll, AfterRelease
<1>20. ASSUME NEW b \in Bonds, ReadOrder(b) PROVE WindowInv'
  BY <1>20 DEF ReadOrder, Goto, ReleaseAll, AfterRelease
<1>21. ASSUME NEW b \in Bonds, promote_taker_context_to_order(b) PROVE WindowInv'
  BY <1>21 DEF promote_taker_context_to_order, Goto
<1>22. ASSUME NEW b \in Bonds, resume_take_after_bond(b) PROVE WindowInv'
  BY <1>22 DEF resume_take_after_bond, Goto, cas_pretrade_order_status
<1>23. ASSUME NEW b \in Bonds, on_bond_invoice_canceled(b) PROVE WindowInv'
  BY <1>23 DEF on_bond_invoice_canceled, Goto
<1>24. ASSUME NEW b \in Bonds, MarkCanceled(b) PROVE WindowInv'
  BY <1>24 DEF MarkCanceled, Goto
<1>25. ASSUME NEW b \in Bonds, maybe_drop_waiting_taker_bond(b) PROVE WindowInv'
  BY <1>25 DEF maybe_drop_waiting_taker_bond, Goto
<1>26. ASSUME NEW w \in Workers, release_taker_bonds_for_order(w) PROVE WindowInv'
  BY <1>26 DEF release_taker_bonds_for_order, Goto, ReleaseAll, AfterRelease
<1>27. ASSUME NEW w \in Workers, NEW b \in Bonds, cancel_hold_invoice(w, b) PROVE WindowInv'
  BY <1>27 DEF cancel_hold_invoice, LndUpdate
<1>28. ASSUME NEW w \in Workers, MarkReleased(w) PROVE WindowInv'
  BY <1>28 DEF MarkReleased, Goto, ReleaseNext, AfterRelease
<1>29. ASSUME NEW b \in Bonds, LndAccepts(b) PROVE WindowInv'
  BY <1>29 DEF LndAccepts, LndUpdate
<1>30. ASSUME NEW b \in Bonds, LndExpires(b) PROVE WindowInv'
  BY <1>30 DEF LndExpires, LndUpdate
<1>31. ASSUME NEW w \in Workers, WorkerErrs(w) PROVE WindowInv'
  BY <1>31 DEF WorkerErrs, Goto, Fault
<1>32. ASSUME NEW w \in Workers, ReleaseWriteFails(w) PROVE WindowInv'
  BY <1>32 DEF ReleaseWriteFails, Goto, Fault, ReleaseNext, AfterRelease
<1>33. ASSUME NEW w \in Workers, NEW b \in Bonds, ReleaseTransient(w, b) PROVE WindowInv'
  BY <1>33 DEF ReleaseTransient, Goto, Fault, ReleaseNext, AfterRelease
<1>34. ASSUME NEW b \in Bonds, StreamLost(b) PROVE WindowInv'
  BY <1>34 DEF StreamLost, Fault
<1>35. CASE Restart
  BY <1>35 DEF Restart, Fault, find_active_bonds_for_order
<1>36. CASE UNCHANGED vars
  BY <1>36 DEF vars
<1> QED
  BY ZenonT(60), <1>1, <1>2, <1>3, <1>4, <1>5, <1>6, <1>7, <1>8, <1>9, <1>10, <1>11,
     <1>12, <1>13, <1>14, <1>15, <1>16, <1>17, <1>18, <1>19, <1>20, <1>21,
     <1>22, <1>23, <1>24, <1>25, <1>26, <1>27, <1>28, <1>29, <1>30, <1>31,
     <1>32, <1>33, <1>34, <1>35, <1>36 DEF Next, MainNext,
     HandlerNext, ExpireNext, ReleaseStep, LndNext, FaultNext

(* Only resume_take_after_bond enters the trade.                            *)
LEMMA ResumeStep ==
  ASSUME ~TakersCancel, IInv, WindowInv, [Next]_vars
  PROVE  ResumesLocked
<1> SUFFICES ASSUME status # "trade", status' = "trade"
             PROVE  \E b \in Bonds : Owner[b] = taker' /\ bond[b] = "locked"
  BY DEF ResumesLocked
<1> USE DEF order
<1>1. ~MainNext
  BY Zenon DEF MainNext, Take, Resend, CreateBond, Subscribe, SubscribeFails, Park, MakerCancels,
     cancel_pending_order_from_maker, cas_pretrade_order_status, TakerCancels,
     cancel_order_by_taker, OthersRemain, update_order_to_initial_state, edit_pubkeys_order
<1>2. ~ExpireNext /\ ~LndNext /\ ~UNCHANGED vars
  BY DEF ExpireNext, Expires, find_order_by_date, job_expire_pending_older_orders, LndNext,
     LndAccepts, LndExpires, vars
<1>3. ~FaultNext /\ \A w \in Workers : ~ReleaseStep(w)
  BY DEF FaultNext, WorkerErrs, ReleaseWriteFails, ReleaseTransient, StreamLost, Restart,
     ReleaseStep, release_taker_bonds_for_order, cancel_hold_invoice, MarkReleased
<1>4. PICK b \in Bonds : HandlerNext(b)
  BY <1>1, <1>2, <1>3 DEF Next
<1>5. resume_take_after_bond(b)
  BY Zenon, <1>4 DEF HandlerNext, on_bond_invoice_accepted, Reread, ReleaseLosers, ReadOrder,
     promote_taker_context_to_order, on_bond_invoice_canceled, MarkCanceled,
     maybe_drop_waiting_taker_bond
<1>6. pc[b] = "resume" /\ PreTrade /\ taker' \in {taker, Owner[b]}
  BY <1>5 DEF resume_take_after_bond, cas_pretrade_order_status
<1> QED
  BY <1>6 DEF WindowInv, HandlersKnow

-----------------------------------------------------------------------------
(* The invariant of every instance.                                         *)

(* Initially there are no bonds.                                            *)
LEMMA InitIInv == Init => IInv
<1> SUFFICES ASSUME Init PROVE IInv
  OBVIOUS
<1>1. TypeOK
  BY Zenon, BondAssumption DEF Init, TypeOK, Workers, Statuses, PRETRADE_STATUSES, Steps, Active
<1>2. Safe
  BY BondAssumption DEF Init, Safe, Workers, Fresh, ListedExist, Handled, Requesting,
     FreedReturned, CanceledStep, CanceledNotes, ResetOpen, OneLockedTaker,
     ReleasedIsReturned
<1> QED BY <1>1, <1>2 DEF IInv

(* Every step keeps the types.                                              *)
LEMMA TypeStep == IInv /\ [Next]_vars => TypeOK'
<1> SUFFICES ASSUME TypeOK, Requesting, [Next]_vars PROVE TypeOK'
  BY DEF IInv, Safe
<1> USE BondAssumption DEF TypeOK, Workers, Statuses, PRETRADE_STATUSES, Steps,
      MainSteps, HandlerSteps, Active
<1>1. ASSUME NEW b \in Bonds, Take(b) PROVE TypeOK'
  BY <1>1 DEF Take, Goto, order, release
<1>2. ASSUME NEW b \in Bonds, Resend(b) PROVE TypeOK'
  BY <1>2 DEF Resend, order, release
<1>3. CASE CreateBond
  BY <1>3 DEF CreateBond, Requesting, Goto, order, release
<1>4. CASE Subscribe
  <2>1. subject \in Bonds
    BY <1>4 DEF Subscribe, Requesting
  <2>2. inv' \in [Bonds -> {"none", "unsent", "open", "accepted", "canceled"}]
    BY <1>4, <2>1 DEF Subscribe
  <2>3. notes' \in [Bonds -> SUBSET {"accepted", "canceled"}]
    BY <1>4, <2>1 DEF Subscribe
  <2> QED
    BY <1>4, <2>1, <2>2, <2>3 DEF Subscribe, Goto, order, release
<1>5. CASE SubscribeFails
  BY <1>5 DEF SubscribeFails, Requesting, Goto, Fault, ReleaseAll, AfterRelease,
     order
<1>6. CASE Park
  BY <1>6 DEF Park, Goto, release
<1>7. CASE MakerCancels
  BY <1>7 DEF MakerCancels, Goto, order, release
<1>8. CASE cancel_pending_order_from_maker
  BY <1>8 DEF cancel_pending_order_from_maker, Goto,
     cas_pretrade_order_status, release
<1>9. ASSUME NEW t \in Takers, TakerCancels(t) PROVE TypeOK'
  BY <1>9 DEF TakerCancels, Goto, find_active_bonds_for_order, order, release
<1>10. CASE cancel_order_by_taker
  BY <1>10 DEF cancel_order_by_taker, Goto, ReleaseAll, AfterRelease,
     find_active_bonds_for_order, order
<1>11. CASE OthersRemain
  BY <1>11 DEF OthersRemain, Goto, find_active_bonds_for_order, order, release
<1>12. CASE update_order_to_initial_state
  BY <1>12 DEF update_order_to_initial_state, Goto, release
<1>13. CASE edit_pubkeys_order
  BY <1>13 DEF edit_pubkeys_order, Goto, release
<1>14. CASE Expires
  BY <1>14 DEF Expires, order, release
<1>15. CASE find_order_by_date
  BY <1>15 DEF find_order_by_date, Goto, order, release
<1>16. CASE job_expire_pending_older_orders
  BY <1>16 DEF job_expire_pending_older_orders, Goto, release
<1>17. ASSUME NEW b \in Bonds, on_bond_invoice_accepted(b) PROVE TypeOK'
  BY <1>17 DEF on_bond_invoice_accepted, Goto, order, release
<1>18. ASSUME NEW b \in Bonds, Reread(b) PROVE TypeOK'
  BY <1>18 DEF Reread, Goto, ReleaseAll, AfterRelease,
     find_active_bonds_for_order, order, release
<1>19. ASSUME NEW b \in Bonds, ReleaseLosers(b) PROVE TypeOK'
  BY <1>19 DEF ReleaseLosers, Goto, ReleaseAll, AfterRelease, order
<1>20. ASSUME NEW b \in Bonds, ReadOrder(b) PROVE TypeOK'
  BY <1>20 DEF ReadOrder, Goto, ReleaseAll, AfterRelease, order, release
<1>21. ASSUME NEW b \in Bonds, promote_taker_context_to_order(b) PROVE TypeOK'
  BY <1>21 DEF promote_taker_context_to_order, Goto, release
<1>22. ASSUME NEW b \in Bonds, resume_take_after_bond(b) PROVE TypeOK'
  BY <1>22 DEF resume_take_after_bond, Goto, cas_pretrade_order_status, order,
     release
<1>23. ASSUME NEW b \in Bonds, on_bond_invoice_canceled(b) PROVE TypeOK'
  BY <1>23 DEF on_bond_invoice_canceled, Goto, order, release
<1>24. ASSUME NEW b \in Bonds, MarkCanceled(b) PROVE TypeOK'
  BY <1>24 DEF MarkCanceled, Goto, order, release
<1>25. ASSUME NEW b \in Bonds, maybe_drop_waiting_taker_bond(b) PROVE TypeOK'
  BY <1>25 DEF maybe_drop_waiting_taker_bond, Goto,
     find_active_bonds_for_order, release
<1>26. ASSUME NEW w \in Workers, release_taker_bonds_for_order(w) PROVE TypeOK'
  BY <1>26 DEF release_taker_bonds_for_order, Goto, ReleaseAll, AfterRelease,
     find_active_bonds_for_order, order
<1>27. ASSUME NEW w \in Workers, NEW b \in Bonds, cancel_hold_invoice(w, b) PROVE TypeOK'
  BY <1>27 DEF cancel_hold_invoice, LndUpdate, order
<1>28. ASSUME NEW w \in Workers, MarkReleased(w) PROVE TypeOK'
  BY <1>28 DEF MarkReleased, Goto, ReleaseNext, AfterRelease, order
<1>29. ASSUME NEW b \in Bonds, LndAccepts(b) PROVE TypeOK'
  BY <1>29 DEF LndAccepts, LndUpdate, order, release
<1>30. ASSUME NEW b \in Bonds, LndExpires(b) PROVE TypeOK'
  BY <1>30 DEF LndExpires, LndUpdate, order, release
<1>31. ASSUME NEW w \in Workers, WorkerErrs(w) PROVE TypeOK'
  BY <1>31 DEF WorkerErrs, Goto, Fault, order, release
<1>32. ASSUME NEW w \in Workers, ReleaseWriteFails(w) PROVE TypeOK'
  BY <1>32 DEF ReleaseWriteFails, Goto, Fault, ReleaseNext, AfterRelease,
     order
<1>33. ASSUME NEW w \in Workers, NEW b \in Bonds, ReleaseTransient(w, b) PROVE TypeOK'
  BY <1>33 DEF ReleaseTransient, Goto, Fault, ReleaseNext, AfterRelease, order
<1>34. ASSUME NEW b \in Bonds, StreamLost(b) PROVE TypeOK'
  BY <1>34 DEF StreamLost, Fault, order, release
<1>35. CASE Restart
  BY <1>35 DEF Restart, Fault, find_active_bonds_for_order, order
<1>36. CASE UNCHANGED vars
  BY <1>36 DEF vars, order, release
<1> QED
  BY ZenonT(60), <1>1, <1>2, <1>3, <1>4, <1>5, <1>6, <1>7, <1>8, <1>9, <1>10, <1>11,
     <1>12, <1>13, <1>14, <1>15, <1>16, <1>17, <1>18, <1>19, <1>20, <1>21,
     <1>22, <1>23, <1>24, <1>25, <1>26, <1>27, <1>28, <1>29, <1>30, <1>31,
     <1>32, <1>33, <1>34, <1>35, <1>36 DEF Next, MainNext,
     HandlerNext, ExpireNext, ReleaseStep, LndNext, FaultNext

(* Starting to release a list of existing bonds keeps the invariant.        *)
LEMMA ReleaseAllSafe ==
  ASSUME IInv, NEW w \in Workers, NEW bonds \in SUBSET Bonds,
         NEW step \in {"release", "release_losers", "release_sender"},
         \A b \in bonds : bond[b] # "none",
         step = "release_sender" => w = Main /\ pc[Main] = "find",
         step = "release_losers" => w \in Bonds,
         pc[w] # "idle", ReleaseAll(w, step, bonds),
         UNCHANGED <<status, bond, inv, notes, subject>>
  PROVE  Safe'
<1> USE BondAssumption DEF IInv, Safe, TypeOK, Workers
<1> DEFINE to == IF bonds = {} THEN AfterRelease(step) ELSE step
<1>1. to \in {"idle", "release", "release_losers", "read_order",
              "release_sender", "remaining"}
  BY DEF AfterRelease
<1>2. to \in {"release_sender", "remaining"} => w = Main /\ pc[Main] = "find"
  BY DEF AfterRelease
<1>3. /\ pc' = [pc EXCEPT ![w] = to]
      /\ todo' = [todo EXCEPT ![w] = bonds]
      /\ UNCHANGED freed
  BY DEF ReleaseAll, Goto
<1> HIDE DEF to
<1>4. ListedExist'
  BY <1>3 DEF ListedExist
<1>5. Requesting' /\ CanceledStep'
  BY <1>1, <1>3 DEF Requesting, CanceledStep
<1>6. ResetOpen'
  BY <1>1, <1>2, <1>3 DEF ResetOpen
<1>7. Handled'
  BY <1>3 DEF Handled
<1>8. Fresh' /\ FreedReturned' /\ CanceledNotes' /\ OneLockedTaker' /\ ReleasedIsReturned'
  BY <1>3 DEF Fresh, FreedReturned, CanceledNotes, OneLockedTaker, ReleasedIsReturned
<1> QED BY <1>4, <1>5, <1>6, <1>7, <1>8

(* Every step keeps the invariant, one case per action.                     *)
LEMMA SafeStep == IInv /\ [Next]_vars => Safe'
<1> SUFFICES ASSUME IInv, [Next]_vars PROVE Safe'
  OBVIOUS
<1> USE BondAssumption DEF IInv, Safe, TypeOK, Workers
<1>1. ASSUME NEW b \in Bonds, Take(b) PROVE Safe'
  BY <1>1 DEF Take, Goto, order, release, PreTrade, IsActive, Fresh,
     ListedExist, Handled, Requesting, FreedReturned, CanceledStep, CanceledNotes,
     ResetOpen, OneLockedTaker, ReleasedIsReturned
<1>2. ASSUME NEW b \in Bonds, Resend(b) PROVE Safe'
  BY <1>2 DEF Resend, order, release, PreTrade, IsActive, Fresh, ListedExist, Handled,
     Requesting, FreedReturned, CanceledStep, CanceledNotes, ResetOpen,
     OneLockedTaker, ReleasedIsReturned
<1>3. CASE CreateBond
  BY <1>3 DEF CreateBond, Goto, order, release, Fresh, ListedExist, Handled,
     Requesting, FreedReturned, CanceledStep, CanceledNotes, ResetOpen,
     OneLockedTaker, ReleasedIsReturned
<1>4. CASE Subscribe
  BY <1>4 DEF Subscribe, Goto, order, release, Fresh, ListedExist, Handled, Requesting,
     FreedReturned, CanceledStep, CanceledNotes, ResetOpen, OneLockedTaker,
     ReleasedIsReturned
<1>5. CASE SubscribeFails
  BY <1>5 DEF SubscribeFails, Goto, Fault, ReleaseAll, AfterRelease, order,
     Fresh, ListedExist, Handled, Requesting, FreedReturned, CanceledStep,
     CanceledNotes, ResetOpen, OneLockedTaker, ReleasedIsReturned
<1>6. CASE Park
  BY <1>6 DEF Park, Goto, release, Fresh, ListedExist, Handled, Requesting,
     FreedReturned, CanceledStep, CanceledNotes, ResetOpen, OneLockedTaker,
     ReleasedIsReturned
<1>7. CASE MakerCancels
  BY <1>7 DEF MakerCancels, Goto, order, release, PreTrade, Fresh,
     ListedExist, Handled, Requesting, FreedReturned, CanceledStep, CanceledNotes,
     ResetOpen, OneLockedTaker, ReleasedIsReturned
<1>8. CASE cancel_pending_order_from_maker
  BY <1>8 DEF cancel_pending_order_from_maker, Goto,
     cas_pretrade_order_status, release, PreTrade, Fresh, ListedExist, Handled,
     Requesting, FreedReturned, CanceledStep, CanceledNotes, ResetOpen,
     OneLockedTaker, ReleasedIsReturned
<1>9. ASSUME NEW t \in Takers, TakerCancels(t) PROVE Safe'
  BY <1>9 DEF TakerCancels, PRETRADE_STATUSES, Goto, find_active_bonds_for_order, order, release,
     PreTrade, IsActive, Fresh, ListedExist, Handled, Requesting, FreedReturned,
     CanceledStep, CanceledNotes, ResetOpen, OneLockedTaker,
     ReleasedIsReturned
<1>10. CASE cancel_order_by_taker
  <2> DEFINE own == {b \in find_active_bonds_for_order : Owner[b] = subject}
  <2>1. own \in SUBSET Bonds /\ \A b \in own : bond[b] # "none"
    BY DEF find_active_bonds_for_order, IsActive, Active
  <2>2. ReleaseAll(Main, "release_sender", own)
    BY <1>10 DEF cancel_order_by_taker
  <2>3. pc[Main] = "find" /\ UNCHANGED <<status, bond, inv, notes, subject>>
    BY <1>10 DEF cancel_order_by_taker, order
  <2> HIDE DEF own
  <2> QED
    BY <2>1, <2>2, <2>3, ReleaseAllSafe
<1>11. CASE OthersRemain
  BY <1>11 DEF OthersRemain, Goto, find_active_bonds_for_order, order,
     release, IsActive, Fresh, ListedExist, Handled, Requesting, FreedReturned,
     CanceledStep, CanceledNotes, ResetOpen, OneLockedTaker,
     ReleasedIsReturned
<1>12. CASE update_order_to_initial_state
  BY <1>12 DEF update_order_to_initial_state, Goto, release, Fresh,
     ListedExist, Handled, Requesting, FreedReturned, CanceledStep, CanceledNotes,
     ResetOpen, OneLockedTaker, ReleasedIsReturned
<1>13. CASE edit_pubkeys_order
  BY <1>13 DEF edit_pubkeys_order, Goto, release, Fresh, ListedExist, Handled,
     Requesting, FreedReturned, CanceledStep, CanceledNotes, ResetOpen,
     OneLockedTaker, ReleasedIsReturned
<1>14. CASE Expires
  BY <1>14 DEF Expires, order, release, Fresh, ListedExist, Handled, Requesting,
     FreedReturned, CanceledStep, CanceledNotes, ResetOpen, OneLockedTaker,
     ReleasedIsReturned
<1>15. CASE find_order_by_date
  BY <1>15 DEF find_order_by_date, Goto, order, release, PreTrade, Fresh,
     ListedExist, Handled, Requesting, FreedReturned, CanceledStep, CanceledNotes,
     ResetOpen, OneLockedTaker, ReleasedIsReturned
<1>16. CASE job_expire_pending_older_orders
  BY <1>16 DEF job_expire_pending_older_orders, Goto, release, Fresh,
     ListedExist, Handled, Requesting, FreedReturned, CanceledStep, CanceledNotes,
     ResetOpen, OneLockedTaker, ReleasedIsReturned
<1>17. ASSUME NEW b \in Bonds, on_bond_invoice_accepted(b) PROVE Safe'
  BY <1>17 DEF on_bond_invoice_accepted, Goto, order, release, CanLock, Fresh,
     ListedExist, Handled, Requesting, FreedReturned, CanceledStep, CanceledNotes,
     ResetOpen, OneLockedTaker, ReleasedIsReturned
<1>18. ASSUME NEW b \in Bonds, Reread(b) PROVE Safe'
  <2>0. pc[b] # "idle"
    BY <1>18 DEF Reread
  <2> DEFINE own == {b} \cap find_active_bonds_for_order
  <2>1. CASE pc' = [pc EXCEPT ![b] = pc'[b]] /\ pc'[b] \in {"losers", "losers_gone", "read_order"}
             /\ UNCHANGED <<order, bond, inv, notes, release, subject>>
    BY <2>0, <2>1 DEF order, release, Fresh, ListedExist, Handled, Requesting,
       FreedReturned, CanceledStep, CanceledNotes, ResetOpen, OneLockedTaker,
       ReleasedIsReturned
  <2>2. CASE ReleaseAll(b, "release", own) /\ UNCHANGED <<order, bond, inv, notes, subject>>
    <3>1. own \in SUBSET Bonds /\ \A c \in own : bond[c] # "none"
      BY DEF find_active_bonds_for_order, IsActive, Active
    <3> HIDE DEF own
    <3> QED
      BY <2>0, <3>1, <2>2, ReleaseAllSafe DEF order
  <2> QED
    BY <1>18, <2>1, <2>2 DEF Reread, Goto
<1>19. ASSUME NEW b \in Bonds, ReleaseLosers(b) PROVE Safe'
  BY <1>19 DEF ReleaseLosers, Goto, ReleaseAll, AfterRelease, order, Fresh,
     ListedExist, Handled, Requesting, FreedReturned, CanceledStep, CanceledNotes,
     ResetOpen, OneLockedTaker, ReleasedIsReturned
<1>20. ASSUME NEW b \in Bonds, ReadOrder(b) PROVE Safe'
  <2>1. CASE UNCHANGED release
    BY <1>20, <2>1 DEF ReadOrder, Goto, ReleaseAll, AfterRelease, order, release,
       Fresh, ListedExist, Handled, Requesting, FreedReturned, CanceledStep,
       CanceledNotes, ResetOpen, OneLockedTaker, ReleasedIsReturned
  <2>2. CASE ReleaseAll(b, "release", {b})
    <3>1. bond[b] # "none"
      BY <1>20 DEF ReadOrder, Handled
    <3> QED
      BY <1>20, <2>2, <3>1, ReleaseAllSafe DEF ReadOrder, order
  <2> QED
    BY <1>20, <2>1, <2>2 DEF ReadOrder
<1>21. ASSUME NEW b \in Bonds, promote_taker_context_to_order(b) PROVE Safe'
  BY <1>21 DEF promote_taker_context_to_order, Goto, release, PreTrade, Fresh,
     ListedExist, Handled, Requesting, FreedReturned, CanceledStep, CanceledNotes,
     ResetOpen, OneLockedTaker, ReleasedIsReturned
<1>22. ASSUME NEW b \in Bonds, resume_take_after_bond(b) PROVE Safe'
  BY <1>22 DEF resume_take_after_bond, Goto, cas_pretrade_order_status, order,
     release, PreTrade, Fresh, ListedExist, Handled, Requesting, FreedReturned,
     CanceledStep, CanceledNotes, ResetOpen, OneLockedTaker,
     ReleasedIsReturned
<1>23. ASSUME NEW b \in Bonds, on_bond_invoice_canceled(b) PROVE Safe'
  BY <1>23 DEF on_bond_invoice_canceled, Goto, order, release, IsActive,
     Fresh, ListedExist, Handled, Requesting, FreedReturned, CanceledStep,
     CanceledNotes, ResetOpen, OneLockedTaker, ReleasedIsReturned
<1>24. ASSUME NEW b \in Bonds, MarkCanceled(b) PROVE Safe'
  BY <1>24 DEF MarkCanceled, Goto, order, release, Fresh, ListedExist, Handled,
     Requesting, FreedReturned, CanceledStep, CanceledNotes, ResetOpen,
     OneLockedTaker, ReleasedIsReturned
<1>25. ASSUME NEW b \in Bonds, maybe_drop_waiting_taker_bond(b) PROVE Safe'
  BY <1>25 DEF maybe_drop_waiting_taker_bond, Goto,
     find_active_bonds_for_order, release, IsActive, Fresh, ListedExist, Handled,
     Requesting, FreedReturned, CanceledStep, CanceledNotes, ResetOpen,
     OneLockedTaker, ReleasedIsReturned
<1>26. ASSUME NEW w \in Workers, release_taker_bonds_for_order(w) PROVE Safe'
  <2>1. /\ find_active_bonds_for_order \in SUBSET Bonds
        /\ \A b \in find_active_bonds_for_order : bond[b] # "none"
    BY DEF find_active_bonds_for_order, IsActive, Active
  <2> QED
    BY <1>26, <2>1, ReleaseAllSafe DEF release_taker_bonds_for_order, order
<1>27. ASSUME NEW w \in Workers, NEW b \in Bonds, cancel_hold_invoice(w, b) PROVE Safe'
  BY <1>27 DEF cancel_hold_invoice, LndUpdate, order, Releasing, Fresh,
     ListedExist, Handled, Requesting, FreedReturned, CanceledStep, CanceledNotes,
     ResetOpen, OneLockedTaker, ReleasedIsReturned
<1>28. ASSUME NEW w \in Workers, MarkReleased(w) PROVE Safe'
  BY <1>28 DEF MarkReleased, Goto, ReleaseNext, AfterRelease, order,
     Releasing, Fresh, ListedExist, Handled, Requesting, FreedReturned, CanceledStep,
     CanceledNotes, ResetOpen, OneLockedTaker, ReleasedIsReturned
<1>29. ASSUME NEW b \in Bonds, LndAccepts(b) PROVE Safe'
  BY <1>29 DEF LndAccepts, LndUpdate, order, release, Fresh, ListedExist, Handled,
     Requesting, FreedReturned, CanceledStep, CanceledNotes, ResetOpen,
     OneLockedTaker, ReleasedIsReturned
<1>30. ASSUME NEW b \in Bonds, LndExpires(b) PROVE Safe'
  BY <1>30 DEF LndExpires, LndUpdate, order, release, Fresh, ListedExist, Handled,
     Requesting, FreedReturned, CanceledStep, CanceledNotes, ResetOpen,
     OneLockedTaker, ReleasedIsReturned
<1>31. ASSUME NEW w \in Workers, WorkerErrs(w) PROVE Safe'
  BY <1>31 DEF WorkerErrs, Goto, Fault, order, release, Releasing, Fresh,
     ListedExist, Handled, Requesting, FreedReturned, CanceledStep, CanceledNotes,
     ResetOpen, OneLockedTaker, ReleasedIsReturned
<1>32. ASSUME NEW w \in Workers, ReleaseWriteFails(w) PROVE Safe'
  BY <1>32 DEF ReleaseWriteFails, Goto, Fault, ReleaseNext, AfterRelease,
     order, Releasing, Fresh, ListedExist, Handled, Requesting, FreedReturned,
     CanceledStep, CanceledNotes, ResetOpen, OneLockedTaker,
     ReleasedIsReturned
<1>33. ASSUME NEW w \in Workers, NEW b \in Bonds, ReleaseTransient(w, b) PROVE Safe'
  BY <1>33 DEF ReleaseTransient, Goto, Fault, ReleaseNext, AfterRelease,
     order, Releasing, Fresh, ListedExist, Handled, Requesting, FreedReturned,
     CanceledStep, CanceledNotes, ResetOpen, OneLockedTaker,
     ReleasedIsReturned
<1>34. ASSUME NEW b \in Bonds, StreamLost(b) PROVE Safe'
  BY <1>34 DEF StreamLost, Fault, order, release, Fresh, ListedExist, Handled,
     Requesting, FreedReturned, CanceledStep, CanceledNotes, ResetOpen,
     OneLockedTaker, ReleasedIsReturned
<1>35. CASE Restart
  BY <1>35 DEF Restart, Fault, find_active_bonds_for_order, order, IsActive,
     Fresh, ListedExist, Handled, Requesting, FreedReturned, CanceledStep,
     CanceledNotes, ResetOpen, OneLockedTaker, ReleasedIsReturned
<1>36. CASE UNCHANGED vars
  BY <1>36 DEF vars, order, release, Fresh, ListedExist, Handled, Requesting,
     FreedReturned, CanceledStep, CanceledNotes, ResetOpen, OneLockedTaker,
     ReleasedIsReturned
<1> QED
  BY Zenon, <1>1, <1>2, <1>3, <1>4, <1>5, <1>6, <1>7, <1>8, <1>9, <1>10, <1>11,
     <1>12, <1>13, <1>14, <1>15, <1>16, <1>17, <1>18, <1>19, <1>20, <1>21,
     <1>22, <1>23, <1>24, <1>25, <1>26, <1>27, <1>28, <1>29, <1>30, <1>31,
     <1>32, <1>33, <1>34, <1>35, <1>36 DEF Next, MainNext,
     HandlerNext, ExpireNext, ReleaseStep, LndNext, FaultNext

(* The inductive invariant holds in every reachable state.                  *)
THEOREM Invariance == Spec => []IInv
<1>1. IInv /\ [Next]_vars => IInv'
  BY TypeStep, SafeStep DEF IInv
<1> QED BY <1>1, InitIInv, PTL DEF Spec

(* The variables of TakerBonds keep their types.                            *)
THEOREM TypeCorrect == Spec => []TypeOK
<1>1. IInv => TypeOK
  BY DEF IInv
<1> QED BY <1>1, Invariance, PTL

(* First to lock wins: two taker bonds of an order are never both Locked,   *)
(* for any number of concurrent takers, redeliveries and restarts.          *)
THEOREM OneWinner == Spec => []OneLockedTaker
<1>1. IInv => OneLockedTaker
  BY DEF IInv, Safe
<1> QED BY <1>1, Invariance, PTL

(* release_bond and on_bond_invoice_canceled write Released only over bonds *)
(* whose HTLC LND has given back.                                           *)
THEOREM ReleasedReturned == Spec => []ReleasedIsReturned
<1>1. IInv => ReleasedIsReturned
  BY DEF IInv, Safe
<1> QED BY <1>1, Invariance, PTL

(* No step of a take, a taker's cancel or a handler revives a canceled      *)
(* order.                                                                   *)
THEOREM CanceledStays == Spec => CanceledIsFinal
<1>1. ASSUME IInv, [Next]_vars, status = "canceled"
      PROVE  status' \in {"canceled", "expired"}
  <2> USE DEF PreTrade, PRETRADE_STATUSES, order
  <2>1. CASE MainNext
    BY Zenon, <1>1, <2>1 DEF MainNext, IInv, Safe, ResetOpen, Take, Resend, CreateBond,
       Subscribe, SubscribeFails, Park, MakerCancels, cas_pretrade_order_status,
       cancel_pending_order_from_maker, TakerCancels, cancel_order_by_taker,
       OthersRemain, update_order_to_initial_state, edit_pubkeys_order
  <2>2. CASE \E b \in Bonds : HandlerNext(b)
    BY Zenon, <1>1, <2>2 DEF HandlerNext, on_bond_invoice_accepted, Reread, ReadOrder,
       ReleaseLosers, promote_taker_context_to_order, resume_take_after_bond,
       cas_pretrade_order_status, on_bond_invoice_canceled, MarkCanceled,
       maybe_drop_waiting_taker_bond
  <2>3. CASE ExpireNext
    BY <1>1, <2>3 DEF ExpireNext, Expires, find_order_by_date,
       job_expire_pending_older_orders
  <2>4. CASE LndNext \/ FaultNext \/ \E w \in Workers : ReleaseStep(w)
    BY <1>1, <2>4 DEF LndNext, LndAccepts, LndExpires, FaultNext, WorkerErrs,
       ReleaseWriteFails, ReleaseTransient, StreamLost, Restart, ReleaseStep,
       release_taker_bonds_for_order, cancel_hold_invoice, MarkReleased
  <2> QED
    BY <1>1, <2>1, <2>2, <2>3, <2>4 DEF Next, vars
<1> QED BY <1>1, Invariance, PTL DEF Spec, CanceledIsFinal

(* resume_take_after_bond (flow.rs:769): for any number of bonds, takers    *)
(* and faults, an order enters the trade with the taker whose bond is       *)
(* Locked, although between the lock and the compare-and-swap that enters   *)
(* it the handler reads and writes the order in four statements and other   *)
(* handlers, the maker, the expiry job and restarts work on the same rows.  *)
THEOREM RaceResumes ==
  ASSUME ~TakersCancel
  PROVE  EitherSpec => RaceResumesLocked
<1> DEFINE RaceInv == scenario = "race" => IInv /\ WindowInv
<1>1. EitherInit => RaceInv
  BY InitIInv, WindowInit DEF EitherInit
<1>2. RaceInv /\ [EitherNext]_allVars => RaceInv'
  <2> SUFFICES ASSUME RaceInv, [EitherNext]_allVars, scenario' = "race" PROVE IInv' /\ WindowInv'
    OBVIOUS
  <2>1. scenario = "race" /\ [Next]_vars
    BY DEF EitherNext, allVars
  <2>2. IInv'
    BY <2>1, TypeStep, SafeStep DEF IInv
  <2>3. WindowInv'
    BY <2>1, WindowStep
  <2> QED
    BY <2>2, <2>3
<1>3. RaceInv /\ [EitherNext]_allVars => [scenario = "race" => ResumesLocked]_allVars
  <2> SUFFICES ASSUME RaceInv, EitherNext, scenario = "race" PROVE ResumesLocked
    OBVIOUS
  <2> QED
    BY ResumeStep DEF EitherNext
<1> QED
  BY <1>1, <1>2, <1>3, PTL DEF EitherSpec, RaceResumesLocked
=============================================================================
