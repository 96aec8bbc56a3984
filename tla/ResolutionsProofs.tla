------------------------- MODULE ResolutionsProofs -------------------------
(***************************************************************************)
(* Proofs about MCResolutions: what its scenarios check for one invoice    *)
(* and one fault of LND holds for any number of them.  Each scenario is a  *)
(* specification whose inductive invariant TradeProofs or BondSlashProofs  *)
(* has; here they are put together, scenario by scenario.                  *)
(***************************************************************************)
EXTENDS MCResolutions, TradeProofs

(* Zenon closes most leaves at once; SMT takes those with arithmetic.       *)
USE ZenonT(3), SMTT(60), ZenonT(60)

S == INSTANCE BondSlashProofs
  WITH From <- "active", Actors <- {"main", "rpc", "sweep"}, Armed <- {},
       FaultKinds <- {"lnd", "db", "relay"}, MaxFaults <- 1,
       htlc <- bond_htlc, faults <- bond_faults
O == INSTANCE BondSlashProofs
  WITH From <- "waiting", Actors <- {"main", "timeout", "sweep", "subscriber"},
       Armed <- {"maker", "taker"}, FaultKinds <- {"crash", "lnd", "db", "relay", "cltv"},
       MaxFaults <- 1, htlc <- bond_htlc, faults <- bond_faults

(* The trade, in every scenario but the guardian's. *)
TradeInv ==
    scenario # "deadline" =>
        /\ TypeOK /\ PayInv /\ CancelInv /\ FlagsInv /\ LiveInv
        /\ scenario = "messages" => HeldInv

(* Nothing of the trade happens in the scenarios of the bonds. *)
LEMMA TradeInvInit == ScenarioInit => TradeInv
<1> SUFFICES ASSUME ScenarioInit PROVE TradeInv
  OBVIOUS
<1>1. Init
  BY DEF ScenarioInit
<1> QED
  BY <1>1, TypeInit, PayInit, CancelInit, FlagsInit, LiveInit, HeldInit DEF TradeInv

(* Every step keeps TradeInv. *)
LEMMA TradeInvNext ==
    ASSUME LiveOnly, TradeInv, [ScenarioNext]_allVars
    PROVE  TradeInv'
<1> SUFFICES ASSUME scenario' # "deadline"
             PROVE  /\ TypeOK' /\ PayInv' /\ CancelInv' /\ FlagsInv' /\ LiveInv'
                    /\ scenario' = "messages" => HeldInv'
  BY DEF TradeInv
<1>1. scenario' = scenario
  BY DEF ScenarioNext, allVars
<1>2. /\ TypeOK /\ PayInv /\ CancelInv /\ FlagsInv /\ LiveInv
      /\ scenario = "messages" => HeldInv
  BY <1>1 DEF TradeInv
<1>3. [Next]_vars
  BY <1>1 DEF ScenarioNext, allVars
<1>4. /\ {"cancel", "timeout", "deadline"} \cap Events = {}
      /\ {"cancel", "timeout"} \cap Events = {}
  BY DEF LiveOnly
<1>5. TypeOK' /\ PayInv' /\ CancelInv' /\ FlagsInv' /\ LiveInv'
  BY <1>2, <1>3, <1>4, TypeNext, PayNext, CancelNext, FlagsNext, LiveNext
<1>6. ASSUME scenario = "messages" PROVE HeldInv'
  <2>1. pc'[Rpc] = pc[Rpc]
    BY <1>6 DEF ScenarioNext, allVars, vars
  <2>2. pc'[Rpc] = "idle" /\ HeldInv
    BY <1>2, <1>6, <2>1 DEF HeldInv
  <2> QED
    BY <1>2, <1>3, <2>2, HeldNext
<1> QED
  BY <1>1, <1>5, <1>6

(***************************************************************************)
(* SettledIsPaid of Trade in the scenarios of MCResolutions, whatever the  *)
(* number of invoices and of faults of LND: escrow that release_action     *)
(* (release.rs:250-394) or admin_settle_action (admin_settle.rs:91-240)    *)
(* settled is paid out or in the hands of a handler about to pay it.       *)
(***************************************************************************)
THEOREM ResolutionsPayHolds ==
    ASSUME {"cancel", "timeout", "deadline", "restart"} \cap Events = {}
    PROVE  ScenarioSpec => []ResolutionsPay
<1>1. TradeInv /\ [ScenarioNext]_allVars => TradeInv'
  BY TradeInvNext DEF LiveOnly
<1>2. TradeInv => ResolutionsPay
  BY DEF TradeInv, LiveInv, ResolutionsPay
<1> QED
  BY <1>1, <1>2, TradeInvInit, PTL DEF ScenarioSpec

(***************************************************************************)
(* CanceledNotSettled of Trade in the same scenarios: a trade recorded as  *)
(* canceled (cancel.rs:605-662, admin_cancel.rs) has not had its escrow    *)
(* settled.                                                                *)
(***************************************************************************)
THEOREM ResolutionsAgreeHolds ==
    ASSUME {"cancel", "timeout", "deadline", "restart"} \cap Events = {}
    PROVE  ScenarioSpec => []ResolutionsAgree
<1>1. TradeInv /\ [ScenarioNext]_allVars => TradeInv'
  BY TradeInvNext DEF LiveOnly
<1>2. TradeInv => ResolutionsAgree
  BY DEF TradeInv, CancelInv, SafeRow, CanceledNotSettled, ResolutionsAgree
<1> QED
  BY <1>1, <1>2, TradeInvInit, PTL DEF ScenarioSpec

(***************************************************************************)
(* EscrowBacked of Trade without a step of the admin RPC: an order that    *)
(* shows a live trade is backed by the seller's money, or the handler of a *)
(* message that refunded it (cancel.rs, admin_cancel.rs) is about to write *)
(* the cancel.                                                             *)
(***************************************************************************)
THEOREM MessagesKeepBackingHolds ==
    ASSUME {"cancel", "timeout", "deadline", "restart"} \cap Events = {}
    PROVE  ScenarioSpec => []MessagesKeepBacking
<1>1. TradeInv /\ [ScenarioNext]_allVars => TradeInv'
  BY TradeInvNext DEF LiveOnly
<1>2. TradeInv => MessagesKeepBacking
  BY HeldIsBacked DEF TradeInv, MessagesKeepBacking
<1> QED
  BY <1>1, <1>2, TradeInvInit, PTL DEF ScenarioSpec

----------------------------------------------------------------------------
(* Two names for each of the two instances of BondSlash. *)
LEMMA SameBonds ==
    /\ Solvers!Init => S!Init
    /\ Overdue!Init => O!Init
<1>1. Solvers!Init => S!Init
  BY DEF Solvers!Init, S!Init, Solvers!Bonds, S!Bonds, Solvers!Workers, S!Workers,
         Solvers!Admins, S!Admins, Solvers!Resting, S!Resting
<1>2. Overdue!Init => O!Init
  BY DEF Overdue!Init, O!Init, Overdue!Bonds, O!Bonds, Overdue!Workers, O!Workers,
         Overdue!Admins, O!Admins, Overdue!Resting, O!Resting
<1> QED
  BY <1>1, <1>2

(* A step of Overdue is one of O. *)
LEMMA OverdueStep == Overdue!Next => O!Next
<1>1. Overdue!Bonds = O!Bonds
  BY DEF Overdue!Bonds, O!Bonds
<1>2. Overdue!Admins = O!Admins
  BY DEF Overdue!Admins, O!Admins
<1>3. Overdue!Workers = O!Workers
  BY <1>2
  DEF Overdue!Workers, O!Workers
<1>4. Overdue!Locked = O!Locked
  BY <1>1
  DEF Overdue!Locked, O!Locked
<1>5. \A w, step : Overdue!At(w, step) <=> O!At(w, step)
  BY DEF Overdue!At, O!At
<1>6. \A f : Overdue!Fault(f) <=> O!Fault(f)
  BY DEF Overdue!Fault, O!Fault, Overdue!Cardinality, O!Cardinality
<1>7. \A w : Overdue!Republishes(w) <=> O!Republishes(w)
  BY DEF Overdue!Republishes, O!Republishes
<1>8. \A w : Overdue!Targets(w) = O!Targets(w)
  BY <1>1, <1>4
  DEF Overdue!Targets, O!Targets
<1>9. \A w : Overdue!Reason(w) = O!Reason(w)
  BY DEF Overdue!Reason, O!Reason
<1>10. \A path : Overdue!AfterClose(path) = O!AfterClose(path)
  BY DEF Overdue!AfterClose, O!AfterClose
<1>11. \A path : Overdue!AfterList(path) = O!AfterList(path)
  BY DEF Overdue!AfterList, O!AfterList
<1>12. \A w : Overdue!Closing(w) <=> O!Closing(w)
  BY <1>5
  DEF Overdue!Closing, O!Closing
<1>13. \A w, b : Overdue!Releasable(w, b) <=> O!Releasable(w, b)
  BY <1>5, <1>12
  DEF Overdue!Releasable, O!Releasable
<1>14. Overdue!Resting = O!Resting
  BY DEF Overdue!Resting, O!Resting
<1>15. \A w, step : Overdue!Goto(w, step) <=> O!Goto(w, step)
  BY <1>14
  DEF Overdue!Goto, O!Goto
<1>16. \A w, step, b : Overdue!Turn(w, step, b) <=> O!Turn(w, step, b)
  BY DEF Overdue!Turn, O!Turn
<1>17. \A w, slash, free : Overdue!Work(w, slash, free) <=> O!Work(w, slash, free)
  BY <1>11, <1>15
  DEF Overdue!Work, O!Work
<1>18. \A w, b : Overdue!Skip(w, b) <=> O!Skip(w, b)
  BY <1>10, <1>12, <1>15, <1>17
  DEF Overdue!Skip, O!Skip
<1>19. \A w, path, step, blamed :
         Overdue!Start(w, path, step, blamed) <=> O!Start(w, path, step, blamed)
  BY <1>5, <1>14
  DEF Overdue!Start, O!Start
<1>20. Overdue!Entry <=> O!Entry
  BY DEF Overdue!rows, O!rows, Overdue!Entry, O!Entry
<1>21. Overdue!Trading => O!Trading
  BY <1>1, <1>2, <1>5
  DEF Overdue!rows, O!rows, Overdue!Advance, O!Advance,
      Overdue!hold_invoice_paid, O!hold_invoice_paid, Overdue!dispute_action, O!dispute_action,
      Overdue!payment_success, O!payment_success, Overdue!Trading, O!Trading
<1>22. Overdue!cancel_action => O!cancel_action
  BY <1>19, <1>20
  DEF Overdue!cancel_action, O!cancel_action
<1>23. Overdue!cancel_order_by_taker => O!cancel_order_by_taker
  BY <1>19, <1>20
  DEF Overdue!cancel_order_by_taker, O!cancel_order_by_taker
<1>24. Overdue!release_action => O!release_action
  BY <1>19
  DEF Overdue!rows, O!rows, Overdue!release_action, O!release_action
<1>25. Overdue!reconcile_stranded_range_maker_bonds => O!reconcile_stranded_range_maker_bonds
  BY <1>19, <1>20
  DEF Overdue!reconcile_stranded_range_maker_bonds, O!reconcile_stranded_range_maker_bonds
<1>26. \A w, path, blamed : Overdue!admin_action(w, path, blamed) => O!admin_action(w, path, blamed)
  BY <1>2, <1>4, <1>19, <1>20
  DEF Overdue!validate_bond_resolution, O!validate_bond_resolution,
      Overdue!admin_action, O!admin_action
<1>27. \A b : Overdue!on_bond_invoice_canceled(b) => O!on_bond_invoice_canceled(b)
  BY <1>5, <1>14, <1>20
  DEF Overdue!on_bond_invoice_canceled, O!on_bond_invoice_canceled
<1>28. Overdue!Hooks => O!Hooks
  BY <1>1, <1>2, <1>22, <1>23, <1>24, <1>25, <1>26, <1>27
  DEF Overdue!Hooks, O!Hooks
<1>29. Overdue!job_cancel_orders => O!job_cancel_orders
  BY <1>19, <1>20
  DEF Overdue!job_cancel_orders, O!job_cancel_orders
<1>30. Overdue!crash => O!crash
  BY <1>3, <1>6, <1>14
  DEF Overdue!rows, O!rows, Overdue!crash, O!crash
<1>31. \A w : Overdue!persist(w) => O!persist(w)
  BY <1>5, <1>7, <1>15
  DEF Overdue!rows, O!rows, Overdue!persist, O!persist
<1>32. \A w : Overdue!find_active_bonds_for_order(w) => O!find_active_bonds_for_order(w)
  BY <1>4, <1>5, <1>7, <1>8, <1>17
  DEF Overdue!rows, O!rows, Overdue!find_active_bonds_for_order, O!find_active_bonds_for_order
<1>33. \A w : Overdue!slash_one(w) => O!slash_one(w)
  BY <1>5, <1>9, <1>16
  DEF Overdue!rows, O!rows, Overdue!slash_one, O!slash_one
<1>34. \A w : Overdue!slash_reason_recorded(w) => O!slash_reason_recorded(w)
  BY <1>5, <1>9, <1>17
  DEF Overdue!rows, O!rows, Overdue!slash_reason_recorded, O!slash_reason_recorded
<1>35. \A w : Overdue!release_bond(w) => O!release_bond(w)
  BY <1>5, <1>10, <1>15, <1>17
  DEF Overdue!release_bond, O!release_bond
<1>36. \A w : Overdue!resolve_range_maker_bond_at_close(w) => O!resolve_range_maker_bond_at_close(w)
  BY <1>5, <1>10, <1>15
  DEF Overdue!rows, O!rows,
      Overdue!resolve_range_maker_bond_at_close, O!resolve_range_maker_bond_at_close
<1>37. \A w : Overdue!slash_one_db_error(w) => O!slash_one_db_error(w)
  BY <1>5, <1>6, <1>16
  DEF Overdue!rows, O!rows, Overdue!slash_one_db_error, O!slash_one_db_error
<1>38. \A w : Overdue!read_fails(w) => O!read_fails(w)
  BY <1>5, <1>6, <1>8, <1>15
  DEF Overdue!rows, O!rows, Overdue!read_fails, O!read_fails
<1>39. \A w : Overdue!handler_fails(w) => O!handler_fails(w)
  BY <1>5, <1>6, <1>15
  DEF Overdue!rows, O!rows, Overdue!handler_fails, O!handler_fails
<1>40. \A w, b : Overdue!settle_hold_invoice(w, b) => O!settle_hold_invoice(w, b)
  BY <1>5, <1>16
  DEF Overdue!rows, O!rows, Overdue!settle_hold_invoice, O!settle_hold_invoice
<1>41. \A w, b : Overdue!cancel_hold_invoice(w, b) => O!cancel_hold_invoice(w, b)
  BY <1>12, <1>13, <1>16, <1>18
  DEF Overdue!rows, O!rows, Overdue!cancel_hold_invoice, O!cancel_hold_invoice
<1>42. \A w, b : Overdue!settle_fails(w, b) => O!settle_fails(w, b)
  BY <1>5, <1>6, <1>16
  DEF Overdue!rows, O!rows, Overdue!settle_fails, O!settle_fails
<1>43. \A w, b : Overdue!cancel_fails(w, b) => O!cancel_fails(w, b)
  BY <1>6, <1>13, <1>18
  DEF Overdue!rows, O!rows, Overdue!cancel_fails, O!cancel_fails
<1>44. \A b : Overdue!process_one_bond(b) => O!process_one_bond(b)
  BY DEF Overdue!process_one_bond, O!process_one_bond
<1>45. \A b : Overdue!cltv_expiry(b) => O!cltv_expiry(b)
  BY <1>6
  DEF Overdue!rows, O!rows, Overdue!cltv_expiry, O!cltv_expiry
<1>46. \A w : Overdue!Resolving(w) => O!Resolving(w)
  BY <1>1, <1>31, <1>32, <1>33, <1>34, <1>35, <1>36, <1>40, <1>41
  DEF Overdue!Resolving, O!Resolving
<1>47. \A w : Overdue!Failing(w) => O!Failing(w)
  BY <1>1, <1>37, <1>38, <1>39, <1>42, <1>43
  DEF Overdue!Failing, O!Failing
<1> QED
  BY <1>1, <1>3, <1>21, <1>28, <1>29, <1>46, <1>47, <1>44, <1>45, <1>30
  DEF Overdue!Next, O!Next

(* A step of Solvers is one of S. *)
LEMMA SolversStep == Solvers!Next => S!Next
<1>1. Solvers!Bonds = S!Bonds
  BY DEF Solvers!Bonds, S!Bonds
<1>2. Solvers!Admins = S!Admins
  BY DEF Solvers!Admins, S!Admins
<1>3. Solvers!Workers = S!Workers
  BY <1>2
  DEF Solvers!Workers, S!Workers
<1>4. Solvers!Locked = S!Locked
  BY <1>1
  DEF Solvers!Locked, S!Locked
<1>5. \A w, step : Solvers!At(w, step) <=> S!At(w, step)
  BY DEF Solvers!At, S!At
<1>6. \A f : Solvers!Fault(f) <=> S!Fault(f)
  BY DEF Solvers!Fault, S!Fault, Solvers!Cardinality, S!Cardinality
<1>7. \A w : Solvers!Republishes(w) <=> S!Republishes(w)
  BY DEF Solvers!Republishes, S!Republishes
<1>8. \A w : Solvers!Targets(w) = S!Targets(w)
  BY <1>1, <1>4
  DEF Solvers!Targets, S!Targets
<1>9. \A w : Solvers!Reason(w) = S!Reason(w)
  BY DEF Solvers!Reason, S!Reason
<1>10. \A path : Solvers!AfterClose(path) = S!AfterClose(path)
  BY DEF Solvers!AfterClose, S!AfterClose
<1>11. \A path : Solvers!AfterList(path) = S!AfterList(path)
  BY DEF Solvers!AfterList, S!AfterList
<1>12. \A w : Solvers!Closing(w) <=> S!Closing(w)
  BY <1>5
  DEF Solvers!Closing, S!Closing
<1>13. \A w, b : Solvers!Releasable(w, b) <=> S!Releasable(w, b)
  BY <1>5, <1>12
  DEF Solvers!Releasable, S!Releasable
<1>14. Solvers!Resting = S!Resting
  BY DEF Solvers!Resting, S!Resting
<1>15. \A w, step : Solvers!Goto(w, step) <=> S!Goto(w, step)
  BY <1>14
  DEF Solvers!Goto, S!Goto
<1>16. \A w, step, b : Solvers!Turn(w, step, b) <=> S!Turn(w, step, b)
  BY DEF Solvers!Turn, S!Turn
<1>17. \A w, slash, free : Solvers!Work(w, slash, free) <=> S!Work(w, slash, free)
  BY <1>11, <1>15
  DEF Solvers!Work, S!Work
<1>18. \A w, b : Solvers!Skip(w, b) <=> S!Skip(w, b)
  BY <1>10, <1>12, <1>15, <1>17
  DEF Solvers!Skip, S!Skip
<1>19. \A w, path, step, blamed :
         Solvers!Start(w, path, step, blamed) <=> S!Start(w, path, step, blamed)
  BY <1>5, <1>14
  DEF Solvers!Start, S!Start
<1>20. Solvers!Entry <=> S!Entry
  BY DEF Solvers!rows, S!rows, Solvers!Entry, S!Entry
<1>21. Solvers!Trading => S!Trading
  BY <1>1, <1>2, <1>5
  DEF Solvers!rows, S!rows, Solvers!Advance, S!Advance,
      Solvers!hold_invoice_paid, S!hold_invoice_paid, Solvers!dispute_action, S!dispute_action,
      Solvers!payment_success, S!payment_success, Solvers!Trading, S!Trading
<1>22. Solvers!cancel_action => S!cancel_action
  BY <1>19, <1>20
  DEF Solvers!cancel_action, S!cancel_action
<1>23. Solvers!cancel_order_by_taker => S!cancel_order_by_taker
  BY <1>19, <1>20
  DEF Solvers!cancel_order_by_taker, S!cancel_order_by_taker
<1>24. Solvers!release_action => S!release_action
  BY <1>19
  DEF Solvers!rows, S!rows, Solvers!release_action, S!release_action
<1>25. Solvers!reconcile_stranded_range_maker_bonds => S!reconcile_stranded_range_maker_bonds
  BY <1>19, <1>20
  DEF Solvers!reconcile_stranded_range_maker_bonds, S!reconcile_stranded_range_maker_bonds
<1>26. \A w, path, blamed : Solvers!admin_action(w, path, blamed) => S!admin_action(w, path, blamed)
  BY <1>2, <1>4, <1>19, <1>20
  DEF Solvers!validate_bond_resolution, S!validate_bond_resolution,
      Solvers!admin_action, S!admin_action
<1>27. \A b : Solvers!on_bond_invoice_canceled(b) => S!on_bond_invoice_canceled(b)
  BY <1>5, <1>14, <1>20
  DEF Solvers!on_bond_invoice_canceled, S!on_bond_invoice_canceled
<1>28. Solvers!Hooks => S!Hooks
  BY <1>1, <1>2, <1>22, <1>23, <1>24, <1>25, <1>26, <1>27
  DEF Solvers!Hooks, S!Hooks
<1>29. Solvers!job_cancel_orders => S!job_cancel_orders
  BY <1>19, <1>20
  DEF Solvers!job_cancel_orders, S!job_cancel_orders
<1>30. Solvers!crash => S!crash
  BY <1>3, <1>6, <1>14
  DEF Solvers!rows, S!rows, Solvers!crash, S!crash
<1>31. \A w : Solvers!persist(w) => S!persist(w)
  BY <1>5, <1>7, <1>15
  DEF Solvers!rows, S!rows, Solvers!persist, S!persist
<1>32. \A w : Solvers!find_active_bonds_for_order(w) => S!find_active_bonds_for_order(w)
  BY <1>4, <1>5, <1>7, <1>8, <1>17
  DEF Solvers!rows, S!rows, Solvers!find_active_bonds_for_order, S!find_active_bonds_for_order
<1>33. \A w : Solvers!slash_one(w) => S!slash_one(w)
  BY <1>5, <1>9, <1>16
  DEF Solvers!rows, S!rows, Solvers!slash_one, S!slash_one
<1>34. \A w : Solvers!slash_reason_recorded(w) => S!slash_reason_recorded(w)
  BY <1>5, <1>9, <1>17
  DEF Solvers!rows, S!rows, Solvers!slash_reason_recorded, S!slash_reason_recorded
<1>35. \A w : Solvers!release_bond(w) => S!release_bond(w)
  BY <1>5, <1>10, <1>15, <1>17
  DEF Solvers!release_bond, S!release_bond
<1>36. \A w : Solvers!resolve_range_maker_bond_at_close(w) => S!resolve_range_maker_bond_at_close(w)
  BY <1>5, <1>10, <1>15
  DEF Solvers!rows, S!rows,
      Solvers!resolve_range_maker_bond_at_close, S!resolve_range_maker_bond_at_close
<1>37. \A w : Solvers!slash_one_db_error(w) => S!slash_one_db_error(w)
  BY <1>5, <1>6, <1>16
  DEF Solvers!rows, S!rows, Solvers!slash_one_db_error, S!slash_one_db_error
<1>38. \A w : Solvers!read_fails(w) => S!read_fails(w)
  BY <1>5, <1>6, <1>8, <1>15
  DEF Solvers!rows, S!rows, Solvers!read_fails, S!read_fails
<1>39. \A w : Solvers!handler_fails(w) => S!handler_fails(w)
  BY <1>5, <1>6, <1>15
  DEF Solvers!rows, S!rows, Solvers!handler_fails, S!handler_fails
<1>40. \A w, b : Solvers!settle_hold_invoice(w, b) => S!settle_hold_invoice(w, b)
  BY <1>5, <1>16
  DEF Solvers!rows, S!rows, Solvers!settle_hold_invoice, S!settle_hold_invoice
<1>41. \A w, b : Solvers!cancel_hold_invoice(w, b) => S!cancel_hold_invoice(w, b)
  BY <1>12, <1>13, <1>16, <1>18
  DEF Solvers!rows, S!rows, Solvers!cancel_hold_invoice, S!cancel_hold_invoice
<1>42. \A w, b : Solvers!settle_fails(w, b) => S!settle_fails(w, b)
  BY <1>5, <1>6, <1>16
  DEF Solvers!rows, S!rows, Solvers!settle_fails, S!settle_fails
<1>43. \A w, b : Solvers!cancel_fails(w, b) => S!cancel_fails(w, b)
  BY <1>6, <1>13, <1>18
  DEF Solvers!rows, S!rows, Solvers!cancel_fails, S!cancel_fails
<1>44. \A b : Solvers!process_one_bond(b) => S!process_one_bond(b)
  BY DEF Solvers!process_one_bond, S!process_one_bond
<1>45. \A b : Solvers!cltv_expiry(b) => S!cltv_expiry(b)
  BY <1>6
  DEF Solvers!rows, S!rows, Solvers!cltv_expiry, S!cltv_expiry
<1>46. \A w : Solvers!Resolving(w) => S!Resolving(w)
  BY <1>1, <1>31, <1>32, <1>33, <1>34, <1>35, <1>36, <1>40, <1>41
  DEF Solvers!Resolving, S!Resolving
<1>47. \A w : Solvers!Failing(w) => S!Failing(w)
  BY <1>1, <1>37, <1>38, <1>39, <1>42, <1>43
  DEF Solvers!Failing, S!Failing
<1> QED
  BY <1>1, <1>3, <1>21, <1>28, <1>29, <1>46, <1>47, <1>44, <1>45, <1>30
  DEF Solvers!Next, S!Next

(* The bonds, in every scenario: their resolution with the two solver       *)
(* channels or, in "overdue", with the timeout job.                         *)
BondsInv == IF scenario = "overdue" THEN O!DecideInv ELSE S!DecideInv

LEMMA BondsInvInit == ScenarioInit => BondsInv
<1>1. S!Init => S!DecideInv
  BY S!DecideInit
<1>2. O!Init => O!DecideInv
  BY O!DecideInit
<1> QED
  BY <1>1, <1>2, SameBonds DEF ScenarioInit, BondsInv

(* Every step keeps BondsInv. *)
LEMMA BondsInvNext ==
    ASSUME BondsInv, [ScenarioNext]_allVars
    PROVE  BondsInv'
<1>1. scenario' = scenario
  BY DEF ScenarioNext, allVars
<1>2. CASE scenario = "overdue"
  <2>1. Overdue!Next \/ UNCHANGED bonds
    BY <1>2 DEF ScenarioNext, allVars
  <2>2. [O!Next]_(O!vars)
    BY <2>1, OverdueStep DEF bonds, O!vars
  <2>3. O!DecideInv
    BY <1>2 DEF BondsInv
  <2>4. "timeout" \in {"main", "timeout", "sweep", "subscriber"} =>
          O!Bonds \subseteq {"maker", "taker"}
    BY DEF O!Bonds
  <2>5. O!DecideInv'
    BY <2>2, <2>3, <2>4, O!DecideNext
  <2> QED
    BY <1>1, <1>2, <2>5 DEF BondsInv
<1>3. CASE scenario # "overdue"
  <2>1. Solvers!Next \/ UNCHANGED bonds
    BY <1>3 DEF ScenarioNext, allVars
  <2>2. [S!Next]_(S!vars)
    BY <2>1, SolversStep DEF bonds, S!vars
  <2>3. S!DecideInv
    BY <1>3 DEF BondsInv
  <2>4. "timeout" \in {"main", "rpc", "sweep"} => S!Bonds \subseteq {}
    OBVIOUS
  <2>5. S!DecideInv'
    BY <2>2, <2>3, <2>4, S!DecideNext
  <2> QED
    BY <1>1, <1>3, <2>5 DEF BondsInv
<1> QED
  BY <1>2, <1>3

(* What BondsInv says of the rows, of the notices and of the order. *)
LEMMA BondsInvImplies ==
    BondsInv => RowFollowsInvoice /\ NoticeIsTrue /\ DecidedBeforeWritten
<1> SUFFICES ASSUME BondsInv
             PROVE  RowFollowsInvoice /\ NoticeIsTrue /\ DecidedBeforeWritten
  OBVIOUS
<1>1. CASE scenario = "overdue"
  <2>1. O!RowFollowsInvoice /\ O!NoticeIsTrue /\ O!DecidedBeforeWritten
    BY <1>1, O!DecideImplies DEF BondsInv, O!DecideInv, O!SlashInv
  <2>2. RowFollowsInvoice
    BY <2>1 DEF RowFollowsInvoice, Overdue!RowFollowsInvoice, O!RowFollowsInvoice,
                Overdue!Bonds, O!Bonds
  <2>3. NoticeIsTrue
    BY <2>1 DEF NoticeIsTrue, Overdue!NoticeIsTrue, O!NoticeIsTrue
  <2>4. DecidedBeforeWritten
    BY <2>1 DEF DecidedBeforeWritten, Overdue!DecidedBeforeWritten, O!DecidedBeforeWritten,
                Overdue!At, O!At
  <2> QED
    BY <2>2, <2>3, <2>4
<1>2. CASE scenario # "overdue"
  <2>1. S!RowFollowsInvoice /\ S!NoticeIsTrue /\ S!DecidedBeforeWritten
    BY <1>2, S!DecideImplies DEF BondsInv, S!DecideInv, S!SlashInv
  <2>2. RowFollowsInvoice
    BY <2>1 DEF RowFollowsInvoice, Overdue!RowFollowsInvoice, S!RowFollowsInvoice,
                Overdue!Bonds, S!Bonds
  <2>3. NoticeIsTrue
    BY <2>1 DEF NoticeIsTrue, Overdue!NoticeIsTrue, S!NoticeIsTrue
  <2>4. DecidedBeforeWritten
    BY <2>1 DEF DecidedBeforeWritten, Overdue!DecidedBeforeWritten, S!DecidedBeforeWritten,
                Overdue!At, S!At
  <2> QED
    BY <2>2, <2>3, <2>4
<1> QED
  BY <1>1, <1>2

(***************************************************************************)
(* A slashed bond is money Mostro holds and a released one went back       *)
(* (slash_one slash.rs, release_bond mod.rs), with two solvers, the main   *)
(* loop and the sweep at once, or the timeout job, the subscriber and a    *)
(* restart.                                                                *)
(***************************************************************************)
THEOREM ResolutionsFollowInvoices == ScenarioSpec => []RowFollowsInvoice
<1> QED
  BY BondsInvInit, BondsInvNext, BondsInvImplies, PTL DEF ScenarioSpec

(***************************************************************************)
(* Who was told of a slash lost the bond, in the same scenarios            *)
(* (slash_reason_recorded).                                                *)
(***************************************************************************)
THEOREM ResolutionsTellTheTruth == ScenarioSpec => []NoticeIsTrue
<1> QED
  BY BondsInvInit, BondsInvNext, BondsInvImplies, PTL DEF ScenarioSpec

(***************************************************************************)
(* As long as LND and the database answer, job_cancel_orders (scheduler.rs)*)
(* writes an overdue order only once the late party's bond is decided, and *)
(* an order is back on the book only once its taker's bond is.             *)
(***************************************************************************)
THEOREM ResolutionsDecideFirst == ScenarioSpec => []DecidedBeforeWritten
<1> QED
  BY BondsInvInit, BondsInvNext, BondsInvImplies, PTL DEF ScenarioSpec
============================================================================
