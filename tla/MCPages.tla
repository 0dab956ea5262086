------------------------------- MODULE MCPages -------------------------------
(* Values of the constants of PanelPages for TLC. *)
EXTENDS PanelPages

MCStored ==
    { [limit |-> 5, reset |-> "month", strategy |-> "fixed_date", date |-> 3, deadline |-> 0, duration |-> 0],
      [limit |-> 0, reset |-> "month", strategy |-> "start_on_first_use", date |-> 0, deadline |-> 4,
       duration |-> 36],
      [limit |-> 8, reset |-> "no_reset", strategy |-> "never", date |-> 0, deadline |-> 0, duration |-> 0] }

MCPlans == {[gb |-> 3, expires |-> 5], [gb |-> 6, expires |-> 7]}
=============================================================================
