------------------------------ MODULE UserForm ------------------------------
(***************************************************************************)
(* The dialog that creates and edits a user: the values of the form and    *)
(* the state its fields keep beside them (the switch of the data limit,    *)
(* the expiry tab, the selected dates, the days of use), the effects that  *)
(* copy the one into the other, and what is sent.                          *)
(*                                                                         *)
(* The form object of the context is a new one whenever the dialog is      *)
(* rendered, so the effects that name it among their dependencies run      *)
(* again each time; watching data_limit renders the dialog.                *)
(*                                                                         *)
(* Times are hours, 0 for none; user names and notes are left out.         *)
(***************************************************************************)
EXTENDS Integers

CONSTANTS
    Stored,  \* users that may be edited: see Values
    QuickPlans, \* the plans of one click: [gb, expires]
    Limits,  \* gigabytes typed into the limit
    Dates,   \* dates picked in the calendar
    Metric,  \* bytes in a gigabyte
    Zones    \* hours the browser is east of UTC

VARIABLE ui

NoUser == [limit |-> 0, reset |-> "no_reset", strategy |-> "fixed_date", date |-> 0,
           deadline |-> 0, duration |-> 0]
Day == 24
NotSent == [strategy |-> "not sent"]
NoPlan == [gb |-> 0, expires |-> 0]

---------------------------------------------------------------------------
(* Values *)

\* The limit is a fraction of gigabytes in the form; the schema makes it bytes.
Typing(gb) == <<gb, 1>>
loadFormatter(user) ==
    [ limit |-> <<user.limit, Metric>>, reset |-> user.reset, strategy |-> user.strategy,
      date |-> user.date, deadline |-> user.deadline, duration |-> user.duration ]

\* Math.round(val * DATA_LIMIT_METRIC)
UserSchema(f) ==
    [ limit |-> (2 * f.limit[1] * Metric + f.limit[2]) \div (2 * f.limit[2]),
      reset |-> f.reset, strategy |-> f.strategy, date |-> f.date,
      deadline |-> f.deadline, duration |-> f.duration ]

\* A date without a zone is read as local time and written back as UTC.
parseISODate(date, zone) == IF date = 0 THEN 0 ELSE date - zone

---------------------------------------------------------------------------
(* Effects *)

\* DateField and UsageDurationField write their own state whenever they are rendered
\* with another form: the fields of the open tab do.
Rerendered(u) ==
    CASE u.tab = "fixed_date" -> [u EXCEPT !.form.date = u.picked]
      [] u.tab = "start_on_first_use" ->
            [u EXCEPT !.form.duration = u.days, !.form.deadline = u.pickedDeadline]
      [] OTHER -> u

\* useDataLimit, when the switch has changed.
LimitEffect(u) ==
    IF u.switch THEN u ELSE [u EXCEPT !.form.limit = Typing(0), !.form.reset = "no_reset"]

\* The fields of a tab take their state from the form as they appear.  The days of use
\* are kept in hours here: the field divides and multiplies without rounding.
Mounted(u) ==
    CASE u.tab = "fixed_date" -> [u EXCEPT !.picked = parseISODate(u.form.date, u.zone)]
      [] u.tab = "start_on_first_use" ->
            [u EXCEPT !.days = u.form.duration,
                      !.pickedDeadline = parseISODate(u.form.deadline, u.zone)]
      [] OTHER -> u

\* strategies[tab].apply; the first-use strategy clears a field `expire' that is not there.
Applied(u) ==
    CASE u.tab = "fixed_date" ->
            [u EXCEPT !.form.strategy = u.tab, !.form.duration = 0, !.form.deadline = 0]
      [] u.tab = "never" ->
            [u EXCEPT !.form.strategy = u.tab, !.form.date = 0, !.form.deadline = 0, !.form.duration = 0]
      [] OTHER -> [u EXCEPT !.form.strategy = u.tab]

\* useMutationDialog, on opening and for every new `entity' object.
Reset(u) == Rerendered([u EXCEPT !.form = loadFormatter(u.entity)])

---------------------------------------------------------------------------
(* The admin *)

Open == ui.sent = NotSent
Touch(u, what) == [u EXCEPT !.touched = @ \cup {what}, !.plan = NoPlan]

\* Mutant of QuickPlan: the gigabytes are made bytes before the schema does so.
BytesTwice(plan) ==
    /\ Open /\ ui.creating
    /\ ui' = Rerendered([ui EXCEPT
                !.form.limit = Typing(plan.gb * Metric), !.form.reset = "no_reset",
                !.form.strategy = "fixed_date", !.form.date = plan.expires, !.plan = plan])

\* Only when creating.  The fields are set, their own state and the tab are not.
QuickPlan(plan) ==
    /\ Open /\ ui.creating
    /\ ui' = Rerendered([ui EXCEPT
                !.form.limit = Typing(plan.gb), !.form.reset = "no_reset",
                !.form.strategy = "fixed_date", !.form.date = plan.expires, !.plan = plan])

DataLimitSwitch ==
    /\ Open
    /\ ui' = Rerendered(LimitEffect(Touch([ui EXCEPT !.switch = ~@], "limit")))

DataLimitField ==
    /\ Open /\ ui.switch
    /\ \E gb \in Limits : ui' = Rerendered(Touch([ui EXCEPT !.form.limit = Typing(gb)], "limit"))

DataLimitResetStrategyField ==
    /\ Open /\ ui.switch
    /\ \E reset \in {"no_reset", "month"} :
          ui' = Rerendered(Touch([ui EXCEPT !.form.reset = reset], "limit"))

\* The tab's fields appear, then the strategy is applied.
ExpirationMethodFields(tab) ==
    /\ Open /\ tab # ui.tab
    /\ parseISODate(ui.form.date, ui.zone) >= 0 \* bound: dates shifted again and again
    /\ ui' = Applied(Rerendered(Mounted(Touch([ui EXCEPT !.tab = tab], "expiry"))))

ExpireDateField ==
    /\ Open /\ ui.tab = "fixed_date"
    /\ \E date \in Dates \cup {0} : ui' = Rerendered(Touch([ui EXCEPT !.picked = date], "expiry"))

ActivationDeadlineField ==
    /\ Open /\ ui.tab = "start_on_first_use"
    /\ \E date \in Dates \cup {0} :
          ui' = Rerendered(Touch([ui EXCEPT !.pickedDeadline = date], "expiry"))

UsageDurationField ==
    /\ Open /\ ui.tab = "start_on_first_use"
    /\ \E days \in {0, 30} : ui' = Rerendered(Touch([ui EXCEPT !.days = days * Day], "expiry"))

ServicesField == Open /\ ui' = [ui EXCEPT !.services = ~@]

\* The query of the user is answered again with other traffic counters.
Refetched == Open /\ ~ui.creating /\ ui' = Reset([ui EXCEPT !.services = TRUE])

\* Without a service the errors are shown; otherwise the user is sent and the dialog closed.
Submit ==
    /\ Open
    /\ ui' = IF ui.services THEN [ui EXCEPT !.sent = UserSchema(ui.form)] ELSE Rerendered(ui)

\* Children mount before the dialog resets the form.
UsersMutationDialog(zone, creating, entity) ==
    Reset(Mounted(
        [ creating |-> creating, entity |-> entity, zone |-> zone,
          form |-> loadFormatter(entity), switch |-> entity.limit # 0,
          tab |-> entity.strategy, picked |-> 0, pickedDeadline |-> 0, days |-> 0,
          services |-> ~creating, plan |-> NoPlan, touched |-> {}, sent |-> NotSent ]))

Init ==
    \E zone \in Zones :
        \/ ui = UsersMutationDialog(zone, TRUE, NoUser)
        \/ \E entity \in Stored : ui = UsersMutationDialog(zone, FALSE, entity)

Next ==
    \/ \E plan \in QuickPlans : QuickPlan(plan)
    \/ DataLimitSwitch \/ DataLimitField \/ DataLimitResetStrategyField
    \/ \E tab \in {"fixed_date", "start_on_first_use", "never"} : ExpirationMethodFields(tab)
    \/ ExpireDateField \/ ActivationDeadlineField \/ UsageDurationField
    \/ ServicesField \/ Refetched \/ Submit

---------------------------------------------------------------------------
\* A quick plan after which nothing else was touched is sent whole: its gigabytes once
\* and not twice in bytes, without a periodic reset, until a fixed date, which is the
\* plan's unless the calendar of that tab was open.
PlanArrives ==
    ui.plan # NoPlan =>
        /\ ui.sent.limit = ui.plan.gb * Metric /\ ui.sent.reset = "no_reset"
        /\ ui.sent.strategy = "fixed_date"
        /\ ui.tab # "fixed_date" => ui.sent.date = ui.plan.expires

\* What nobody touched is sent as it is stored, however often the user was read again
\* and the form rendered meanwhile (the expiry in a browser that is on UTC).
UntouchedStays ==
    ~ui.creating =>
        /\ "limit" \notin ui.touched =>
              ui.sent.limit = ui.entity.limit /\ ui.sent.reset = ui.entity.reset
        /\ ("expiry" \notin ui.touched /\ ui.zone = 0) =>
              /\ ui.sent.strategy = ui.entity.strategy /\ ui.sent.date = ui.entity.date
              /\ ui.sent.deadline = ui.entity.deadline /\ ui.sent.duration = ui.entity.duration

\* The user that leaves the dialog is the plan that was clicked, or the stored one but
\* for what was touched.
SentAsMeant == Open \/ (PlanArrives /\ UntouchedStays)
=============================================================================
