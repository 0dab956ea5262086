--------------------------- MODULE PanelPagesProofs ---------------------------
(***************************************************************************)
(* What the pages of the admin panel promise, for any plans, channels,     *)
(* users, rows and configs, and without bounds: the proofs use none of the *)
(* Max constants.                                                          *)
(***************************************************************************)
EXTENDS PanelPages, Sequences, FiniteSetTheorems, TLAPS

-----------------------------------------------------------------------------
(* The checkout page.                                                      *)

CartFields == { "here", "readable", "user", "cart", "plans", "channels", "selected", "tab",
            "pending", "purchase" }
CartTyped ==
    /\ DOMAIN ui = CartFields /\ ui.purchase \in Int
    /\ DOMAIN db = {"plans", "channels", "invoices", "unanswered", "writes"}
    /\ \A i \in db.invoices : i.purchase \in Int
    /\ \A r \in net : /\ DOMAIN r = {"purchase", "user", "lines", "channel", "invoiced"}
                      /\ r.purchase \in Int

\* Nothing is known of a cart that is still to come.
NoneAhead ==
    /\ \A r \in net : r.purchase <= ui.purchase
    /\ \A i \in db.invoices : i.purchase <= ui.purchase

\* The cart on screen is on its way at most once, and pending while it is.
OneAtATime ==
    /\ \A r, s \in net : r.purchase = s.purchase => r = s
    /\ ui.here => \A r \in net : r.purchase = ui.purchase => ui.pending

\* A cart that may still be paid or sent has no invoice whose answer was not lost.
NotYetInvoiced ==
    /\ \A r \in net, i \in db.invoices :
          (r.purchase = i.purchase /\ ~r.invoiced) => i.purchase \in db.unanswered
    /\ ui.here =>
          \A i \in db.invoices :
             i.purchase = ui.purchase =>
                i.purchase \in db.unanswered \/ \E r \in net : r.purchase = i.purchase /\ r.invoiced

CartInv == CartTyped /\ NoneAhead /\ OneAtATime /\ NotYetInvoiced /\ Sale!ChargedOnce

\* A step that leaves alone what CartInv speaks of.
Quiet ==
    /\ net' = net
    /\ DOMAIN ui' = DOMAIN ui /\ DOMAIN db' = DOMAIN db
    /\ ui'.here = ui.here /\ ui'.pending = ui.pending /\ ui'.purchase = ui.purchase
    /\ db'.invoices = db.invoices /\ db'.unanswered = db.unanswered

LEMMA QuietCart == CartInv /\ Quiet => CartInv'
  BY DEF CartInv, Quiet, CartTyped, NoneAhead, OneAtATime,
         NotYetInvoiced, Sale!ChargedOnce

LEMMA CartInit == Sale!Init => CartInv
  BY DEF Sale!Init, CartInv, Sale!BillingCheckoutPage, CartFields, CartTyped, NoneAhead, OneAtATime,
         NotYetInvoiced, Sale!ChargedOnce

\* What the picker does on appearing is of no concern here.
LEMMA RenderIsQuiet ==
  ASSUME NEW u, DOMAIN u = CartFields, Sale!Render(u),
         u.here = ui.here, u.pending = ui.pending, u.purchase = ui.purchase
  PROVE  /\ DOMAIN ui' = CartFields
         /\ ui'.here = ui.here /\ ui'.pending = ui.pending /\ ui'.purchase = ui.purchase
  BY DEF Sale!Render, Sale!CheckoutPaymentPicker, CartFields

LEMMA OthersQuiet ==
  ASSUME CartTyped,
         \/ Sale!UserSelector \/ Sale!SelectTab
         \/ Sale!UserPlansRead \/ Sale!UserChannelsRead \/ Sale!ReadFails \/ Sale!OthersWrite
         \/ \E plan \in Sale!Plans :
               Sale!AddFixedPlan(plan) \/ Sale!AddFlexibleLine(plan) \/ Sale!RemoveLine(plan)
         \/ \E channel \in Channels : Sale!SelectEpay(channel)
  PROVE  Quiet
<1> USE DEF CartTyped, Quiet
<1>1. CASE Sale!UserSelector
  <2>1. PICK user : Sale!Render([ui EXCEPT !.user = user]) /\ UNCHANGED <<net, db>>
    BY <1>1 DEF Sale!UserSelector
  <2>2. QED
    BY <2>1, RenderIsQuiet DEF CartFields
<1>2. CASE Sale!UserPlansRead
  BY <1>2, RenderIsQuiet DEF Sale!UserPlansRead, CartFields
<1>3. CASE Sale!UserChannelsRead
  BY <1>3, RenderIsQuiet DEF Sale!UserChannelsRead, CartFields
<1>4. CASE Sale!SelectTab \/ Sale!ReadFails
  BY <1>4 DEF Sale!SelectTab, Sale!ReadFails, CartFields
<1>5. CASE Sale!OthersWrite
  BY <1>5 DEF Sale!OthersWrite
<1>6. ASSUME NEW plan \in Sale!Plans,
             Sale!AddFixedPlan(plan) \/ Sale!AddFlexibleLine(plan) \/ Sale!RemoveLine(plan)
      PROVE  Quiet
  <2>1. PICK quantity : Sale!Render([ui EXCEPT !.cart[plan] = quantity]) /\ UNCHANGED <<net, db>>
    BY <1>6 DEF Sale!AddFixedPlan, Sale!AddFlexibleLine, Sale!RemoveLine
  <2>2. QED
    BY <2>1, RenderIsQuiet DEF CartFields
<1>7. ASSUME NEW channel \in Channels, Sale!SelectEpay(channel) PROVE Quiet
  BY <1>7 DEF Sale!SelectEpay, CartFields
<1>8. QED
  BY <1>1, <1>2, <1>3, <1>4, <1>5, <1>6, <1>7

\* The cart is not pending, so no request of it is under way and every invoice of it
\* is one whose answer was lost.
LEMMA OnPayInv == CartInv /\ Sale!OnPay => CartInv'
<1> SUFFICES ASSUME CartInv, Sale!OnPay PROVE CartInv'
  OBVIOUS
<1> USE DEF CartInv
<1>1. PICK req : /\ net' = net \cup {req}
                 /\ DOMAIN req = {"purchase", "user", "lines", "channel", "invoiced"}
                 /\ req.purchase = ui.purchase /\ ~req.invoiced
  <2> DEFINE mine == [ purchase |-> ui.purchase, user |-> ui.user, lines |-> ui.cart,
                       channel |-> IF ui.tab = "trc20" THEN Sale!TRC20 ELSE ui.selected,
                       invoiced |-> FALSE ]
  <2>1. net' = net \cup {mine}
    BY DEF Sale!OnPay
  <2>2. /\ DOMAIN mine = {"purchase", "user", "lines", "channel", "invoiced"}
        /\ mine.purchase = ui.purchase /\ ~mine.invoiced
    OBVIOUS
  <2> HIDE DEF mine
  <2>3. QED
    BY <2>1, <2>2
<1>2. /\ DOMAIN ui' = CartFields /\ ui'.purchase = ui.purchase /\ ui'.here = ui.here
      /\ ui'.pending /\ db' = db /\ ui.here /\ ~ui.pending
  BY DEF Sale!OnPay, Sale!PickerShown, CartTyped, CartFields
<1>3. \A r \in net : r.purchase # ui.purchase
  BY <1>2 DEF OneAtATime
<1>4. \A i \in db.invoices : i.purchase = ui.purchase => i.purchase \in db.unanswered
  BY <1>2, <1>3 DEF NotYetInvoiced
<1>5. CartTyped' /\ NoneAhead'
  BY <1>1, <1>2 DEF CartTyped, NoneAhead
<1>6. OneAtATime'
  BY <1>1, <1>2, <1>3 DEF OneAtATime
<1>7. NotYetInvoiced'
  BY <1>1, <1>2, <1>4 DEF NotYetInvoiced
<1>8. Sale!ChargedOnce'
  BY <1>2 DEF Sale!ChargedOnce
<1>9. QED
  BY <1>5, <1>6, <1>7, <1>8

LEMMA LeaveInv == CartInv /\ Sale!Leave => CartInv'
  BY DEF Sale!Leave, CartInv, CartFields, CartTyped, NoneAhead, OneAtATime,
         NotYetInvoiced, Sale!ChargedOnce

\* The new page counts a new cart, of which nothing is known.
LEMMA ReturnInv == CartInv /\ Sale!Return => CartInv'
  BY DEF Sale!Return, Sale!BillingCheckoutPage, CartInv, CartFields, CartTyped, NoneAhead, OneAtATime,
         NotYetInvoiced, Sale!ChargedOnce

LEMMA PayAnsweredInv == ASSUME CartInv, NEW r \in net, Sale!PayAnswered(r) PROVE CartInv'
  BY DEF Sale!PayAnswered, Sale!Mine, CartInv, CartFields, CartTyped, NoneAhead, OneAtATime,
         NotYetInvoiced, Sale!ChargedOnce

LEMMA PayFailsInv == ASSUME CartInv, NEW r \in net, Sale!PayFails(r) PROVE CartInv'
  BY DEF Sale!PayFails, Sale!Mine, CartInv, CartFields, CartTyped, NoneAhead, OneAtATime,
         NotYetInvoiced, Sale!ChargedOnce

\* The request had no invoice but lost ones, and it is marked with the one it gets.
LEMMA CheckoutInv == ASSUME CartInv, NEW r \in net, Sale!Checkout(r) PROVE CartInv'
<1> USE DEF CartInv
<1>1. PICK i : db'.invoices = db.invoices \cup {i} /\ i.purchase = r.purchase
  <2>1. PICK n : db' = [db EXCEPT !.invoices = @ \cup {[n |-> n, purchase |-> r.purchase]}]
    BY DEF Sale!Checkout
  <2> DEFINE new == [n |-> n, purchase |-> r.purchase]
  <2>2. db'.invoices = db.invoices \cup {new} /\ new.purchase = r.purchase
    BY <2>1 DEF CartTyped
  <2> HIDE DEF new
  <2>3. QED
    BY <2>2
<1>2. PICK s : /\ net' = (net \ {r}) \cup {s}
               /\ DOMAIN s = {"purchase", "user", "lines", "channel", "invoiced"}
               /\ s.purchase = r.purchase /\ s.invoiced
  <2> DEFINE marked == [r EXCEPT !.invoiced = TRUE]
  <2>1. net' = (net \ {r}) \cup {marked}
    BY DEF Sale!Checkout
  <2>2. /\ DOMAIN marked = {"purchase", "user", "lines", "channel", "invoiced"}
        /\ marked.purchase = r.purchase /\ marked.invoiced
    BY DEF CartTyped
  <2> HIDE DEF marked
  <2>3. QED
    BY <2>1, <2>2
<1>3. /\ ui' = ui /\ DOMAIN db' = DOMAIN db /\ db'.unanswered = db.unanswered
      /\ ~r.invoiced
  BY DEF Sale!Checkout, CartTyped
<1>4. CartTyped' /\ NoneAhead'
  BY <1>1, <1>2, <1>3 DEF CartTyped, NoneAhead
<1>5. OneAtATime'
  BY <1>2, <1>3 DEF OneAtATime
<1>6. NotYetInvoiced'
  BY <1>1, <1>2, <1>3 DEF NotYetInvoiced, OneAtATime
<1>7. Sale!ChargedOnce'
  BY <1>1, <1>3 DEF Sale!ChargedOnce, NotYetInvoiced
<1>8. QED
  BY <1>4, <1>5, <1>6, <1>7

LEMMA CartNext == CartInv /\ (Sale!Next \/ UNCHANGED Sale!vars) => CartInv'
<1> SUFFICES ASSUME CartInv, Sale!Next \/ UNCHANGED Sale!vars PROVE CartInv'
  OBVIOUS
<1>1. CASE Sale!OnPay \/ Sale!Leave \/ Sale!Return
  BY <1>1, OnPayInv, LeaveInv, ReturnInv
<1>2. CASE \E r \in net : Sale!PayAnswered(r) \/ Sale!PayFails(r) \/ Sale!Checkout(r)
  BY <1>2, PayAnsweredInv, PayFailsInv, CheckoutInv
<1>3. CASE UNCHANGED Sale!vars
  BY <1>3, QuietCart DEF Sale!vars, Quiet
<1>4. CartTyped
  BY DEF CartInv
<1>5. QED
  BY <1>1, <1>2, <1>3, <1>4, OthersQuiet, QuietCart DEF Sale!Next

-----------------------------------------------------------------------------
\* On the other pages there is no cart.
CartPage == open = "checkout" => CartInv

LEMMA CartPageInit == Init => CartPage
  BY CartInit DEF Init, CartPage

LEMMA CartPageNext == CartPage /\ [Next]_vars => CartPage'
<1>1. ASSUME open = "checkout", CartInv, Next PROVE CartInv'
  <2>1. Sale!Next
    BY <1>1 DEF Next
  <2>2. QED
    BY <1>1, <2>1, CartNext
<1>2. ASSUME CartInv, UNCHANGED vars PROVE CartInv'
  <2>1. UNCHANGED Sale!vars
    BY <1>2 DEF vars, Sale!vars
  <2>2. QED
    BY <1>2, <2>1, CartNext
<1>3. [Next]_vars => open' = open
  BY DEF Next, vars
<1>4. QED
  BY <1>1, <1>2, <1>3 DEF CartPage

\* Two invoices of one cart come only from an answer that was lost: clicks during a
\* checkout, a page that is left and opened again, and late answers make none.
THEOREM CartsAreChargedOnce == Spec => []ChargedOnce
<1>1. CartPage => ChargedOnce
  BY DEF CartPage, CartInv, ChargedOnce
<1>2. QED
  BY <1>1, CartPageInit, CartPageNext, PTL DEF Spec

-----------------------------------------------------------------------------
(* The config of a node.                                                   *)

SettingsTexts ==
    [ lang : Settings!Formats \cup {"bad", "none"}, doc : Documents \cup {0}, indented : BOOLEAN ]

\* A config that may be sent to a node, or come from it.
Sound(data) ==
    /\ data.config \in SettingsTexts
    /\ data.format \in Settings!Formats \cup {"plain"}
    /\ Settings!Parses(data.config, data.format)

EditorFields == {"kind", "data", "fetching", "known", "config", "text", "valid"}

\* What will be saved parses in the format of what was read last, for it is only
\* replaced by a text that does, or by what is read next.
EditorInv ==
    ui.kind = "config" =>
        /\ DOMAIN ui = EditorFields
        /\ Sound(ui.data) /\ Sound([config |-> ui.config, format |-> ui.data.format])
        /\ ui.known => ui.config # Settings!NoText /\ ui.data.config # Settings!NoText

ConfigInv ==
    /\ "kind" \in DOMAIN ui /\ EditorInv
    /\ DOMAIN db = {"data", "writes", "saves", "lines"} /\ Sound(db.data)
    /\ DOMAIN net = {"read", "saves"}
    /\ net.read # <<>> => Sound(net.read[1])
    /\ \A save \in net.saves : /\ Sound(save)
                               /\ save.known => save.config # Settings!NoText

LEMMA BlankSound == Sound([config |-> Settings!NoText, format |-> "plain"])
  BY DEF Sound, SettingsTexts, Settings!NoText, Settings!Text, Settings!Parses

LEMMA TextsTyped ==
  ASSUME NEW text \in Settings!Texts
  PROVE  text \in SettingsTexts /\ text # Settings!NoText
  <1>1. text \in SettingsTexts /\ text.lang # "none"
    BY DEF Settings!Texts, SettingsTexts, Settings!Formats
  <1> QED
    BY <1>1 DEF Settings!NoText, Settings!Text

\* What parseConfig returns parses, and is blank only where the text was.
LEMMA ParsedSound ==
  ASSUME NEW data, Sound(data)
  PROVE  /\ Sound([config |-> Settings!parseConfig(data), format |-> data.format])
         /\ data.config # Settings!NoText => Settings!parseConfig(data) # Settings!NoText
  <1>1. CASE data.format = "plain"
    BY <1>1 DEF Sound, Settings!parseConfig
  <1>2. CASE data.format # "plain"
    <2>1. data.format \in Settings!Formats /\ data.config \in SettingsTexts
      BY <1>2 DEF Sound
    <2>2. Settings!parseConfig(data) = [data.config EXCEPT !.lang = data.format, !.indented = TRUE]
      BY <1>2 DEF Settings!parseConfig
    <2>3. /\ Settings!parseConfig(data) \in SettingsTexts
          /\ Settings!parseConfig(data).lang = data.format
      BY <2>1, <2>2 DEF SettingsTexts
    <2>4. Settings!NoText.lang \notin Settings!Formats
      BY DEF Settings!NoText, Settings!Text, Settings!Formats
    <2> QED
      BY <2>1, <2>3, <2>4 DEF Sound, Settings!Parses
  <1> QED
    BY <1>1, <1>2

\* The editor shows what was read.
LEMMA ShownSound ==
  ASSUME NEW u, DOMAIN u = EditorFields, u.kind = "config", Sound(u.data),
         u.known => u.data.config # Settings!NoText,
         ui' = Settings!Shown(u)
  PROVE  ui'.kind = "config" /\ EditorInv'
  <1>1. /\ DOMAIN ui' = EditorFields /\ ui'.kind = "config" /\ ui'.data = u.data
        /\ ui'.config = Settings!parseConfig(u.data) /\ ui'.known = u.known
    BY DEF Settings!Shown, EditorFields
  <1>2. /\ Sound([config |-> Settings!parseConfig(u.data), format |-> u.data.format])
        /\ u.data.config # Settings!NoText => Settings!parseConfig(u.data) # Settings!NoText
    BY ParsedSound
  <1> QED
    BY <1>1, <1>2 DEF EditorInv

LEMMA ConfigInit == Settings!Init => ConfigInv
  <1> SUFFICES ASSUME Settings!Init PROVE ConfigInv
    OBVIOUS
  <1>1. ui \in {Settings!NodeConfigEditor, Settings!NodesLog}
    BY DEF Settings!Init
  <1>2. "kind" \in DOMAIN ui /\ EditorInv
    BY <1>1, BlankSound DEF Settings!NodeConfigEditor, Settings!NodesLog,
       Settings!NodesSettingsQuery, EditorInv, EditorFields
  <1>3. DOMAIN net = {"read", "saves"} /\ net.read = <<>> /\ net.saves = {}
    BY DEF Settings!Init
  <1>4. PICK text \in Settings!Texts, format \in Settings!Formats :
          /\ Settings!Parses(text, format)
          /\ db = [data |-> [config |-> text, format |-> format], writes |-> 0,
                   saves |-> 0, lines |-> 0]
    BY DEF Settings!Init
  <1>5. DOMAIN db = {"data", "writes", "saves", "lines"} /\ Sound(db.data)
    BY <1>4, TextsTyped DEF Sound
  <1> QED
    BY <1>2, <1>3, <1>5 DEF ConfigInv

\* A step of the editor leaves the rest alone, or asks for the config again.
LEMMA EditorStep ==
  ASSUME ConfigInv, ui.kind = "config",
         \/ Settings!handleConfigChange \/ Settings!handleEditorValidation
         \/ Settings!ConfigRefetched \/ Settings!ConfigAnswered \/ Settings!ConfigReadFails
  PROVE  "kind" \in DOMAIN ui' /\ EditorInv'
  <1>0. /\ DOMAIN ui = EditorFields
        /\ Sound(ui.data) /\ Sound([config |-> ui.config, format |-> ui.data.format])
        /\ ui.known => ui.config # Settings!NoText /\ ui.data.config # Settings!NoText
    BY DEF ConfigInv, EditorInv
  <1>1. CASE Settings!handleConfigChange
    <2>1. PICK text \in Settings!Texts \cup {Settings!NoText} :
        ui' = IF text = Settings!NoText THEN [ui EXCEPT !.text = text]
              ELSE IF Settings!Parses(text, ui.data.format)
              THEN [ui EXCEPT !.text = text, !.valid = TRUE,
                              !.config = Settings!parseConfig([config |-> text, format |-> ui.data.format])]
              ELSE [ui EXCEPT !.text = text, !.valid = FALSE]
      BY <1>1 DEF Settings!handleConfigChange
    <2> DEFINE parsed == [config |-> text, format |-> ui.data.format]
    <2>2. CASE text # Settings!NoText /\ Settings!Parses(text, ui.data.format)
      <3>1. Sound(parsed)
        BY <1>0, <2>2, TextsTyped DEF Sound
      <3>2. /\ Sound([config |-> Settings!parseConfig(parsed), format |-> ui.data.format])
            /\ Settings!parseConfig(parsed) # Settings!NoText
        BY <2>2, <3>1, ParsedSound
      <3>3. ui' = [ui EXCEPT !.text = text, !.valid = TRUE,
                             !.config = Settings!parseConfig(parsed)]
        BY <2>1, <2>2
      <3> HIDE DEF parsed
      <3>4. /\ DOMAIN ui' = EditorFields /\ ui'.kind = "config" /\ ui'.data = ui.data
            /\ ui'.config = Settings!parseConfig(parsed) /\ ui'.known = ui.known
        BY <1>0, <3>3 DEF EditorFields
      <3> QED
        BY <1>0, <3>2, <3>4 DEF EditorInv, EditorFields
    <2>3. CASE ~(text # Settings!NoText /\ Settings!Parses(text, ui.data.format))
      <3>1. /\ DOMAIN ui' = EditorFields /\ ui'.data = ui.data
            /\ ui'.config = ui.config /\ ui'.known = ui.known
        BY <1>0, <2>1, <2>3 DEF EditorFields
      <3> QED
        BY <1>0, <3>1 DEF EditorInv, EditorFields
    <2> QED
      BY <2>2, <2>3
  <1>2. CASE Settings!handleEditorValidation \/ Settings!ConfigRefetched
    <2>1. /\ DOMAIN ui' = EditorFields /\ ui'.data = ui.data
          /\ ui'.config = ui.config /\ ui'.known = ui.known
      BY <1>0, <1>2 DEF Settings!handleEditorValidation, Settings!ConfigRefetched, EditorFields
    <2> QED
      BY <1>0, <2>1 DEF EditorInv, EditorFields
  <1>3. CASE Settings!ConfigAnswered
    <2> DEFINE u == [ui EXCEPT !.data = net.read[1],
                               !.known = net.read[1].config # Settings!NoText]
    <2>1. ui' = Settings!Shown(u) /\ Sound(net.read[1])
      BY <1>3 DEF Settings!ConfigAnswered, ConfigInv
    <2>2. /\ DOMAIN u = EditorFields /\ u.kind = "config" /\ u.data = net.read[1]
          /\ u.known = (net.read[1].config # Settings!NoText)
      BY <1>0 DEF EditorFields
    <2> HIDE DEF u
    <2>3. ui'.kind = "config" /\ EditorInv'
      BY <2>1, <2>2, ShownSound
    <2> QED
      BY <2>3 DEF EditorInv, EditorFields
  <1>4. CASE Settings!ConfigReadFails
    <2>1. ui'.kind = "config" /\ EditorInv'
      BY <1>0, <1>4, ShownSound DEF Settings!ConfigReadFails
    <2> QED
      BY <2>1 DEF EditorInv, EditorFields
  <1> QED
    BY <1>1, <1>2, <1>3, <1>4

LEMMA LogStep ==
  ASSUME "kind" \in DOMAIN ui, ui.kind = "log",
         \/ Settings!Connected \/ Settings!onMessage \/ Settings!onBuffer
         \/ Settings!Disconnected
  PROVE  "kind" \in DOMAIN ui' /\ EditorInv'
  <1>1. "kind" \in DOMAIN ui' /\ ui'.kind = "log"
    BY DEF Settings!Connected, Settings!onMessage, Settings!onBuffer, Settings!Disconnected
  <1> QED
    BY <1>1 DEF EditorInv

LEMMA ConfigNext == ConfigInv /\ (Settings!Next \/ UNCHANGED Settings!vars) => ConfigInv'
  <1> SUFFICES ASSUME ConfigInv, Settings!Next \/ UNCHANGED Settings!vars PROVE ConfigInv'
    OBVIOUS
  <1>0. /\ "kind" \in DOMAIN ui /\ EditorInv
        /\ DOMAIN db = {"data", "writes", "saves", "lines"} /\ Sound(db.data)
        /\ DOMAIN net = {"read", "saves"}
        /\ net.read # <<>> => Sound(net.read[1])
        /\ \A save \in net.saves : /\ Sound(save)
                                   /\ save.known => save.config # Settings!NoText
    BY DEF ConfigInv
  <1>1. CASE UNCHANGED Settings!vars
    BY <1>0, <1>1 DEF Settings!vars, ConfigInv, EditorInv
  <1>2. CASE \/ Settings!handleConfigChange \/ Settings!handleEditorValidation
             \/ Settings!ConfigRefetched \/ Settings!ConfigAnswered \/ Settings!ConfigReadFails
    <2>1. "kind" \in DOMAIN ui' /\ EditorInv'
      <3>1. ui.kind = "config"
        BY <1>2 DEF Settings!handleConfigChange, Settings!handleEditorValidation,
                    Settings!ConfigRefetched, Settings!ConfigAnswered, Settings!ConfigReadFails
      <3> QED
        BY <1>2, <3>1, EditorStep
    <2>2. db' = db /\ DOMAIN net' = DOMAIN net /\ net'.saves = net.saves
          /\ net'.read \in {net.read, <<>>}
      BY <1>0, <1>2 DEF Settings!handleConfigChange, Settings!handleEditorValidation,
                  Settings!ConfigRefetched, Settings!ConfigAnswered,
                  Settings!ConfigReadFails, Settings!Refetch
    <2> QED
      BY <1>0, <2>1, <2>2 DEF ConfigInv
  <1>3. CASE Settings!handleConfigSave
    <2> DEFINE new == [config |-> ui.config, format |-> ui.data.format, known |-> ui.known]
    <2>1. ui' = ui /\ ui.kind = "config"
      BY <1>3 DEF Settings!handleConfigSave
    <2>2. /\ DOMAIN net' = DOMAIN net /\ net'.read = net.read
          /\ net'.saves = net.saves \cup {new}
      BY <1>0, <1>3 DEF Settings!handleConfigSave
    <2>3. DOMAIN db' = DOMAIN db /\ db'.data = db.data
      BY <1>0, <1>3 DEF Settings!handleConfigSave
    <2>4. Sound(new) /\ (new.known => new.config # Settings!NoText)
      BY <1>0, <2>1 DEF EditorInv, Sound
    <2> HIDE DEF new
    <2> QED
      BY <1>0, <2>1, <2>2, <2>3, <2>4 DEF ConfigInv, EditorInv
  <1>4. CASE Settings!NodeReads
    <2>1. ui' = ui /\ db' = db /\ net' = [net EXCEPT !.read = <<db.data>>]
      BY <1>4 DEF Settings!NodeReads
    <2>2. /\ DOMAIN net' = DOMAIN net /\ net'.saves = net.saves
          /\ net'.read[1] = db.data
      BY <1>0, <2>1
    <2> QED
      BY <1>0, <2>1, <2>2 DEF ConfigInv, EditorInv
  <1>5. ASSUME NEW save \in net.saves, Settings!SaveArrives(save) \/ Settings!SaveFails(save)
        PROVE  ConfigInv'
    <2>1. /\ DOMAIN ui' = DOMAIN ui /\ ui'.kind = ui.kind
          /\ ui.kind = "config" => /\ ui'.data = ui.data /\ ui'.config = ui.config
                                   /\ ui'.known = ui.known
      BY <1>0, <1>5 DEF Settings!SaveArrives, Settings!SaveFails, EditorInv, EditorFields
    <2>2. /\ DOMAIN net' = DOMAIN net /\ net'.saves = net.saves \ {save}
          /\ net'.read \in {net.read, <<>>}
      BY <1>0, <1>5 DEF Settings!SaveArrives, Settings!SaveFails, Settings!Refetch
    <2>3. /\ DOMAIN db' = DOMAIN db
          /\ db'.data \in {db.data, [config |-> save.config, format |-> save.format]}
      BY <1>0, <1>5 DEF Settings!SaveArrives, Settings!SaveFails
    <2>4. Sound(db'.data)
      BY <1>0, <2>3 DEF Sound
    <2> QED
      BY <1>0, <2>1, <2>2, <2>3, <2>4 DEF ConfigInv, EditorInv
  <1>6. CASE Settings!OthersWrite
    <2>1. PICK text \in Settings!Texts, format \in Settings!Formats :
            /\ Settings!Parses(text, format)
            /\ db' = [db EXCEPT !.data = [config |-> text, format |-> format], !.writes = @ + 1]
      BY <1>6 DEF Settings!OthersWrite
    <2>2. /\ DOMAIN db' = DOMAIN db
          /\ db'.data = [config |-> text, format |-> format]
      BY <1>0, <2>1
    <2>3. Sound(db'.data) /\ UNCHANGED <<ui, net>>
      BY <1>6, <2>1, <2>2, TextsTyped DEF Sound, Settings!OthersWrite
    <2> QED
      BY <1>0, <2>2, <2>3 DEF ConfigInv, EditorInv
  <1>7. CASE \/ Settings!Connected \/ Settings!onMessage \/ Settings!onBuffer
             \/ Settings!Disconnected
    <2>1. ui.kind = "log" /\ net' = net /\ DOMAIN db' = DOMAIN db /\ db'.data = db.data
      BY <1>0, <1>7 DEF Settings!Connected, Settings!onMessage, Settings!onBuffer,
                        Settings!Disconnected
    <2>2. "kind" \in DOMAIN ui' /\ EditorInv'
      BY <1>0, <1>7, <2>1, LogStep
    <2> QED
      BY <1>0, <2>1, <2>2 DEF ConfigInv
  <1> QED
    BY <1>1, <1>2, <1>3, <1>4, <1>5, <1>6, <1>7 DEF Settings!Next

\* The page that is open does not change, and only its module acts.
LEMMA OpenStays == [Next]_vars => open' = open
  BY DEF Next, vars

ConfigPage == open = "node settings" => ConfigInv

LEMMA ConfigPageNext == ConfigPage /\ [Next]_vars => ConfigPage'
  <1> SUFFICES ASSUME open = "node settings", ConfigInv, [Next]_vars PROVE ConfigInv'
    BY OpenStays DEF ConfigPage
  <1>1. Settings!Next \/ UNCHANGED Settings!vars
    BY DEF Next, vars, Settings!vars
  <1> QED
    BY <1>1, ConfigNext

\* Whatever the late markers of the editor say, whenever the config is read again
\* while it is edited and whatever others write, a save carries a text that parses
\* in the format it is sent with, and a blank one only as long as no read of the
\* config was answered with another.
THEOREM SavesParse == Spec => []SavedConfigParses
  <1>1. Init => ConfigPage
    BY ConfigInit DEF Init, ConfigPage
  <1>2. ConfigPage => SavedConfigParses
    BY DEF ConfigPage, ConfigInv, Sound, SavedConfigParses, Settings!SavedConfigParses
  <1> QED
    BY <1>1, <1>2, ConfigPageNext, PTL DEF Spec

-----------------------------------------------------------------------------
(* The user form.                                                          *)

FormFields ==
    { "creating", "entity", "zone", "form", "switch", "tab", "picked", "pickedDeadline",
      "days", "services", "plan", "touched", "sent" }
ValueFields == {"limit", "reset", "strategy", "date", "deadline", "duration"}

FormTyped(u) ==
    /\ DOMAIN u = FormFields /\ DOMAIN u.form = ValueFields
    /\ u.entity \in Stored \cup {Form!NoUser}
    /\ ~u.creating => u.entity \in Stored

\* A plan that was clicked and is still the last word is in the form.
PlanKept(u) ==
    u.plan # Form!NoPlan =>
        /\ u.creating /\ u.plan \in QuickPlans
        /\ u.form.limit = Form!Typing(u.plan.gb) /\ u.form.reset = "no_reset"
        /\ u.form.strategy = "fixed_date"
        /\ u.tab # "fixed_date" => u.form.date = u.plan.expires

\* So is what nobody touched, and the fields of the open tab would write nothing else.
StoredKept(u) ==
    ~u.creating =>
        /\ "limit" \notin u.touched =>
              u.form.limit = <<u.entity.limit, Metric>> /\ u.form.reset = u.entity.reset
        /\ ("expiry" \notin u.touched /\ u.zone = 0) =>
              /\ u.tab = u.entity.strategy
              /\ u.form.strategy = u.entity.strategy /\ u.form.date = u.entity.date
              /\ u.form.deadline = u.entity.deadline /\ u.form.duration = u.entity.duration
              /\ u.tab = "fixed_date" => u.picked = u.entity.date
              /\ u.tab = "start_on_first_use" =>
                    u.days = u.entity.duration /\ u.pickedDeadline = u.entity.deadline

Meant(u) == FormTyped(u) /\ PlanKept(u) /\ StoredKept(u)

\* What was sent is what the form holds.
FormInv == Meant(ui) /\ (Form!Open \/ ui.sent = Form!UserSchema(ui.form))

-----------------------------------------------------------------------------
(* The gigabytes of the form are made bytes by rounding a fraction.        *)

LEMMA Quotient ==
  ASSUME NEW a \in Nat, NEW b \in Nat \ {0}
  PROVE  a \div b \in Int /\ b * (a \div b) <= a /\ a < b * (a \div b) + b
  OBVIOUS

LEMMA NextMultiple ==
  ASSUME NEW b \in Nat \ {0}, NEW p \in Int, NEW q \in Int, p < q
  PROVE  b * p + b <= b * q
  <1>1. PICK d \in Nat : q = p + 1 + d
    <2>1. q - p - 1 \in Nat /\ q = p + 1 + (q - p - 1)
      OBVIOUS
    <2> QED
      BY <2>1
  <1>2. b * q = b * p + b + b * d
    BY <1>1
  <1>3. b * d \in Nat /\ b * p \in Int /\ b * q \in Int
    OBVIOUS
  <1> QED
    BY <1>2, <1>3

LEMMA QuotientUnique ==
  ASSUME NEW a \in Nat, NEW b \in Nat \ {0}, NEW q \in Int,
         b * q <= a, a < b * q + b
  PROVE  a \div b = q
  <1> DEFINE p == a \div b
  <1>1. p \in Int /\ b * p <= a /\ a < b * p + b
    BY Quotient
  <1> HIDE DEF p
  <1>2. b * p \in Int /\ b * q \in Int
    BY <1>1
  <1>3. CASE p < q
    BY <1>1, <1>2, <1>3, NextMultiple
  <1>4. CASE q < p
    BY <1>1, <1>2, <1>4, NextMultiple
  <1>5. p = q
    BY <1>1, <1>3, <1>4
  <1> QED
    BY <1>5 DEF p

\* Whole gigabytes become their bytes,
LEMMA TypedBytes ==
  ASSUME NEW f, NEW gb \in Nat, f.limit = Form!Typing(gb)
  PROVE  Form!UserSchema(f).limit = gb * Metric
  <1> DEFINE bytes == gb * Metric
  <1>1. bytes \in Nat /\ 2 * gb * Metric = 2 * bytes
    BY FormAssumption
  <1>2. f.limit[1] = gb /\ f.limit[2] = 1
    BY DEF Form!Typing
  <1>3. Form!UserSchema(f).limit = (2 * gb * Metric + 1) \div (2 * 1)
    BY <1>2 DEF Form!UserSchema
  <1> HIDE DEF bytes
  <1>4. (2 * bytes + 1) \div 2 = bytes
    BY <1>1
  <1> QED
    BY <1>1, <1>3, <1>4 DEF bytes

\* and a limit that was stored comes back as it was.
LEMMA StoredBytes ==
  ASSUME NEW f, NEW limit \in Nat, f.limit = <<limit, Metric>>
  PROVE  Form!UserSchema(f).limit = limit
  <1> DEFINE a == 2 * limit * Metric + Metric
             b == 2 * Metric
  <1>1. Metric \in Nat \ {0}
    BY FormAssumption
  <1>2. b \in Nat \ {0} /\ a \in Nat /\ Metric < b
    BY <1>1
  <1>3. a = b * limit + Metric /\ b * limit \in Int
    BY <1>1
  <1>4. f.limit[1] = limit /\ f.limit[2] = Metric
    OBVIOUS
  <1>5. Form!UserSchema(f).limit = a \div b
    BY <1>4 DEF Form!UserSchema
  <1> HIDE DEF a, b
  <1>6. b * limit <= a /\ a < b * limit + b
    BY <1>1, <1>2, <1>3
  <1> QED
    BY <1>2, <1>5, <1>6, QuotientUnique

\* A stored user has what the form computes with.
LEMMA StoredTyped ==
  ASSUME NEW user \in Stored
  PROVE  /\ user.limit \in Nat /\ user.date \in Nat
         /\ user.deadline \in Nat /\ user.duration \in Nat
  BY FormAssumption

\* The fields of the open tab write into the form what it holds already, unless the
\* expiry was touched or the calendar open as a plan was clicked.
LEMMA RenderedMeant ==
  ASSUME NEW u, Meant(u)
  PROVE  Meant(Form!Rerendered(u))
  <1> DEFINE v == Form!Rerendered(u)
  <1>0. /\ DOMAIN u = FormFields /\ DOMAIN u.form = ValueFields
    BY DEF Meant, FormTyped
  <1>1. CASE u.tab = "fixed_date"
    <2>1. v = [u EXCEPT !.form.date = u.picked]
      BY <1>1 DEF Form!Rerendered
    <2>2. /\ DOMAIN v = FormFields /\ DOMAIN v.form = ValueFields
          /\ v.form.date = u.picked
          /\ \A x \in FormFields \ {"form"} : v[x] = u[x]
          /\ \A x \in ValueFields \ {"date"} : v.form[x] = u.form[x]
      BY <1>0, <2>1 DEF FormFields, ValueFields
    <2> HIDE DEF v
    <2>3. /\ v.creating = u.creating /\ v.entity = u.entity /\ v.zone = u.zone
          /\ v.tab = u.tab /\ v.picked = u.picked /\ v.plan = u.plan
          /\ v.pickedDeadline = u.pickedDeadline /\ v.days = u.days
          /\ v.touched = u.touched
          /\ v.form.limit = u.form.limit /\ v.form.reset = u.form.reset
          /\ v.form.strategy = u.form.strategy /\ v.form.deadline = u.form.deadline
          /\ v.form.duration = u.form.duration
      BY <2>2 DEF FormFields, ValueFields
    <2>4. Meant(v)
      BY <1>1, <2>2, <2>3 DEF Meant, FormTyped, PlanKept, StoredKept
    <2> QED
      BY <2>4 DEF v
  <1>2. CASE u.tab = "start_on_first_use"
    <2>1. v = [u EXCEPT !.form.duration = u.days, !.form.deadline = u.pickedDeadline]
      BY <1>2 DEF Form!Rerendered
    <2> DEFINE w == [u EXCEPT !.form.duration = u.days]
    <2>a. v = [w EXCEPT !.form.deadline = u.pickedDeadline]
      BY <2>1
    <2>b. /\ DOMAIN w = FormFields /\ DOMAIN w.form = ValueFields
          /\ w.form.duration = u.days
          /\ \A x \in FormFields \ {"form"} : w[x] = u[x]
          /\ \A x \in ValueFields \ {"duration"} : w.form[x] = u.form[x]
      BY <1>0 DEF FormFields, ValueFields
    <2> HIDE DEF w
    <2>2. /\ DOMAIN v = FormFields /\ DOMAIN v.form = ValueFields
          /\ v.form.duration = u.days /\ v.form.deadline = u.pickedDeadline
          /\ \A x \in FormFields \ {"form"} : v[x] = u[x]
          /\ \A x \in ValueFields \ {"duration", "deadline"} : v.form[x] = u.form[x]
      BY <2>a, <2>b DEF FormFields, ValueFields
    <2> HIDE DEF v
    <2>3. /\ v.creating = u.creating /\ v.entity = u.entity /\ v.zone = u.zone
          /\ v.tab = u.tab /\ v.picked = u.picked /\ v.plan = u.plan
          /\ v.pickedDeadline = u.pickedDeadline /\ v.days = u.days
          /\ v.touched = u.touched
          /\ v.form.limit = u.form.limit /\ v.form.reset = u.form.reset
          /\ v.form.strategy = u.form.strategy /\ v.form.date = u.form.date
      BY <2>2 DEF FormFields, ValueFields
    <2>4. Meant(v)
      BY <1>2, <2>2, <2>3 DEF Meant, FormTyped, PlanKept, StoredKept
    <2> QED
      BY <2>4 DEF v
  <1>3. CASE u.tab \notin {"fixed_date", "start_on_first_use"}
    BY <1>3 DEF Form!Rerendered
  <1> QED
    BY <1>1, <1>2, <1>3

\* The dialog takes up a stored user whose fields are set to it.
LEMMA ResetMeant ==
  ASSUME NEW u, DOMAIN u = FormFields, u.plan = Form!NoPlan,
         u.entity \in Stored \cup {Form!NoUser},
         ~u.creating =>
           /\ u.entity \in Stored
           /\ ("expiry" \notin u.touched /\ u.zone = 0) =>
                /\ u.tab = u.entity.strategy
                /\ u.tab = "fixed_date" => u.picked = u.entity.date
                /\ u.tab = "start_on_first_use" =>
                      u.days = u.entity.duration /\ u.pickedDeadline = u.entity.deadline
  PROVE  Meant(Form!Reset(u))
  <1> DEFINE v == [u EXCEPT !.form = Form!loadFormatter(u.entity)]
  <1>1. /\ DOMAIN v = FormFields /\ v.form = Form!loadFormatter(u.entity)
        /\ \A x \in FormFields \ {"form"} : v[x] = u[x]
    BY DEF FormFields
  <1> HIDE DEF v
  <1>2. /\ v.creating = u.creating /\ v.entity = u.entity /\ v.zone = u.zone
        /\ v.tab = u.tab /\ v.picked = u.picked /\ v.plan = u.plan
        /\ v.pickedDeadline = u.pickedDeadline /\ v.days = u.days
        /\ v.touched = u.touched
    BY <1>1 DEF FormFields
  <1>3. /\ DOMAIN v.form = ValueFields
        /\ v.form.limit = <<u.entity.limit, Metric>> /\ v.form.reset = u.entity.reset
        /\ v.form.strategy = u.entity.strategy /\ v.form.date = u.entity.date
        /\ v.form.deadline = u.entity.deadline /\ v.form.duration = u.entity.duration
    BY <1>1 DEF Form!loadFormatter, ValueFields
  <1>4. Meant(v)
    BY <1>1, <1>2, <1>3 DEF Meant, FormTyped, PlanKept, StoredKept
  <1> QED
    BY <1>4, RenderedMeant DEF Form!Reset, v

LEMMA FormInit == Form!Init => FormInv
  <1> SUFFICES ASSUME Form!Init PROVE FormInv
    OBVIOUS
  <1>1. PICK zone \in Zones, creating \in BOOLEAN, entity \in Stored \cup {Form!NoUser} :
          /\ ui = Form!UsersMutationDialog(zone, creating, entity)
          /\ ~creating => entity \in Stored
    BY DEF Form!Init
  <1> DEFINE u == [ creating |-> creating, entity |-> entity, zone |-> zone,
                    form |-> Form!loadFormatter(entity), switch |-> entity.limit # 0,
                    tab |-> entity.strategy, picked |-> 0, pickedDeadline |-> 0, days |-> 0,
                    services |-> ~creating, plan |-> Form!NoPlan, touched |-> {},
                    sent |-> Form!NotSent ]
             v == Form!Mounted(u)
  <1>2. ui = Form!Reset(v)
    BY <1>1 DEF Form!UsersMutationDialog
  <1>3. /\ DOMAIN u = FormFields /\ u.creating = creating /\ u.entity = entity
        /\ u.zone = zone /\ u.tab = entity.strategy /\ u.plan = Form!NoPlan
        /\ u.sent = Form!NotSent /\ u.form = Form!loadFormatter(entity)
    BY DEF FormFields
  <1> HIDE DEF u
  <1>4. /\ DOMAIN v = FormFields /\ v.creating = creating /\ v.entity = entity
        /\ v.zone = zone /\ v.tab = entity.strategy /\ v.plan = Form!NoPlan
        /\ v.sent = Form!NotSent
    BY <1>3 DEF Form!Mounted, FormFields
  <1>5. ASSUME zone = 0, entity \in Stored
        PROVE  /\ v.tab = "fixed_date" => v.picked = entity.date
               /\ v.tab = "start_on_first_use" =>
                     v.days = entity.duration /\ v.pickedDeadline = entity.deadline
    <2>1. \A d \in Nat : Form!parseISODate(d, 0) = d
      BY DEF Form!parseISODate
    <2>2. entity.date \in Nat /\ entity.deadline \in Nat /\ entity.duration \in Nat
      BY <1>5, StoredTyped
    <2>3. /\ u.form.date = entity.date /\ u.form.deadline = entity.deadline
          /\ u.form.duration = entity.duration
      BY <1>3 DEF Form!loadFormatter
    <2>4. CASE v.tab = "fixed_date"
      <3>1. v.picked = Form!parseISODate(u.form.date, u.zone)
        BY <1>3, <1>4, <2>4 DEF Form!Mounted, FormFields
      <3> QED
        BY <1>3, <1>5, <2>1, <2>2, <2>3, <2>4, <3>1
    <2>5. CASE v.tab = "start_on_first_use"
      <3>1. /\ v.days = u.form.duration
            /\ v.pickedDeadline = Form!parseISODate(u.form.deadline, u.zone)
        BY <1>3, <1>4, <2>5 DEF Form!Mounted, FormFields
      <3> QED
        BY <1>3, <1>4, <1>5, <2>1, <2>2, <2>3, <2>5, <3>1
    <2> QED
      BY <2>4, <2>5
  <1> HIDE DEF v
  <1>6. Meant(Form!Reset(v))
    BY <1>1, <1>4, <1>5, ResetMeant
  <1>7. Form!Reset(v).sent = Form!NotSent
    BY <1>4 DEF Form!Reset, Form!Rerendered, FormFields
  <1> QED
    BY <1>2, <1>6, <1>7 DEF FormInv, Form!Open

LEMMA RenderedSent ==
  ASSUME NEW u, DOMAIN u = FormFields
  PROVE  Form!Rerendered(u).sent = u.sent
  BY DEF Form!Rerendered, FormFields

\* A step that touches the limit leaves the expiry as it is,
LEMMA LimitTouched ==
  ASSUME Meant(ui), NEW u, DOMAIN u = FormFields, DOMAIN u.form = ValueFields,
         "limit" \in u.touched, "expiry" \in u.touched <=> "expiry" \in ui.touched,
         u.plan = Form!NoPlan,
         u.creating = ui.creating, u.entity = ui.entity, u.zone = ui.zone,
         u.tab = ui.tab, u.picked = ui.picked, u.days = ui.days,
         u.pickedDeadline = ui.pickedDeadline,
         u.form.strategy = ui.form.strategy, u.form.date = ui.form.date,
         u.form.deadline = ui.form.deadline, u.form.duration = ui.form.duration
  PROVE  Meant(u)
  BY DEF Meant, FormTyped, PlanKept, StoredKept

\* and one that touches the expiry the limit.
LEMMA ExpiryTouched ==
  ASSUME Meant(ui), NEW u, DOMAIN u = FormFields, DOMAIN u.form = ValueFields,
         "expiry" \in u.touched, "limit" \in u.touched <=> "limit" \in ui.touched,
         u.plan = Form!NoPlan,
         u.creating = ui.creating, u.entity = ui.entity,
         u.form.limit = ui.form.limit, u.form.reset = ui.form.reset
  PROVE  Meant(u)
  BY DEF Meant, FormTyped, PlanKept, StoredKept

\* What Touch does to a state of the form.
LEMMA TouchDoes ==
  ASSUME NEW u, DOMAIN u = FormFields, NEW what
  PROVE  LET v == Form!Touch(u, what)
         IN  /\ DOMAIN v = FormFields /\ v.touched = u.touched \cup {what}
             /\ v.plan = Form!NoPlan
             /\ \A x \in FormFields \ {"touched", "plan"} : v[x] = u[x]
  BY DEF Form!Touch, FormFields

\* A step of the limit's fields.
LEMMA LimitStep ==
  ASSUME FormInv, Form!Open,
         Form!DataLimitSwitch \/ Form!DataLimitField \/ Form!DataLimitResetStrategyField
  PROVE  FormInv'
  <1>0. Meant(ui) /\ DOMAIN ui = FormFields /\ DOMAIN ui.form = ValueFields
    BY DEF FormInv, Meant, FormTyped
  <1>1. \E u : /\ ui' = Form!Rerendered(u) /\ DOMAIN u = FormFields
               /\ DOMAIN u.form = ValueFields /\ u.touched = ui.touched \cup {"limit"}
               /\ u.plan = Form!NoPlan
               /\ \A x \in FormFields \ {"touched", "plan", "form", "switch"} : u[x] = ui[x]
               /\ \A x \in ValueFields \ {"limit", "reset"} : u.form[x] = ui.form[x]
    <2>1. CASE Form!DataLimitSwitch
      <3> DEFINE a == [ui EXCEPT !.switch = ~@]
                 b == Form!Touch(a, "limit")
                 u == Form!LimitEffect(b)
      <3>1. ui' = Form!Rerendered(u)
        BY <2>1 DEF Form!DataLimitSwitch
      <3>2. DOMAIN a = FormFields /\ \A x \in FormFields \ {"switch"} : a[x] = ui[x]
        BY <1>0 DEF FormFields
      <3> HIDE DEF a
      <3>3. /\ DOMAIN b = FormFields /\ b.touched = a.touched \cup {"limit"}
            /\ b.plan = Form!NoPlan
            /\ \A x \in FormFields \ {"touched", "plan"} : b[x] = a[x]
        BY <3>2, TouchDoes
      <3> HIDE DEF b
      <3>4. b.form = ui.form /\ b.touched = ui.touched \cup {"limit"}
        BY <3>2, <3>3 DEF FormFields
      <3>5. CASE b.switch
        BY <1>0, <3>1, <3>2, <3>3, <3>4, <3>5 DEF Form!LimitEffect
      <3>6. CASE ~b.switch
        <4> DEFINE w == [b EXCEPT !.form.limit = Form!Typing(0)]
        <4>1. u = [w EXCEPT !.form.reset = "no_reset"]
          BY <3>6 DEF Form!LimitEffect
        <4>2. /\ DOMAIN w = FormFields /\ DOMAIN w.form = ValueFields
              /\ \A x \in FormFields \ {"form"} : w[x] = b[x]
              /\ \A x \in ValueFields \ {"limit"} : w.form[x] = ui.form[x]
          BY <1>0, <3>3, <3>4 DEF FormFields, ValueFields
        <4> HIDE DEF w
        <4>3. /\ DOMAIN u = FormFields /\ DOMAIN u.form = ValueFields
              /\ \A x \in FormFields \ {"form"} : u[x] = b[x]
              /\ \A x \in ValueFields \ {"limit", "reset"} : u.form[x] = ui.form[x]
          BY <4>1, <4>2 DEF FormFields, ValueFields
        <4> HIDE DEF u
        <4>4. /\ u.touched = ui.touched \cup {"limit"} /\ u.plan = Form!NoPlan
              /\ \A x \in FormFields \ {"touched", "plan", "form", "switch"} : u[x] = ui[x]
          BY <3>2, <3>3, <3>4, <4>3 DEF FormFields
        <4> QED
          BY <3>1, <4>3, <4>4
      <3> QED
        BY <3>5, <3>6
    <2>2. CASE Form!DataLimitField \/ Form!DataLimitResetStrategyField
      <3>1. PICK a : /\ ui' = Form!Rerendered(Form!Touch(a, "limit")) /\ DOMAIN a = FormFields
                     /\ DOMAIN a.form = ValueFields
                     /\ \A x \in FormFields \ {"form"} : a[x] = ui[x]
                     /\ \A x \in ValueFields \ {"limit", "reset"} : a.form[x] = ui.form[x]
        <4>1. CASE Form!DataLimitField
          <5>1. PICK gb \in Limits : ui' = Form!Rerendered(Form!Touch(
                                       [ui EXCEPT !.form.limit = Form!Typing(gb)], "limit"))
            BY <4>1 DEF Form!DataLimitField
          <5> DEFINE a == [ui EXCEPT !.form.limit = Form!Typing(gb)]
          <5>2. /\ DOMAIN a = FormFields /\ DOMAIN a.form = ValueFields
                /\ \A x \in FormFields \ {"form"} : a[x] = ui[x]
                /\ \A x \in ValueFields \ {"limit"} : a.form[x] = ui.form[x]
            BY <1>0 DEF FormFields, ValueFields
          <5> HIDE DEF a
          <5> QED
            BY <5>1, <5>2 DEF a
        <4>2. CASE Form!DataLimitResetStrategyField
          <5>1. PICK reset : ui' = Form!Rerendered(Form!Touch(
                               [ui EXCEPT !.form.reset = reset], "limit"))
            BY <4>2 DEF Form!DataLimitResetStrategyField
          <5> DEFINE a == [ui EXCEPT !.form.reset = reset]
          <5>2. /\ DOMAIN a = FormFields /\ DOMAIN a.form = ValueFields
                /\ \A x \in FormFields \ {"form"} : a[x] = ui[x]
                /\ \A x \in ValueFields \ {"reset"} : a.form[x] = ui.form[x]
            BY <1>0 DEF FormFields, ValueFields
          <5> HIDE DEF a
          <5> QED
            BY <5>1, <5>2 DEF a
        <4> QED
          BY <2>2, <4>1, <4>2
      <3> DEFINE u == Form!Touch(a, "limit")
      <3>2. /\ DOMAIN u = FormFields /\ u.touched = a.touched \cup {"limit"}
            /\ u.plan = Form!NoPlan
            /\ \A x \in FormFields \ {"touched", "plan"} : u[x] = a[x]
        BY <3>1, TouchDoes
      <3> HIDE DEF u
      <3>3. /\ u.form = a.form /\ u.touched = ui.touched \cup {"limit"}
            /\ \A x \in FormFields \ {"touched", "plan", "form", "switch"} : u[x] = ui[x]
        BY <3>1, <3>2 DEF FormFields
      <3>4. ui' = Form!Rerendered(u)
        BY <3>1 DEF u
      <3> QED
        BY <3>1, <3>2, <3>3, <3>4
    <2> QED
      BY <2>1, <2>2
  <1>2. PICK u : /\ ui' = Form!Rerendered(u) /\ DOMAIN u = FormFields
                 /\ DOMAIN u.form = ValueFields /\ u.touched = ui.touched \cup {"limit"}
                 /\ u.plan = Form!NoPlan
                 /\ \A x \in FormFields \ {"touched", "plan", "form", "switch"} : u[x] = ui[x]
                 /\ \A x \in ValueFields \ {"limit", "reset"} : u.form[x] = ui.form[x]
    BY <1>1
  <1>3. /\ u.creating = ui.creating /\ u.entity = ui.entity /\ u.zone = ui.zone
        /\ u.tab = ui.tab /\ u.picked = ui.picked /\ u.days = ui.days
        /\ u.pickedDeadline = ui.pickedDeadline /\ u.sent = ui.sent
        /\ u.form.strategy = ui.form.strategy /\ u.form.date = ui.form.date
        /\ u.form.deadline = ui.form.deadline /\ u.form.duration = ui.form.duration
    BY <1>2 DEF FormFields, ValueFields
  <1>4. Meant(u)
    BY <1>0, <1>2, <1>3, LimitTouched
  <1> QED
    BY <1>2, <1>3, <1>4, RenderedMeant, RenderedSent DEF FormInv, Form!Open

\* A step of the expiry's fields.
LEMMA ExpiryStep ==
  ASSUME FormInv, Form!Open,
         \/ \E tab \in {"fixed_date", "start_on_first_use", "never"} :
               Form!ExpirationMethodFields(tab)
         \/ Form!ExpireDateField \/ Form!ActivationDeadlineField \/ Form!UsageDurationField
  PROVE  FormInv'
  <1>0. Meant(ui) /\ DOMAIN ui = FormFields /\ DOMAIN ui.form = ValueFields
    BY DEF FormInv, Meant, FormTyped
  <1> DEFINE Like(u) == /\ DOMAIN u = FormFields /\ DOMAIN u.form = ValueFields
                        /\ u.touched = ui.touched \cup {"expiry"} /\ u.plan = Form!NoPlan
                        /\ u.creating = ui.creating /\ u.entity = ui.entity
                        /\ u.sent = ui.sent
                        /\ u.form.limit = ui.form.limit /\ u.form.reset = ui.form.reset
  <1>1. ASSUME NEW u, Like(u) PROVE Meant(u)
    BY <1>0, <1>1, ExpiryTouched
  <1>2. ASSUME NEW a, DOMAIN a = FormFields,
               \A x \in FormFields \ {"tab", "picked", "pickedDeadline", "days"} : a[x] = ui[x]
        PROVE  Like(Form!Touch(a, "expiry"))
    <2> DEFINE u == Form!Touch(a, "expiry")
    <2>1. /\ DOMAIN u = FormFields /\ u.touched = a.touched \cup {"expiry"}
          /\ u.plan = Form!NoPlan
          /\ \A x \in FormFields \ {"touched", "plan"} : u[x] = a[x]
      BY <1>2, TouchDoes
    <2> HIDE DEF u
    <2>2. u.form = ui.form /\ u.touched = ui.touched \cup {"expiry"}
          /\ u.creating = ui.creating /\ u.entity = ui.entity /\ u.sent = ui.sent
      BY <1>2, <2>1 DEF FormFields
    <2>3. Like(u)
      BY <1>0, <2>1, <2>2
    <2> QED
      BY <2>3 DEF u
  <1>3. CASE Form!ExpireDateField \/ Form!ActivationDeadlineField \/ Form!UsageDurationField
    <2>1. \E a : /\ ui' = Form!Rerendered(Form!Touch(a, "expiry")) /\ DOMAIN a = FormFields
                 /\ \A x \in FormFields \ {"tab", "picked", "pickedDeadline", "days"} :
                       a[x] = ui[x]
      <3>1. CASE Form!ExpireDateField
        <4>1. PICK date : ui' = Form!Rerendered(Form!Touch([ui EXCEPT !.picked = date], "expiry"))
          BY <3>1 DEF Form!ExpireDateField
        <4>2. LET a == [ui EXCEPT !.picked = date]
              IN  DOMAIN a = FormFields /\ \A x \in FormFields \ {"picked"} : a[x] = ui[x]
          BY <1>0
        <4> QED
          BY <4>1, <4>2
      <3>2. CASE Form!ActivationDeadlineField
        <4>1. PICK date : ui' = Form!Rerendered(Form!Touch(
                                  [ui EXCEPT !.pickedDeadline = date], "expiry"))
          BY <3>2 DEF Form!ActivationDeadlineField
        <4>2. LET a == [ui EXCEPT !.pickedDeadline = date]
              IN  DOMAIN a = FormFields
                    /\ \A x \in FormFields \ {"pickedDeadline"} : a[x] = ui[x]
          BY <1>0
        <4> QED
          BY <4>1, <4>2
      <3>3. CASE Form!UsageDurationField
        <4>1. PICK days : ui' = Form!Rerendered(Form!Touch([ui EXCEPT !.days = days], "expiry"))
          BY <3>3 DEF Form!UsageDurationField
        <4>2. LET a == [ui EXCEPT !.days = days]
              IN  DOMAIN a = FormFields /\ \A x \in FormFields \ {"days"} : a[x] = ui[x]
          BY <1>0
        <4> QED
          BY <4>1, <4>2
      <3> QED
        BY <1>3, <3>1, <3>2, <3>3
    <2>2. PICK a : /\ ui' = Form!Rerendered(Form!Touch(a, "expiry")) /\ DOMAIN a = FormFields
                   /\ \A x \in FormFields \ {"tab", "picked", "pickedDeadline", "days"} :
                         a[x] = ui[x]
      BY <2>1
    <2>3. Like(Form!Touch(a, "expiry"))
      BY <1>2, <2>2
    <2>4. Meant(Form!Touch(a, "expiry"))
      BY <1>1, <2>3
    <2> QED
      BY <2>2, <2>3, <2>4, RenderedMeant, RenderedSent DEF FormInv, Form!Open
  <1>4. ASSUME NEW tab, Form!ExpirationMethodFields(tab)
        PROVE  FormInv'
    <2> DEFINE a == [ui EXCEPT !.tab = tab]
               b == Form!Touch(a, "expiry")
               c == Form!Mounted(b)
               d == Form!Rerendered(c)
    <2>1. ui' = Form!Applied(d)
      BY <1>4 DEF Form!ExpirationMethodFields
    <2>2. DOMAIN a = FormFields /\ \A x \in FormFields \ {"tab"} : a[x] = ui[x]
      BY <1>0
    <2> HIDE DEF a
    <2>3. Like(b)
      BY <1>2, <2>2
    <2> HIDE DEF b
    <2>4. Like(c)
      BY <2>3 DEF Form!Mounted, FormFields
    <2> HIDE DEF c
    <2>5. Like(d)
      <3>1. CASE c.tab = "fixed_date"
        BY <2>4, <3>1 DEF Form!Rerendered, FormFields, ValueFields
      <3>2. CASE c.tab = "start_on_first_use"
        <4> DEFINE w == [c EXCEPT !.form.duration = c.days]
        <4>1. d = [w EXCEPT !.form.deadline = c.pickedDeadline]
          BY <3>2 DEF Form!Rerendered
        <4>2. Like(w)
          BY <2>4 DEF FormFields, ValueFields
        <4> HIDE DEF w, d
        <4> QED
          BY <4>1, <4>2 DEF FormFields, ValueFields
      <3>3. CASE c.tab \notin {"fixed_date", "start_on_first_use"}
        BY <2>4, <3>3 DEF Form!Rerendered
      <3> QED
        BY <3>1, <3>2, <3>3
    <2> HIDE DEF d
    <2>6. Like(Form!Applied(d))
      <3> DEFINE s == [d EXCEPT !.form.strategy = d.tab]
      <3>1. Like(s)
        BY <2>5 DEF FormFields, ValueFields
      <3>2. CASE d.tab = "fixed_date"
        <4> DEFINE t == [s EXCEPT !.form.duration = 0]
        <4>1. Form!Applied(d) = [t EXCEPT !.form.deadline = 0]
          BY <3>2 DEF Form!Applied
        <4> HIDE DEF s
        <4>2. Like(t)
          BY <3>1 DEF FormFields, ValueFields
        <4> HIDE DEF t
        <4> QED
          BY <4>1, <4>2 DEF FormFields, ValueFields
      <3>3. CASE d.tab = "never"
        <4> DEFINE t == [s EXCEPT !.form.date = 0]
                   w == [t EXCEPT !.form.deadline = 0]
        <4>1. Form!Applied(d) = [w EXCEPT !.form.duration = 0]
          BY <3>3 DEF Form!Applied
        <4> HIDE DEF s
        <4>2. Like(t)
          BY <3>1 DEF FormFields, ValueFields
        <4> HIDE DEF t
        <4>3. Like(w)
          BY <4>2 DEF FormFields, ValueFields
        <4> HIDE DEF w
        <4> QED
          BY <4>1, <4>3 DEF FormFields, ValueFields
      <3>4. CASE d.tab \notin {"fixed_date", "never"}
        BY <3>1, <3>4 DEF Form!Applied
      <3> QED
        BY <3>2, <3>3, <3>4
    <2>7. Like(ui')
      BY <2>1, <2>6
    <2>8. Meant(ui')
      BY <1>1, <2>7
    <2> QED
      BY <2>7, <2>8 DEF FormInv, Form!Open, Meant, FormTyped, PlanKept, StoredKept
  <1> QED
    BY <1>3, <1>4

LEMMA PlanStep ==
  ASSUME FormInv, NEW plan \in QuickPlans, Form!QuickPlan(plan)
  PROVE  FormInv'
  <1>0. /\ DOMAIN ui = FormFields /\ DOMAIN ui.form = ValueFields
        /\ Form!Open /\ ui.creating /\ ui.entity \in Stored \cup {Form!NoUser}
    BY DEF FormInv, Meant, FormTyped, Form!QuickPlan
  <1> DEFINE a == [ui EXCEPT !.form.limit = Form!Typing(plan.gb)]
             b == [a EXCEPT !.form.reset = "no_reset"]
             c == [b EXCEPT !.form.strategy = "fixed_date"]
             d == [c EXCEPT !.form.date = plan.expires]
             e == [d EXCEPT !.plan = plan]
             Like(u) == /\ DOMAIN u = FormFields /\ DOMAIN u.form = ValueFields
                        /\ \A x \in FormFields \ {"form", "plan"} : u[x] = ui[x]
  <1>1. ui' = Form!Rerendered(e)
    BY DEF Form!QuickPlan
  <1>2. Like(a) /\ a.form.limit = Form!Typing(plan.gb)
    BY <1>0 DEF FormFields, ValueFields
  <1> HIDE DEF a
  <1>3. Like(b) /\ b.form.limit = Form!Typing(plan.gb) /\ b.form.reset = "no_reset"
    BY <1>2 DEF FormFields, ValueFields
  <1> HIDE DEF b
  <1>4. /\ Like(c) /\ c.form.limit = Form!Typing(plan.gb) /\ c.form.reset = "no_reset"
        /\ c.form.strategy = "fixed_date"
    BY <1>3 DEF FormFields, ValueFields
  <1> HIDE DEF c
  <1>5. /\ Like(d) /\ d.form.limit = Form!Typing(plan.gb) /\ d.form.reset = "no_reset"
        /\ d.form.strategy = "fixed_date" /\ d.form.date = plan.expires
    BY <1>4 DEF FormFields, ValueFields
  <1> HIDE DEF d
  <1>6. Like(e) /\ e.form = d.form /\ e.plan = plan
    BY <1>5 DEF FormFields
  <1> HIDE DEF e
  <1>7. e.creating = ui.creating /\ e.entity = ui.entity /\ e.sent = ui.sent
    BY <1>6 DEF FormFields
  <1>8. Meant(e)
    BY <1>0, <1>5, <1>6, <1>7 DEF Meant, FormTyped, PlanKept, StoredKept
  <1>9. ui'.sent = ui.sent
    BY <1>1, <1>6, <1>7, RenderedSent
  <1> QED
    BY <1>0, <1>1, <1>8, <1>9, RenderedMeant DEF FormInv, Form!Open

LEMMA FormNext == FormInv /\ (Form!Next \/ UNCHANGED ui) => FormInv'
  <1> SUFFICES ASSUME FormInv, Form!Next \/ UNCHANGED ui PROVE FormInv'
    OBVIOUS
  <1>0. Meant(ui) /\ DOMAIN ui = FormFields /\ DOMAIN ui.form = ValueFields
    BY DEF FormInv, Meant, FormTyped
  <1>1. CASE UNCHANGED ui
    BY <1>1 DEF FormInv, Form!Open
  <1>2. ASSUME NEW plan \in QuickPlans, Form!QuickPlan(plan)
        PROVE  FormInv'
    BY <1>2, PlanStep
  <1>3. CASE Form!DataLimitSwitch \/ Form!DataLimitField \/ Form!DataLimitResetStrategyField
    BY <1>3, LimitStep DEF Form!DataLimitSwitch, Form!DataLimitField,
                           Form!DataLimitResetStrategyField
  <1>4. CASE \/ \E tab \in {"fixed_date", "start_on_first_use", "never"} :
                   Form!ExpirationMethodFields(tab)
             \/ Form!ExpireDateField \/ Form!ActivationDeadlineField
             \/ Form!UsageDurationField
    BY <1>4, ExpiryStep DEF Form!ExpirationMethodFields, Form!ExpireDateField,
                            Form!ActivationDeadlineField, Form!UsageDurationField
  <1>5. ASSUME NEW u, DOMAIN u = FormFields, \A x \in FormFields \ {"services", "sent"} : u[x] = ui[x]
        PROVE  Meant(u)
    <2>1. /\ u.creating = ui.creating /\ u.entity = ui.entity /\ u.zone = ui.zone
          /\ u.tab = ui.tab /\ u.picked = ui.picked /\ u.plan = ui.plan
          /\ u.pickedDeadline = ui.pickedDeadline /\ u.days = ui.days
          /\ u.touched = ui.touched /\ u.form = ui.form
      BY <1>5 DEF FormFields
    <2> QED
      BY <1>0, <1>5, <2>1 DEF Meant, FormTyped, PlanKept, StoredKept
  <1>6. CASE Form!ServicesField
    <2>1. /\ DOMAIN ui' = FormFields
          /\ \A x \in FormFields \ {"services", "sent"} : ui'[x] = ui[x]
          /\ ui'.sent = ui.sent
      BY <1>0, <1>6 DEF Form!ServicesField, FormFields
    <2>2. Meant(ui')
      BY <1>5, <2>1
    <2>3. Form!Open'
      BY <1>6, <2>1 DEF Form!ServicesField, Form!Open
    <2> QED
      BY <2>2, <2>3 DEF FormInv, Meant, FormTyped, PlanKept, StoredKept
  <1>7. CASE Form!Refetched
    <2> DEFINE u == [ui EXCEPT !.services = TRUE]
    <2>1. ui' = Form!Reset(u) /\ Form!Open /\ ~ui.creating
      BY <1>7 DEF Form!Refetched
    <2>2. /\ DOMAIN u = FormFields /\ \A x \in FormFields \ {"services", "sent"} : u[x] = ui[x]
          /\ u.sent = ui.sent
      BY <1>0 DEF FormFields
    <2> HIDE DEF u
    <2>3. Meant(u) /\ u.creating = ui.creating
      BY <1>5, <2>2 DEF FormFields
    <2>4. Meant(Form!Reset(u))
      BY <2>1, <2>2, <2>3, ResetMeant DEF Meant, FormTyped, PlanKept, StoredKept
    <2>5. Form!Reset(u).sent = u.sent
      <3> DEFINE v == [u EXCEPT !.form = Form!loadFormatter(u.entity)]
      <3>1. DOMAIN v = FormFields /\ v.sent = u.sent /\ Form!Reset(u) = Form!Rerendered(v)
        BY <2>2 DEF FormFields, Form!Reset
      <3> HIDE DEF v
      <3> QED
        BY <3>1, RenderedSent
    <2> QED
      BY <2>1, <2>2, <2>4, <2>5 DEF FormInv, Form!Open
  <1>8. CASE Form!Submit
    <2>1. CASE ui.services
      <3>1. ui' = [ui EXCEPT !.sent = Form!UserSchema(ui.form)]
        BY <1>8, <2>1 DEF Form!Submit
      <3>2. /\ DOMAIN ui' = FormFields
            /\ \A x \in FormFields \ {"services", "sent"} : ui'[x] = ui[x]
            /\ ui'.form = ui.form /\ ui'.sent = Form!UserSchema(ui.form)
        BY <1>0, <3>1 DEF FormFields
      <3>3. Meant(ui')
        BY <1>5, <3>2
      <3>4. ui'.sent = Form!UserSchema(ui'.form)
        BY <3>2
      <3> QED
        BY <3>3, <3>4 DEF FormInv, Meant, FormTyped, PlanKept, StoredKept, Form!UserSchema
    <2>2. CASE ~ui.services
      <3>1. ui' = Form!Rerendered(ui) /\ Form!Open
        BY <1>8, <2>2 DEF Form!Submit
      <3> QED
        BY <1>0, <3>1, RenderedMeant, RenderedSent DEF FormInv, Form!Open
    <2> QED
      BY <2>1, <2>2
  <1> QED
    BY <1>1, <1>2, <1>3, <1>4, <1>6, <1>7, <1>8 DEF Form!Next

\* What is sent is what the form holds, with its bytes.
LEMMA FormSends == FormInv => Form!SentAsMeant
  <1> SUFFICES ASSUME FormInv, ~Form!Open
               PROVE  Form!PlanArrives /\ Form!UntouchedStays
    BY DEF Form!SentAsMeant
  <1>0. Meant(ui) /\ ui.sent = Form!UserSchema(ui.form)
    BY DEF FormInv
  <1>1. /\ ui.sent.reset = ui.form.reset /\ ui.sent.strategy = ui.form.strategy
        /\ ui.sent.date = ui.form.date /\ ui.sent.deadline = ui.form.deadline
        /\ ui.sent.duration = ui.form.duration
    BY <1>0 DEF Form!UserSchema
  <1>2. Form!PlanArrives
    <2> SUFFICES ASSUME ui.plan # Form!NoPlan PROVE Form!PlanArrives
      BY DEF Form!PlanArrives
    <2>1. /\ ui.plan.gb \in Nat /\ ui.form.limit = Form!Typing(ui.plan.gb)
          /\ ui.form.reset = "no_reset" /\ ui.form.strategy = "fixed_date"
          /\ ui.tab # "fixed_date" => ui.form.date = ui.plan.expires
      BY <1>0, FormAssumption DEF Meant, PlanKept
    <2>2. ui.sent.limit = ui.plan.gb * Metric
      BY <1>0, <2>1, TypedBytes
    <2> QED
      BY <1>1, <2>1, <2>2 DEF Form!PlanArrives
  <1>3. Form!UntouchedStays
    <2> SUFFICES ASSUME ~ui.creating PROVE Form!UntouchedStays
      BY DEF Form!UntouchedStays
    <2>1. ui.entity \in Stored
      BY <1>0 DEF Meant, FormTyped
    <2>2. "limit" \notin ui.touched =>
             ui.sent.limit = ui.entity.limit /\ ui.form.reset = ui.entity.reset
      <3> SUFFICES ASSUME "limit" \notin ui.touched
                   PROVE  ui.sent.limit = ui.entity.limit /\ ui.form.reset = ui.entity.reset
        OBVIOUS
      <3>1. ui.form.limit = <<ui.entity.limit, Metric>> /\ ui.form.reset = ui.entity.reset
        BY <1>0 DEF Meant, StoredKept
      <3>2. ui.entity.limit \in Nat
        BY <2>1, StoredTyped
      <3> QED
        BY <1>0, <3>1, <3>2, StoredBytes
    <2> QED
      BY <1>0, <1>1, <2>2 DEF Meant, StoredKept, Form!UntouchedStays
  <1> QED
    BY <1>2, <1>3

-----------------------------------------------------------------------------
(* The billing dialogs.                                                    *)

DialogFields == {"kind", "open", "row", "opening", "form", "pending", "readable", "shown"}
RequestFields == {"row", "value", "secret", "opening", "mine"}

DialogInv ==
    /\ DOMAIN ui = DialogFields /\ DOMAIN ui.form = {"value", "secret"}
    /\ \A r \in net : DOMAIN r = RequestFields
    /\ ui.kind # "invoice" =>
          /\ ui.form.value \in {Dialogs!Blank, Dialogs!OfRow(ui.row), Dialogs!Typed(ui.opening)}
          /\ ui.form.secret \in {Dialogs!Blank, Dialogs!Typed(ui.opening)}
    /\ Dialogs!NothingLeftOver

LEMMA DialogInit == Dialogs!Init => DialogInv
  BY DEF Dialogs!Init, Dialogs!Table, Dialogs!EmptyForm, DialogInv, DialogFields,
         RequestFields, Dialogs!NothingLeftOver

\* A form that is filled holds the row of the dialog, or nothing.
LEMMA FilledWith ==
  ASSUME NEW u, DOMAIN u = DialogFields, u.open, u.kind # "invoice"
  PROVE  LET v == Dialogs!Fill(u)
         IN  /\ DOMAIN v = DialogFields /\ DOMAIN v.form = {"value", "secret"}
             /\ v.kind = u.kind /\ v.row = u.row /\ v.opening = u.opening
             /\ v.form.value \in {Dialogs!Blank, Dialogs!OfRow(u.row)}
             /\ v.form.secret = Dialogs!Blank
  <1> DEFINE form == Dialogs!FilledForm(u.row)
             v == Dialogs!Fill(u)
  <1>1. /\ DOMAIN form = {"value", "secret"} /\ form.secret = Dialogs!Blank
        /\ form.value \in {Dialogs!Blank, Dialogs!OfRow(u.row)}
    BY DEF Dialogs!FilledForm, Dialogs!EmptyForm
  <1>2. v = [u EXCEPT !.form = form]
    BY DEF Dialogs!Fill
  <1> HIDE DEF form, v
  <1>3. /\ DOMAIN v = DialogFields /\ v.form = form
        /\ v.kind = u.kind /\ v.row = u.row /\ v.opening = u.opening
    BY <1>2 DEF DialogFields
  <1> QED
    BY <1>1, <1>3 DEF v

\* A step of the dialog that sends nothing.
LEMMA DialogKept ==
  ASSUME DialogInv, net' = net, DOMAIN ui' = DialogFields,
         DOMAIN ui'.form = {"value", "secret"}, ui'.kind = ui.kind,
         ui.kind # "invoice" =>
           /\ ui'.form.value \in {Dialogs!Blank, Dialogs!OfRow(ui'.row), Dialogs!Typed(ui'.opening)}
           /\ ui'.form.secret \in {Dialogs!Blank, Dialogs!Typed(ui'.opening)}
  PROVE  DialogInv'
  BY DEF DialogInv, Dialogs!NothingLeftOver

LEMMA DialogNext == DialogInv /\ (Dialogs!Next \/ UNCHANGED Dialogs!vars) => DialogInv'
  <1> SUFFICES ASSUME DialogInv, Dialogs!Next \/ UNCHANGED Dialogs!vars PROVE DialogInv'
    OBVIOUS
  <1>0. /\ DOMAIN ui = DialogFields /\ DOMAIN ui.form = {"value", "secret"}
        /\ \A r \in net : DOMAIN r = RequestFields
        /\ ui.kind # "invoice" =>
              /\ ui.form.value \in {Dialogs!Blank, Dialogs!OfRow(ui.row), Dialogs!Typed(ui.opening)}
              /\ ui.form.secret \in {Dialogs!Blank, Dialogs!Typed(ui.opening)}
              /\ \A r \in net :
                    /\ r.value \in {Dialogs!OfRow(r.row), Dialogs!Typed(r.opening)}
                    /\ r.secret \in {Dialogs!Blank, Dialogs!Typed(r.opening)}
    BY DEF DialogInv, Dialogs!NothingLeftOver
  <1>1. CASE UNCHANGED Dialogs!vars
    BY <1>1 DEF Dialogs!vars, DialogInv, Dialogs!NothingLeftOver
  <1>2. ASSUME NEW row, ui' = Dialogs!Dialog(row), net' = net
        PROVE  DialogInv'
    <2> DEFINE u == [ui EXCEPT !.open = TRUE, !.row = row, !.opening = @ + 1,
                               !.shown = "nothing"]
    <2>1. /\ DOMAIN u = DialogFields /\ u.kind = ui.kind /\ u.open /\ u.form = ui.form
      BY <1>0 DEF DialogFields
    <2>2. ui' = Dialogs!Fill(u)
      BY <1>2 DEF Dialogs!Dialog
    <2> HIDE DEF u
    <2>3. CASE u.kind = "invoice"
      <3>1. ui' = u
        BY <2>2, <2>3 DEF Dialogs!Fill
      <3> QED
        BY <1>0, <1>2, <2>1, <2>3, <3>1, DialogKept
    <2>4. CASE u.kind # "invoice"
      <3>1. /\ DOMAIN ui' = DialogFields /\ DOMAIN ui'.form = {"value", "secret"}
            /\ ui'.kind = u.kind /\ ui'.row = u.row
            /\ ui'.form.value \in {Dialogs!Blank, Dialogs!OfRow(u.row)}
            /\ ui'.form.secret = Dialogs!Blank
        BY <2>1, <2>2, <2>4, FilledWith
      <3> QED
        BY <1>2, <2>1, <3>1, DialogKept
    <2> QED
      BY <2>3, <2>4
  <1>3. CASE \/ Dialogs!OpenCreate
             \/ \E row \in Rows : Dialogs!OpenEdit(row) \/ Dialogs!OpenDetail(row)
    BY <1>2, <1>3 DEF Dialogs!OpenCreate, Dialogs!OpenEdit, Dialogs!OpenDetail
  <1>4. CASE Dialogs!Type \/ Dialogs!TypeSecret
    <2>1. /\ DOMAIN ui' = DialogFields /\ DOMAIN ui'.form = {"value", "secret"}
          /\ ui'.kind = ui.kind /\ ui'.row = ui.row /\ ui'.opening = ui.opening
          /\ ui'.form.value \in {ui.form.value, Dialogs!Typed(ui.opening)}
          /\ ui'.form.secret \in {ui.form.secret, Dialogs!Typed(ui.opening)}
          /\ net' = net
      BY <1>0, <1>4 DEF Dialogs!Type, Dialogs!TypeSecret, DialogFields
    <2> QED
      BY <1>0, <2>1, DialogKept
  <1>5. CASE Dialogs!Close \/ Dialogs!InvoiceRead
    <2>1. /\ DOMAIN ui' = DialogFields /\ ui'.form = ui.form /\ ui'.kind = ui.kind
          /\ ui'.row = ui.row /\ ui'.opening = ui.opening /\ net' = net
      BY <1>0, <1>5 DEF Dialogs!Close, Dialogs!InvoiceRead, DialogFields
    <2> QED
      BY <1>0, <2>1, DialogKept
  <1>6. CASE Dialogs!PlanSubmit \/ Dialogs!ChannelSubmit \/ Dialogs!InvoiceAction
    <2> DEFINE new == Dialogs!Request
    <2>1. /\ net' = net \cup {new} /\ ui.form.value # Dialogs!Blank
          /\ ui' = [ui EXCEPT !.pending = TRUE]
      BY <1>6 DEF Dialogs!PlanSubmit, Dialogs!ChannelSubmit, Dialogs!InvoiceAction, Dialogs!Send
    <2>2. /\ DOMAIN ui' = DialogFields /\ ui'.form = ui.form /\ ui'.kind = ui.kind
          /\ ui'.row = ui.row /\ ui'.opening = ui.opening
      BY <1>0, <2>1 DEF DialogFields
    <2>3. /\ DOMAIN new = RequestFields /\ new.value = ui.form.value
          /\ new.secret = ui.form.secret /\ new.row = ui.row /\ new.opening = ui.opening
      BY DEF Dialogs!Request, RequestFields
    <2> HIDE DEF new
    <2> QED
      BY <1>0, <2>1, <2>2, <2>3 DEF DialogInv, Dialogs!NothingLeftOver
  <1>7. ASSUME NEW r \in net, Dialogs!SubmitAnswered(r) \/ Dialogs!SubmitFails(r)
        PROVE  DialogInv'
    <2>1. /\ DOMAIN ui' = DialogFields /\ ui'.kind = ui.kind
          /\ ui'.row = ui.row /\ ui'.opening = ui.opening
          /\ DOMAIN ui'.form = {"value", "secret"} /\ ui'.form.secret = ui.form.secret
          /\ ui.kind # "invoice" => ui'.form.value = ui.form.value
          /\ net' = net \ {r}
      <3>1. CASE Dialogs!SubmitAnswered(r)
        <4> DEFINE mine == ui.pending /\ ~r.mine
                   value == IF ui.kind = "invoice" THEN Dialogs!Blank ELSE ui.form.value
                   a == [ui EXCEPT !.open = FALSE]
                   b == [a EXCEPT !.pending = mine]
        <4>1. ui' = [b EXCEPT !.form.value = value] /\ net' = net \ {r}
          BY <3>1 DEF Dialogs!SubmitAnswered
        <4> HIDE DEF mine
        <4>2. DOMAIN b = DialogFields /\ \A x \in DialogFields \ {"open", "pending"} : b[x] = ui[x]
          BY <1>0
        <4> HIDE DEF b
        <4> QED
          BY <1>0, <4>1, <4>2 DEF DialogFields
      <3>2. CASE Dialogs!SubmitFails(r)
        <4> DEFINE mine == ui.pending /\ ~r.mine
        <4>1. ui' = [ui EXCEPT !.pending = mine] /\ net' = net \ {r}
          BY <3>2 DEF Dialogs!SubmitFails
        <4> HIDE DEF mine
        <4> QED
          BY <1>0, <4>1 DEF DialogFields
      <3> QED
        BY <1>7, <3>1, <3>2
    <2> QED
      BY <1>0, <2>1 DEF DialogInv, Dialogs!NothingLeftOver
  <1>8. CASE Dialogs!RowsReadFails
    <2>1. /\ DOMAIN ui' = DialogFields /\ ui'.kind = ui.kind
          /\ ui'.row = ui.row /\ ui'.opening = ui.opening
          /\ ui'.form = Dialogs!EmptyForm
      BY <1>0, <1>8 DEF Dialogs!RowsReadFails, DialogFields
    <2>2. \A s \in net' : \E r \in net :
            /\ DOMAIN s = RequestFields /\ s.value = r.value /\ s.secret = r.secret
            /\ s.row = r.row /\ s.opening = r.opening
      BY <1>0, <1>8 DEF Dialogs!RowsReadFails, RequestFields
    <2>3. /\ DOMAIN Dialogs!EmptyForm = {"value", "secret"}
          /\ Dialogs!EmptyForm.value = Dialogs!Blank /\ Dialogs!EmptyForm.secret = Dialogs!Blank
      BY DEF Dialogs!EmptyForm
    <2> QED
      BY <1>0, <2>1, <2>2, <2>3 DEF DialogInv, Dialogs!NothingLeftOver
  <1>9. CASE Dialogs!RowsRead
    <2> DEFINE u == [ui EXCEPT !.readable = TRUE]
    <2>1. /\ DOMAIN u = DialogFields /\ u.kind = ui.kind /\ u.form = ui.form
          /\ u.row = ui.row /\ u.opening = ui.opening
      BY <1>0 DEF DialogFields
    <2>2. ui' = Dialogs!Fill(u) /\ net' = net
      BY <1>9 DEF Dialogs!RowsRead
    <2> HIDE DEF u
    <2>3. CASE u.open /\ u.kind # "invoice"
      <3>1. /\ DOMAIN ui' = DialogFields /\ DOMAIN ui'.form = {"value", "secret"}
            /\ ui'.kind = u.kind /\ ui'.row = u.row /\ ui'.opening = u.opening
            /\ ui'.form.value \in {Dialogs!Blank, Dialogs!OfRow(u.row)}
            /\ ui'.form.secret = Dialogs!Blank
        BY <2>1, <2>2, <2>3, FilledWith
      <3> QED
        BY <2>1, <2>2, <3>1, DialogKept
    <2>4. CASE ~(u.open /\ u.kind # "invoice")
      <3>1. ui' = u
        BY <2>2, <2>4 DEF Dialogs!Fill
      <3> QED
        BY <1>0, <2>1, <2>2, <3>1, DialogKept
    <2> QED
      BY <2>3, <2>4
  <1>10. CASE Dialogs!OthersSettle
    BY <1>10 DEF Dialogs!OthersSettle, DialogInv, Dialogs!NothingLeftOver
  <1> QED
    BY <1>1, <1>3, <1>4, <1>5, <1>6, <1>7, <1>8, <1>9, <1>10 DEF Dialogs!Next

-----------------------------------------------------------------------------
\* On a page that is not open there is no form.
FormsPage ==
    /\ open = "user form" => FormInv
    /\ open = "billing dialogs" => DialogInv

LEMMA FormsPageNext == FormsPage /\ [Next]_vars => FormsPage'
  <1>1. ASSUME open = "user form", FormInv, [Next]_vars PROVE FormInv'
    <2>1. Form!Next \/ UNCHANGED ui
      BY <1>1 DEF Next, vars
    <2> QED
      BY <1>1, <2>1, FormNext
  <1>2. ASSUME open = "billing dialogs", DialogInv, [Next]_vars PROVE DialogInv'
    <2>1. Dialogs!Next \/ UNCHANGED Dialogs!vars
      BY <1>2 DEF Next, vars, Dialogs!vars
    <2> QED
      BY <1>2, <2>1, DialogNext
  <1> QED
    BY <1>1, <1>2, OpenStays DEF FormsPage

\* The user a form sends is the quick plan that was clicked, or the stored user but
\* for what was touched; a plan or channel form sends nothing of another row, nor a
\* secret typed for one: for any users, plans, limits, dates, zones and rows, however
\* often the form is rendered, the user read again or the dialog filled meanwhile.
THEOREM FormsSendWhatIsMeant == Spec => []SentAsMeant
  <1>1. Init => FormsPage
    BY FormInit, DialogInit DEF Init, FormsPage
  <1>2. FormsPage => SentAsMeant
    BY FormSends DEF FormsPage, DialogInv, SentAsMeant
  <1> QED
    BY <1>1, <1>2, FormsPageNext, PTL DEF Spec


-----------------------------------------------------------------------------
(* The tables: the rows of a page, in order.                               *)

\* The tables count as everybody does.
LEMMA TablesCount == ASSUME NEW S PROVE Tables!Cardinality(S) = Cardinality(S)
  BY DEF Tables!Cardinality, Cardinality

\* Of finitely many rows no two have the same rank, and each rank is below their number.
LEMMA Ranks ==
  ASSUME NEW S \in SUBSET Nat, IsFiniteSet(S)
  PROVE  /\ Cardinality(S) \in Nat
         /\ \A x \in S : Tables!Rank(x, S) \in 0..(Cardinality(S) - 1)
         /\ \A x, y \in S : x < y => Tables!Rank(x, S) < Tables!Rank(y, S)
  <1> DEFINE Below(x) == {other \in S : other < x}
  <1>1. \A x : Tables!Rank(x, S) = Cardinality(Below(x))
    BY TablesCount DEF Tables!Rank
  <1>2. Cardinality(S) \in Nat
    BY FS_CardinalityType
  <1>3. \A x : IsFiniteSet(Below(x)) /\ Cardinality(Below(x)) \in Nat
    <2>1. \A x : Below(x) \in SUBSET S
      OBVIOUS
    <2> QED
      BY <2>1, FS_Subset, FS_CardinalityType
  <1>4. ASSUME NEW x \in S PROVE Cardinality(Below(x)) < Cardinality(S)
    <2>1. x \in S /\ x \in Nat
      BY <1>4
    <2>2. Below(x) \in SUBSET S /\ x \notin Below(x)
      BY <2>1
    <2>3. Below(x) # S
      BY <2>1, <2>2
    <2> HIDE DEF Below
    <2>4. Cardinality(Below(x)) <= Cardinality(S)
      BY <2>2, FS_Subset
    <2>5. Cardinality(Below(x)) # Cardinality(S)
      BY <2>2, <2>3, FS_Subset
    <2> QED
      BY <1>2, <1>3, <2>4, <2>5
  <1>5. ASSUME NEW x \in S, NEW y \in S, x < y PROVE Cardinality(Below(x)) < Cardinality(Below(y))
    <2>1. Below(x) \in SUBSET Below(y) /\ x \in Below(y) /\ x \notin Below(x)
      <3>1. x \in Nat /\ y \in Nat /\ x < y
        BY <1>5
      <3>2. \A z \in Below(x) : z \in S /\ z < y
        BY <3>1
      <3>3. x \in S /\ ~(x < x)
        BY <1>5, <3>1
      <3> QED
        BY <3>1, <3>2, <3>3
    <2> HIDE DEF Below
    <2>2. Cardinality(Below(x)) <= Cardinality(Below(y))
      BY <1>3, <2>1, FS_Subset
    <2>3. Cardinality(Below(x)) # Cardinality(Below(y))
      BY <1>3, <2>1, FS_Subset
    <2> QED
      BY <1>3, <2>2, <2>3
  <1> HIDE DEF Below
  <1> QED
    BY <1>1, <1>2, <1>3, <1>4, <1>5

\* An injection into as many numbers reaches each of them.
LEMMA RanksOnto ==
  ASSUME NEW S \in SUBSET Nat, IsFiniteSet(S), NEW i \in 1..Cardinality(S)
  PROVE  \E id \in S : Tables!Rank(id, S) = i - 1
  <1> DEFINE n == Cardinality(S)
             T == 0..(n - 1)
             f == [id \in S |-> Tables!Rank(id, S)]
  <1>0. /\ n \in Nat /\ \A x \in S : Tables!Rank(x, S) \in 0..(n - 1)
        /\ \A x, y \in S : x < y => Tables!Rank(x, S) < Tables!Rank(y, S)
    BY Ranks, Zenon
  <1>1. n \in Nat /\ n > 0
    BY <1>0
  <1>2. IsFiniteSet(T) /\ Cardinality(T) = n
    <2> HIDE DEF n
    <2>1. n - 1 \in Int /\ 0 \in Int /\ ~(0 > n - 1) /\ n - 1 - 0 + 1 = n
      BY <1>1
    <2> QED
      BY <2>1, FS_Interval
  <1>3. f \in Injection(S, T)
    <2>1. f \in [S -> T]
      BY <1>0
    <2>2. ASSUME NEW x \in S, NEW y \in S, f[x] = f[y] PROVE x = y
      <3>1. x \in Nat /\ y \in Nat /\ f[x] \in Int
        BY <1>0
      <3> QED
        BY <1>0, <2>2, <3>1
    <2> QED
      BY <2>1, <2>2 DEF Injection, IsInjective
  <1> HIDE DEF n, T
  <1>4. f \in Surjection(S, T)
    BY <1>2, <1>3, FS_Injection DEF n
  <1>5. i - 1 \in T
    <2>1. i \in 1..n
      BY DEF n
    <2> QED
      BY <1>1, <2>1 DEF T
  <1> QED
    BY <1>4, <1>5 DEF Surjection

LEMMA SortedRows ==
  ASSUME NEW S \in SUBSET Nat, IsFiniteSet(S)
  PROVE  Len(Tables!Sorted(S)) = Cardinality(S) /\ Tables!Range(Tables!Sorted(S)) \subseteq S
  <1> DEFINE n == Cardinality(S)
             first(i) == CHOOSE id \in S : Tables!Rank(id, S) = i - 1
             f == [i \in 1..n |-> first(i)]
  <1>1. n \in Nat /\ Tables!Sorted(S) = f
    BY Ranks, TablesCount DEF Tables!Sorted
  <1>2. \A i \in 1..n : first(i) \in S
    BY RanksOnto
  <1> HIDE DEF n, first
  <1>3. f \in [1..n -> S]
    BY <1>2
  <1>4. Len(f) = n
    BY <1>1, <1>3
  <1>5. \A i \in DOMAIN f : f[i] \in S
    BY <1>3
  <1> HIDE DEF f
  <1> QED
    BY <1>1, <1>4, <1>5 DEF Tables!Range, n

\* No page is longer than its size.
LEMMA PagesAreShort ==
  ASSUME NEW found \in SUBSET Nat, IsFiniteSet(found), NEW page, NEW size \in Nat \ {0}
  PROVE  /\ Len(Tables!PageOf(found, page, size)) <= size
         /\ Tables!Range(Tables!PageOf(found, page, size)) \subseteq found
  <1> DEFINE S == Tables!OnPage(found, page, size)
  <1>1. S \in SUBSET found
    BY DEF Tables!OnPage
  <1>2. S \in SUBSET Nat /\ IsFiniteSet(S)
    BY <1>1, FS_Subset
  <1>0. \A x \in found : x \in Nat /\ Tables!Rank(x, found) \in Nat
    <2>1. \A x \in found : Tables!Rank(x, found) \in 0..(Cardinality(found) - 1)
      BY Ranks, Zenon
    <2> QED
      BY <2>1
  <1>01. \A x, y \in found : x < y => Tables!Rank(x, found) < Tables!Rank(y, found)
    BY Ranks, Zenon
  <1>3. Cardinality(S) <= size
    <2>1. CASE S = {}
      BY <2>1, FS_EmptySet
    <2>2. CASE S # {}
      <3>1. PICK q \in Int : \A id \in S : Tables!Rank(id, found) \div size = q
        <4>1. PICK one \in S : TRUE
          BY <2>2
        <4>2. \A id \in S : Tables!Rank(id, found) \in Nat
          BY <1>0, <1>1
        <4>3. Tables!Rank(one, found) \div size \in Int
          BY <4>1, <4>2, Quotient
        <4>4. \A id \in S : Tables!Rank(id, found) \div size = Tables!Rank(one, found) \div size
          BY <4>1 DEF Tables!OnPage
        <4> QED
          BY <4>3, <4>4
      <3> DEFINE least == size * q
                 T == least .. (least + size - 1)
                 f == [id \in S |-> Tables!Rank(id, found)]
      <3>2. least \in Int
        OBVIOUS
      <3>3. ASSUME NEW id \in S PROVE Tables!Rank(id, found) \in T
        <4>1. Tables!Rank(id, found) \in Nat
          BY <1>0, <1>1
        <4>2. least <= Tables!Rank(id, found) /\ Tables!Rank(id, found) < least + size
          BY <3>1, <4>1, Quotient
        <4> HIDE DEF least
        <4> QED
          BY <3>2, <4>1, <4>2
      <3> HIDE DEF least
      <3>4. IsFiniteSet(T) /\ Cardinality(T) = size
        BY <3>2, FS_Interval
      <3>5. f \in Injection(S, T)
        <4>1. f \in [S -> T]
          BY <3>3
        <4>2. ASSUME NEW x \in S, NEW y \in S, f[x] = f[y] PROVE x = y
          <5>1. Tables!Rank(x, found) = Tables!Rank(y, found)
            BY <4>2
          <5>2. x \in found /\ y \in found
            BY <1>1
          <5> HIDE DEF S, f
          <5>3. x \in Nat /\ y \in Nat /\ Tables!Rank(x, found) \in Nat
            BY <1>0, <5>2
          <5> QED
            BY <1>01, <5>1, <5>2, <5>3
        <4> QED
          BY <4>1, <4>2 DEF Injection, IsInjective
      <3> HIDE DEF T, f, S
      <3> QED
        BY <3>4, <3>5, FS_Injection
    <2> QED
      BY <2>1, <2>2
  <1>4. Tables!PageOf(found, page, size) = Tables!Sorted(S)
    BY DEF Tables!PageOf
  <1> HIDE DEF S
  <1> QED
    BY <1>1, <1>2, <1>3, <1>4, SortedRows


\* In a sorted list every row has its place.
LEMMA SortedHasAll ==
  ASSUME NEW S \in SUBSET Nat, IsFiniteSet(S), NEW id \in S
  PROVE  id \in Tables!Range(Tables!Sorted(S))
  <1> DEFINE n == Cardinality(S)
             first(i) == CHOOSE x \in S : Tables!Rank(x, S) = i - 1
             f == [i \in 1..n |-> first(i)]
             i == Tables!Rank(id, S) + 1
  <1>1. n \in Nat /\ Tables!Sorted(S) = f
    BY Ranks, TablesCount DEF Tables!Sorted
  <1>2. /\ \A x \in S : Tables!Rank(x, S) \in 0..(n - 1)
        /\ \A x, y \in S : x < y => Tables!Rank(x, S) < Tables!Rank(y, S)
    BY Ranks, Zenon
  <1>3. i \in 1..n /\ Tables!Rank(id, S) = i - 1
    <2>1. Tables!Rank(id, S) \in 0..(n - 1)
      BY <1>2
    <2> HIDE DEF n
    <2> QED
      BY <1>1, <2>1
  <1>4. first(i) \in S /\ Tables!Rank(first(i), S) = i - 1
    BY <1>3
  <1> HIDE DEF first, n, i
  <1>5. first(i) = id
    <2> DEFINE x == first(i)
    <2>1. x \in S /\ x \in Nat /\ id \in Nat
      BY <1>4
    <2>2. Tables!Rank(x, S) = Tables!Rank(id, S) /\ Tables!Rank(id, S) \in Int
      BY <1>2, <1>3, <1>4
    <2> HIDE DEF x
    <2>3. ~(x < id) /\ ~(id < x)
      BY <1>2, <2>1, <2>2
    <2>4. x = id
      BY <2>1, <2>3
    <2> QED
      BY <2>4 DEF x
  <1>6. i \in DOMAIN f /\ f[i] = id
    BY <1>3, <1>5
  <1> HIDE DEF f
  <1> QED
    BY <1>1, <1>6 DEF Tables!Range

\* What the buttons of a table can reach: the count of pages the server sends is neither too small nor too large: each row is on
\* one of that many pages, and on no other, and each of them has a row.
THEOREM PagesHoldTheRows ==
  ASSUME NEW found \in SUBSET Nat, IsFiniteSet(found), NEW size \in Nat \ {0}
  PROVE  /\ \A id \in found : \E page \in 1..Tables!PageCount(found, size) :
               /\ id \in Tables!Range(Tables!PageOf(found, page, size))
               /\ \A other \in Int :
                     id \in Tables!Range(Tables!PageOf(found, other, size)) => other = page
         /\ \A page \in 1..Tables!PageCount(found, size) :
               Tables!Range(Tables!PageOf(found, page, size)) # {}
  <1> DEFINE n == Cardinality(found)
             last == Tables!PageCount(found, size)
             rank(id) == Tables!Rank(id, found)
             OnPage(page) == Tables!OnPage(found, page, size)
             Page(page) == Tables!Range(Tables!PageOf(found, page, size))
  <1>1. /\ n \in Nat /\ \A id \in found : rank(id) \in 0..(n - 1)
    BY Ranks, Zenon
  <1>2. \A page : Page(page) = OnPage(page)
    <2> SUFFICES ASSUME NEW page PROVE Page(page) = OnPage(page)
      OBVIOUS
    <2>1. OnPage(page) \in SUBSET found
      BY DEF Tables!OnPage
    <2>2. OnPage(page) \in SUBSET Nat /\ IsFiniteSet(OnPage(page))
      BY <2>1, FS_Subset
    <2>3. Page(page) = Tables!Range(Tables!Sorted(OnPage(page)))
      BY DEF Tables!PageOf
    <2> HIDE DEF OnPage
    <2>4. Tables!Range(Tables!Sorted(OnPage(page))) \subseteq OnPage(page)
      BY <2>2, SortedRows
    <2>5. OnPage(page) \subseteq Tables!Range(Tables!Sorted(OnPage(page)))
      BY <2>2, SortedHasAll
    <2> QED
      BY <2>3, <2>4, <2>5
  <1>3. \A id, page : id \in OnPage(page) <=> id \in found /\ rank(id) \div size = page - 1
    BY DEF Tables!OnPage
  <1>4. last = (n + size - 1) \div size
    BY TablesCount DEF Tables!PageCount
  <1> HIDE DEF n, last, OnPage, Page
  <1>5. last \in Int /\ size * last <= n + size - 1 /\ n + size - 1 < size * last + size
    BY <1>1, <1>4, Quotient
  <1>6. ASSUME NEW id \in found
        PROVE  rank(id) \div size \in Int /\ rank(id) \div size + 1 \in 1..last
    <2> DEFINE q == rank(id) \div size
    <2>1. rank(id) \in Nat /\ rank(id) < n
      BY <1>1, <1>6
    <2> HIDE DEF rank
    <2>2. q \in Int /\ size * q <= rank(id) /\ rank(id) < size * q + size
      BY <2>1, Quotient
    <2> HIDE DEF q
    <2>3. q >= 0
      <3> SUFFICES ASSUME q <= -1 PROVE FALSE
        BY <2>2
      <3>1. size * q <= -size
        BY <2>2
      <3> QED
        BY <2>1, <2>2, <3>1
    <2>4. q < last
      <3> SUFFICES ASSUME last <= q PROVE FALSE
        BY <1>5, <2>2
      <3>1. size * last <= size * q
        BY <1>5, <2>2
      <3> QED
        BY <1>1, <1>5, <2>1, <2>2, <3>1
    <2> QED
      BY <1>5, <2>2, <2>3, <2>4 DEF q
  <1>7. ASSUME NEW id \in found
        PROVE  \E page \in 1..last :
                  id \in Page(page) /\ \A other \in Int : id \in Page(other) => other = page
    <2> DEFINE q == rank(id) \div size
    <2>1. q \in Int /\ q + 1 \in 1..last
      BY <1>6, <1>7
    <2>2. \A page : id \in Page(page) <=> q = page - 1
      BY <1>2, <1>3, <1>7
    <2> HIDE DEF q
    <2>3. id \in Page(q + 1)
      BY <2>1, <2>2
    <2>4. \A other \in Int : id \in Page(other) => other = q + 1
      BY <2>1, <2>2
    <2> QED
      BY <2>1, <2>3, <2>4
  <1>8. ASSUME NEW page \in 1..last
        PROVE  Page(page) # {}
    <2> DEFINE start == size * (page - 1)
    <2>1. page \in Int /\ start \in Nat /\ start < n
      <3>1. page \in Int /\ page - 1 >= 0 /\ page <= last
        BY <1>5
      <3>2. start \in Int /\ start >= 0
        BY <3>1
      <3>3. size * page <= size * last /\ start = size * page - size
        BY <1>5, <3>1
      <3> QED
        BY <1>1, <1>5, <3>1, <3>2, <3>3
    <2>2. start \div size = page - 1
      BY <2>1
    <2> HIDE DEF start
    <2>3. \E id \in found : rank(id) = start
      <3> DEFINE i == start + 1
      <3>1. i \in 1..n /\ i - 1 = start
        BY <1>1, <2>1
      <3>2. i \in 1..Cardinality(found)
        BY <3>1 DEF n
      <3> HIDE DEF i
      <3>3. \E id \in found : Tables!Rank(id, found) = i - 1
        BY <3>2, RanksOnto, Zenon
      <3> QED
        BY <3>1, <3>3
    <2> QED
      BY <1>2, <1>3, <2>2, <2>3
  <1> QED
    BY <1>7, <1>8 DEF Page, last

TableFields == { "kind", "page", "size", "primary", "filter", "parent", "data", "fetching", "existing",
                 "ticked", "chosen", "clean" }

\* No more rows than the size, and none the keyword, the filter or the parent leaves out.
Fits(rows, key) ==
    /\ Len(rows) <= key.size
    /\ \A id \in Tables!Range(rows) : /\ Tables!Matches(key.primary, id)
                                      /\ Tables!Matches(key.filter, id)
                                      /\ Tables!Under(key.parent, id)

TicksFit(u) == \A i \in 1..Len(u.data.rows) : (i \in u.ticked) <=> (u.data.rows[i] \in u.existing)

TableTyped ==
    /\ DOMAIN ui = TableFields /\ ui.size \in Sizes
    /\ DOMAIN db = {"rows", "members", "writes", "untold"} /\ db.rows \subseteq Ids
    /\ \A r \in net :
          /\ r.for = "page" => DOMAIN r = {"for", "key", "data", "read"} /\ r.key.size \in Sizes
          /\ r.for = "apply" => DOMAIN r = {"for", "members", "done"}
          /\ r.for = "parent" => DOMAIN r = {"for", "members", "read"}

\* What is shown fits the key on screen, and what was answered the key it was asked for.
RowsFit ==
    /\ Fits(ui.data.rows, ui)
    /\ \A r \in net : r.for = "page" /\ r.read => Fits(r.data.rows, r.key)

TicksShown == Tables!Selectable(ui) /\ ui.clean => TicksFit(ui)

\* Between the write of an Apply and its answer nobody tells the table.
Unannounced(r) == r.for = "apply" /\ r.done

\* The table knows the services of the user, or is about to read them.
MembersKnown ==
    ui.kind = "services" /\ ~db.untold /\ ~(\E r \in net : Unannounced(r)) =>
        /\ \A r \in net : r.for = "parent" /\ r.read => r.members = db.members
        /\ ui.existing = db.members \/ \E r \in net : r.for = "parent"

TableInv == TableTyped /\ RowsFit /\ TicksShown /\ MembersKnown

LEMMA TableInvShows == TableInv => Tables!TablesShowServer
  <1> SUFFICES ASSUME TableInv PROVE Tables!TablesShowServer
    OBVIOUS
  <1>1. Fits(ui.data.rows, ui)
    BY DEF TableInv, RowsFit
  <1>2. ASSUME ui.kind = "services", ui.clean, net = {}, ~db.untold
        PROVE  \A i \in 1..Len(ui.data.rows) : (i \in ui.ticked) <=> (ui.data.rows[i] \in db.members)
    <2>1. ui.existing = db.members
      BY <1>2 DEF TableInv, MembersKnown
    <2>2. TicksFit(ui)
      BY <1>2 DEF TableInv, TicksShown, Tables!Selectable
    <2> QED
      BY <2>1, <2>2 DEF TicksFit
  <1> QED
    BY <1>1, <1>2, Zenon DEF Fits, Tables!TablesShowServer

\* An empty table fits every key.
LEMMA NothingFits ==
  ASSUME NEW u, u.data = Tables!NoData, u.size \in Sizes
  PROVE  Fits(u.data.rows, u) /\ TicksFit(u)
  <1>1. u.data.rows = <<>>
    BY DEF Tables!NoData
  <1>2. Len(<<>>) = 0 /\ DOMAIN <<>> = {} /\ 1..0 = {}
    OBVIOUS
  <1>3. u.size \in Nat
    BY TableAssumption
  <1>4. Tables!Range(<<>>) = {}
    BY <1>2 DEF Tables!Range
  <1> QED
    BY <1>1, <1>2, <1>3, <1>4 DEF Fits, TicksFit

\* What the server answers fits what it was asked.
LEMMA AnswerFits ==
  ASSUME NEW key, key.size \in Sizes, db.rows \subseteq Ids
  PROVE  Fits(Tables!Answer(key).rows, key)
  <1> DEFINE found == {id \in Tables!Found(key.primary) :
                          Tables!Matches(key.filter, id) /\ Tables!Under(key.parent, id)}
             page == IF key.page = 0 THEN 1 ELSE key.page
             rows == Tables!PageOf(found, page, key.size)
  <1>1. Tables!Answer(key).rows = rows
    BY DEF Tables!Answer
  <1>2. found \in SUBSET Ids
    BY DEF Tables!Found
  <1>3. found \in SUBSET Nat /\ IsFiniteSet(found) /\ key.size \in Nat \ {0}
    BY <1>2, TableAssumption, FS_Subset
  <1>4. \A id \in found : /\ Tables!Matches(key.primary, id) /\ Tables!Matches(key.filter, id)
                          /\ Tables!Under(key.parent, id)
    BY DEF Tables!Found
  <1> HIDE DEF found, page
  <1>5. Len(rows) <= key.size /\ Tables!Range(rows) \subseteq found
    BY <1>3, PagesAreShort
  <1> HIDE DEF rows
  <1> QED
    BY <1>1, <1>4, <1>5 DEF Fits

\* New data set the ticks and choose the rows, and change nothing else.
LEMMA EffectsKeep ==
  ASSUME NEW u, DOMAIN u = TableFields
  PROVE  LET v == Tables!DataEffects(u)
         IN  /\ DOMAIN v = TableFields
             /\ v.kind = u.kind /\ v.page = u.page /\ v.size = u.size /\ v.primary = u.primary
             /\ v.filter = u.filter /\ v.parent = u.parent /\ v.data = u.data
             /\ v.existing = u.existing
             /\ Tables!Selectable(v) => TicksFit(v)
  <1> DEFINE v == Tables!DataEffects(u)
             w == Tables!TicksSet(u)
  <1>1. CASE ~Tables!Selectable(u)
    BY <1>1 DEF Tables!DataEffects, Tables!Selectable
  <1>2. CASE Tables!Selectable(u)
    <2>1. v = Tables!Chosen(w)
      BY <1>2 DEF Tables!DataEffects
    <2>2. /\ DOMAIN w = TableFields
          /\ w.kind = u.kind /\ w.page = u.page /\ w.size = u.size /\ w.primary = u.primary
          /\ w.filter = u.filter /\ w.parent = u.parent /\ w.data = u.data
          /\ w.existing = u.existing
          /\ w.ticked = {i \in u.ticked : i \notin 1..Len(u.data.rows)}
                          \cup {i \in 1..Len(u.data.rows) : u.data.rows[i] \in u.existing}
      BY DEF Tables!TicksSet, TableFields
    <2> HIDE DEF w
    <2>3. TicksFit(w)
      BY <2>2 DEF TicksFit
    <2>4. /\ DOMAIN v = TableFields
          /\ v.kind = u.kind /\ v.page = u.page /\ v.size = u.size /\ v.primary = u.primary
          /\ v.filter = u.filter /\ v.parent = u.parent /\ v.data = u.data
          /\ v.existing = u.existing /\ v.data = w.data /\ v.existing = w.existing
          /\ v.ticked = w.ticked
      BY <2>1, <2>2 DEF Tables!Chosen, TableFields
    <2> HIDE DEF v
    <2>5. TicksFit(v)
      BY <2>3, <2>4 DEF TicksFit
    <2> QED
      BY <2>4, <2>5 DEF v
  <1> QED
    BY <1>1, <1>2

LEMMA TableInit == Tables!Init => TableInv
  <1> SUFFICES ASSUME Tables!Init PROVE TableInv
    OBVIOUS
  <1>1. PICK members \in SUBSET Ids :
          db = [rows |-> Ids, members |-> members, writes |-> 0, untold |-> FALSE]
    BY DEF Tables!Init
  <1>2. PICK size \in Sizes :
          ui \in {Tables!EntityTable(size), Tables!DoubleEntityTable(size)}
                  \cup {Tables!SidebarEntityTable(size, inbound) : inbound \in {0, Tables!AllInbounds}}
                  \cup {Tables!SelectableEntityTable(kind, size, db.members) :
                           kind \in {"services", "inbounds"}}
    BY DEF Tables!Init
  <1>3. /\ DOMAIN ui = TableFields /\ ui.size \in Sizes /\ ui.data = Tables!NoData
        /\ ui.kind = "services" => ui.existing = db.members
    <2> DEFINE base == Tables!EntityTable(size)
    <2>1. DOMAIN base = TableFields /\ base.size = size /\ base.data = Tables!NoData /\ base.kind = "plain"
      BY DEF Tables!EntityTable, TableFields
    <2>2. \/ ui = base \/ ui = Tables!DoubleEntityTable(size)
          \/ \E inbound : ui = Tables!SidebarEntityTable(size, inbound)
          \/ \E kind : ui = Tables!SelectableEntityTable(kind, size, db.members)
      BY <1>2
    <2> HIDE DEF base
    <2>3. CASE ui = base
      BY <2>1, <2>3
    <2>4. CASE ui = Tables!DoubleEntityTable(size)
      BY <2>1, <2>4 DEF Tables!DoubleEntityTable, TableFields, base
    <2>5. ASSUME NEW inbound, ui = Tables!SidebarEntityTable(size, inbound)
          PROVE  DOMAIN ui = TableFields /\ ui.size = size /\ ui.data = Tables!NoData /\ ui.kind = "hosts"
      BY <2>1, <2>5 DEF Tables!SidebarEntityTable, TableFields, base
    <2>6. ASSUME NEW kind, ui = Tables!SelectableEntityTable(kind, size, db.members)
          PROVE  /\ DOMAIN ui = TableFields /\ ui.size = size /\ ui.data = Tables!NoData
                 /\ ui.existing = db.members
      BY <2>1, <2>6 DEF Tables!SelectableEntityTable, TableFields, base
    <2> QED
      BY <2>2, <2>3, <2>4, <2>5, <2>6
  <1>4. PICK r : net = {r} /\ r = Tables!Asked(Tables!QueryKey(ui))
    BY DEF Tables!Init
  <1>5. DOMAIN r = {"for", "key", "data", "read"} /\ r.for = "page" /\ ~r.read /\ r.key.size = ui.size
    BY <1>4 DEF Tables!Asked, Tables!QueryKey
  <1>6. DOMAIN db = {"rows", "members", "writes", "untold"} /\ db.rows \subseteq Ids
    BY <1>1
  <1>7. Fits(ui.data.rows, ui) /\ TicksFit(ui)
    BY <1>3, NothingFits
  <1>8. TableTyped
    BY <1>3, <1>4, <1>5, <1>6 DEF TableTyped
  <1> QED
    BY <1>3, <1>4, <1>5, <1>7, <1>8 DEF TableInv, RowsFit, TicksShown, MembersKnown

\* A table that changes its key shows nothing until it is answered.
LEMMA RekeyedInv ==
  ASSUME TableInv, NEW u, DOMAIN u = TableFields, u.size \in Sizes, u.data = ui.data,
         u.kind = ui.kind, u.existing = ui.existing, u.ticked = ui.ticked, u.clean = ui.clean,
         Tables!Rekeyed(u), UNCHANGED db
  PROVE  TableInv'
  <1> DEFINE empty == [u EXCEPT !.data = Tables!NoData, !.fetching = TRUE]
  <1>1. /\ DOMAIN ui' = TableFields /\ ui'.size \in Sizes /\ ui'.kind = ui.kind
        /\ ui'.existing = ui.existing /\ Fits(ui'.data.rows, ui') /\ TicksShown'
    <2>1. CASE Tables!QueryKey(u) = Tables!QueryKey(ui)
      <3>1. ui' = u
        BY <2>1 DEF Tables!Rekeyed
      <3>2. /\ u.size = ui.size /\ u.primary = ui.primary /\ u.filter = ui.filter
            /\ u.parent = ui.parent
        BY <2>1 DEF Tables!QueryKey
      <3>3. Fits(u.data.rows, u)
        BY <3>2 DEF TableInv, RowsFit, Fits
      <3>4. TicksShown'
        BY <3>1 DEF TableInv, TicksShown, TicksFit, Tables!Selectable
      <3> QED
        BY <3>1, <3>3, <3>4
    <2>2. CASE Tables!QueryKey(u) # Tables!QueryKey(ui)
      <3>1. ui' = Tables!DataEffects(empty)
        BY <2>2 DEF Tables!Rekeyed
      <3>2. /\ DOMAIN empty = TableFields /\ empty.data = Tables!NoData /\ empty.size = u.size
            /\ empty.kind = u.kind /\ empty.existing = u.existing
        BY DEF TableFields
      <3>3. Fits(empty.data.rows, empty)
        BY <3>2, NothingFits
      <3> HIDE DEF empty
      <3>4. /\ DOMAIN ui' = TableFields
            /\ ui'.kind = empty.kind /\ ui'.page = empty.page /\ ui'.size = empty.size
            /\ ui'.primary = empty.primary
            /\ ui'.filter = empty.filter /\ ui'.parent = empty.parent /\ ui'.data = empty.data
            /\ ui'.existing = empty.existing
            /\ Tables!Selectable(ui') => TicksFit(ui')
        BY <3>1, <3>2, EffectsKeep
      <3> QED
        BY <3>2, <3>3, <3>4 DEF Fits, TicksShown
    <2> QED
      BY <2>1, <2>2
  <1>2. \A r \in net' : r \in net \/ r = Tables!Asked(Tables!QueryKey(u))
    BY DEF Tables!Rekeyed
  <1>3. \A r \in net : r \in net'
    BY DEF Tables!Rekeyed
  <1> DEFINE asked == Tables!Asked(Tables!QueryKey(u))
  <1>4. DOMAIN asked = {"for", "key", "data", "read"} /\ asked.for = "page" /\ ~asked.read
        /\ asked.key.size = u.size
    BY DEF Tables!Asked, Tables!QueryKey
  <1>5. \A r \in net' : r \in net \/ r = asked
    BY <1>2
  <1> HIDE DEF asked
  <1>6. TableTyped'
    BY <1>1, <1>4, <1>5 DEF TableInv, TableTyped
  <1>7. RowsFit'
    BY <1>1, <1>4, <1>5 DEF TableInv, RowsFit
  <1>8. MembersKnown'
    BY <1>1, <1>3, <1>4, <1>5 DEF TableInv, MembersKnown, Unannounced
  <1> QED
    BY <1>1, <1>6, <1>7, <1>8 DEF TableInv

LEMMA PagingInv ==
  ASSUME TableInv, UNCHANGED db,
         \/ Tables!FirstPage \/ Tables!PreviousPage \/ Tables!NextPage \/ Tables!LastPage
         \/ Tables!RowsPerPage \/ Tables!TableSearch \/ Tables!ColumnFilter \/ Tables!ClearFilter
         \/ Tables!SelectInbound
  PROVE  TableInv'
  <1>1. DOMAIN ui = TableFields /\ ui.size \in Sizes
    BY DEF TableInv, TableTyped
  <1> DEFINE Same(u) == /\ DOMAIN u = TableFields /\ u.size \in Sizes /\ u.data = ui.data
                        /\ u.kind = ui.kind /\ u.existing = ui.existing
                        /\ u.ticked = ui.ticked /\ u.clean = ui.clean
  <1>2. \E u : Same(u) /\ Tables!Rekeyed(u)
    <2>1. \A page : Same([ui EXCEPT !.page = page])
      BY <1>1 DEF TableFields
    <2>2. \A size \in Sizes : \A page : Same([ui EXCEPT !.size = size, !.page = page])
      BY <1>1 DEF TableFields
    <2>3. \A keyword : Same([ui EXCEPT !.primary = keyword])
      BY <1>1 DEF TableFields
    <2>4. \A keyword, page : Same([ui EXCEPT !.filter = keyword, !.page = page])
      BY <1>1 DEF TableFields
    <2>5. \A inbound : Same([ui EXCEPT !.parent = inbound])
      BY <1>1 DEF TableFields
    <2> HIDE DEF Same
    <2>6. CASE Tables!FirstPage
      BY <2>1, <2>6 DEF Tables!FirstPage
    <2>7. CASE Tables!PreviousPage
      BY <2>1, <2>7 DEF Tables!PreviousPage
    <2>8. CASE Tables!NextPage
      BY <2>1, <2>8 DEF Tables!NextPage
    <2>9. CASE Tables!LastPage
      BY <2>1, <2>9 DEF Tables!LastPage
    <2>10. CASE Tables!RowsPerPage
      BY <2>2, <2>10 DEF Tables!RowsPerPage
    <2>11. CASE Tables!TableSearch
      BY <2>3, <2>11 DEF Tables!TableSearch
    <2>12. CASE Tables!ColumnFilter
      BY <2>4, <2>12 DEF Tables!ColumnFilter
    <2>13. CASE Tables!ClearFilter
      BY <2>4, <2>13 DEF Tables!ClearFilter
    <2>14. CASE Tables!SelectInbound
      BY <2>5, <2>14 DEF Tables!SelectInbound
    <2> QED
      BY <2>6, <2>7, <2>8, <2>9, <2>10, <2>11, <2>12, <2>13, <2>14
  <1> QED
    BY <1>2, RekeyedInv

LEMMA ServerReadsInv == ASSUME TableInv, NEW r \in net, Tables!ServerReads(r) PROVE TableInv'
  <1> DEFINE s == [r EXCEPT !.read = TRUE, !.data = Tables!Answer(r.key)]
  <1>1. /\ r.for = "page" /\ r.key.size \in Sizes /\ DOMAIN r = {"for", "key", "data", "read"}
        /\ db.rows \subseteq Ids
    BY DEF TableInv, TableTyped, Tables!ServerReads
  <1>2. net' = (net \ {r}) \cup {s} /\ ui' = ui /\ db' = db
    BY DEF Tables!ServerReads
  <1>3. /\ s.for = "page" /\ s.key = r.key /\ DOMAIN s = {"for", "key", "data", "read"}
        /\ s.data = Tables!Answer(r.key)
    BY <1>1
  <1>4. Fits(s.data.rows, s.key)
    BY <1>1, <1>3, AnswerFits
  <1> HIDE DEF s
  <1>5. TableTyped' /\ RowsFit' /\ TicksShown'
    BY <1>1, <1>2, <1>3, <1>4 DEF TableInv, TableTyped, RowsFit, TicksShown
  <1>6. MembersKnown'
    BY <1>1, <1>2, <1>3 DEF TableInv, MembersKnown, Unannounced
  <1> QED
    BY <1>5, <1>6 DEF TableInv

\* The answer fits the key it was asked for, and is shown only under that key.
LEMMA AnsweredInv == ASSUME TableInv, NEW r \in net, Tables!Answered(r) PROVE TableInv'
  <1> DEFINE u == [ui EXCEPT !.data = r.data, !.fetching = FALSE]
  <1>1. net' = net \ {r} /\ db' = db /\ r.for = "page" /\ r.read /\ Fits(r.data.rows, r.key)
    BY DEF Tables!Answered, TableInv, RowsFit
  <1>2. /\ DOMAIN ui' = TableFields /\ ui'.size \in Sizes /\ ui'.kind = ui.kind
        /\ ui'.existing = ui.existing /\ Fits(ui'.data.rows, ui') /\ TicksShown'
    <2>1. CASE ui' = ui
      BY <2>1 DEF TableInv, TableTyped, RowsFit, TicksShown
    <2>2. CASE ui' # ui
      <3>1. ui' = Tables!DataEffects(u) /\ r.key = Tables!QueryKey(ui)
        BY <2>2 DEF Tables!Answered
      <3>2. /\ DOMAIN u = TableFields /\ u.kind = ui.kind /\ u.size = ui.size /\ u.primary = ui.primary
            /\ u.filter = ui.filter /\ u.parent = ui.parent /\ u.existing = ui.existing
            /\ u.data = r.data /\ ui.size \in Sizes
        BY DEF TableInv, TableTyped, TableFields
      <3>3. Fits(r.data.rows, u)
        BY <1>1, <3>1, <3>2 DEF Fits, Tables!QueryKey
      <3> HIDE DEF u
      <3>4. /\ DOMAIN ui' = TableFields
            /\ ui'.kind = u.kind /\ ui'.page = u.page /\ ui'.size = u.size
            /\ ui'.primary = u.primary
            /\ ui'.filter = u.filter /\ ui'.parent = u.parent /\ ui'.data = u.data
            /\ ui'.existing = u.existing
            /\ Tables!Selectable(ui') => TicksFit(ui')
        BY <3>1, <3>2, EffectsKeep
      <3> QED
        BY <3>2, <3>3, <3>4 DEF Fits, TicksShown
    <2> QED
      BY <2>1, <2>2
  <1>3. TableTyped' /\ RowsFit'
    BY <1>1, <1>2 DEF TableInv, TableTyped, RowsFit
  <1>4. MembersKnown'
    BY <1>1, <1>2 DEF TableInv, MembersKnown, Unannounced
  <1> QED
    BY <1>2, <1>3, <1>4 DEF TableInv

\* A failed reading leaves the rows, and counts as a write not told of.
LEMMA ReadFailsInv == ASSUME TableInv, NEW r \in net, Tables!ReadFails(r) PROVE TableInv'
  <1>1. /\ net' = net \ {r}
        /\ DOMAIN db' = DOMAIN db /\ db'.rows = db.rows /\ db'.untold
    BY DEF Tables!ReadFails, TableInv, TableTyped
  <1>2. /\ DOMAIN ui' = TableFields /\ ui'.kind = ui.kind /\ ui'.size = ui.size /\ ui'.primary = ui.primary
        /\ ui'.filter = ui.filter /\ ui'.parent = ui.parent /\ ui'.existing = ui.existing
        /\ ui'.data = ui.data /\ ui'.ticked = ui.ticked /\ ui'.clean = ui.clean
    BY DEF Tables!ReadFails, TableInv, TableTyped, TableFields
  <1>3. Fits(ui'.data.rows, ui')
    BY <1>2 DEF TableInv, RowsFit, Fits
  <1>4. TicksShown'
    BY <1>2 DEF TableInv, TicksShown, TicksFit, Tables!Selectable
  <1>5. TableTyped' /\ RowsFit'
    BY <1>1, <1>2, <1>3 DEF TableInv, TableTyped, RowsFit
  <1> QED
    BY <1>1, <1>4, <1>5 DEF TableInv, MembersKnown

LEMMA OthersWriteTables == TableInv /\ Tables!OthersWrite => TableInv'
  <1> SUFFICES ASSUME TableInv, Tables!OthersWrite PROVE TableInv'
    OBVIOUS
  <1>1. /\ ui' = ui /\ net' = net
        /\ DOMAIN db' = DOMAIN db /\ db'.rows \subseteq Ids /\ db'.untold
    BY DEF Tables!OthersWrite, TableInv, TableTyped
  <1> QED
    BY <1>1 DEF TableInv, TableTyped, RowsFit, TicksShown, MembersKnown

\* From a tick on it is the admin's choice that is shown.
LEMMA TickInv == TableInv /\ Tables!Tick => TableInv'
  <1> SUFFICES ASSUME TableInv, Tables!Tick PROVE TableInv'
    OBVIOUS
  <1>1. net' = net /\ db' = db
    BY DEF Tables!Tick
  <1>2. PICK ticked : ui' = Tables!Chosen([ui EXCEPT !.clean = FALSE, !.ticked = ticked])
    BY DEF Tables!Tick
  <1>3. /\ DOMAIN ui' = TableFields /\ ui'.kind = ui.kind /\ ui'.size = ui.size /\ ui'.primary = ui.primary
        /\ ui'.filter = ui.filter /\ ui'.parent = ui.parent /\ ui'.existing = ui.existing
        /\ ui'.data = ui.data /\ ~ui'.clean
    <2> DEFINE u == [ui EXCEPT !.clean = FALSE, !.ticked = ticked]
    <2>1. /\ DOMAIN u = TableFields /\ u.kind = ui.kind /\ u.size = ui.size /\ u.primary = ui.primary
          /\ u.filter = ui.filter /\ u.parent = ui.parent /\ u.existing = ui.existing
          /\ u.data = ui.data /\ ~u.clean
      BY DEF TableInv, TableTyped, TableFields
    <2>2. ui' = Tables!Chosen(u)
      BY <1>2
    <2> HIDE DEF u
    <2> QED
      BY <2>1, <2>2 DEF Tables!Chosen, TableFields
  <1>4. Fits(ui'.data.rows, ui')
    BY <1>3 DEF TableInv, RowsFit, Fits
  <1> QED
    BY <1>1, <1>3, <1>4 DEF TableInv, TableTyped, RowsFit, TicksShown, MembersKnown

LEMMA ApplyInv == TableInv /\ Tables!Apply => TableInv'
  <1> SUFFICES ASSUME TableInv, Tables!Apply PROVE TableInv'
    OBVIOUS
  <1> DEFINE s == [for |-> "apply", members |-> ui.chosen, done |-> FALSE]
  <1>1. net' = net \cup {s} /\ ui' = ui /\ db' = db
    BY DEF Tables!Apply
  <1>2. DOMAIN s = {"for", "members", "done"} /\ s.for = "apply" /\ ~s.done
    OBVIOUS
  <1> HIDE DEF s
  <1> QED
    BY <1>1, <1>2
    DEF TableInv, TableTyped, RowsFit, TicksShown, MembersKnown, Unannounced

\* The write is unannounced until its answer arrives.
LEMMA ApplyDoneInv == ASSUME TableInv, NEW r \in net, Tables!ApplyDone(r) PROVE TableInv'
  <1> DEFINE s == [r EXCEPT !.done = TRUE]
  <1>1. net' = (net \ {r}) \cup {s} /\ ui' = ui /\ r.for = "apply"
    BY DEF Tables!ApplyDone
  <1>2. DOMAIN s = {"for", "members", "done"} /\ s.for = "apply" /\ s.done
    BY <1>1 DEF TableInv, TableTyped
  <1>3. DOMAIN db' = DOMAIN db /\ db'.rows = db.rows
    BY DEF Tables!ApplyDone, TableInv, TableTyped
  <1> HIDE DEF s
  <1>4. \E t \in net' : Unannounced(t)
    BY <1>1, <1>2 DEF Unannounced
  <1> QED
    BY <1>1, <1>2, <1>3, <1>4 DEF TableInv, TableTyped, RowsFit, TicksShown, MembersKnown

\* The answer of an Apply has the user read again.
LEMMA ApplyAnsweredInv == ASSUME TableInv, NEW r \in net, Tables!ApplyAnswered(r) PROVE TableInv'
  <1> DEFINE page == Tables!Asked(Tables!QueryKey(ui))
             user == [for |-> "parent", members |-> {}, read |-> FALSE]
  <1>1. /\ DOMAIN ui' = TableFields /\ ui'.kind = ui.kind /\ ui'.size = ui.size /\ ui'.primary = ui.primary
        /\ ui'.filter = ui.filter /\ ui'.parent = ui.parent /\ ui'.existing = ui.existing
        /\ ui'.data = ui.data /\ ui'.ticked = ui.ticked /\ ui'.clean = ui.clean
        /\ db' = db
    BY DEF Tables!ApplyAnswered, TableInv, TableTyped, TableFields
  <1>2. /\ DOMAIN page = {"for", "key", "data", "read"} /\ page.for = "page" /\ ~page.read
        /\ page.key.size = ui.size
    BY DEF Tables!Asked, Tables!QueryKey
  <1>3. DOMAIN user = {"for", "members", "read"} /\ user.for = "parent" /\ ~user.read
    OBVIOUS
  <1>4. /\ \A s \in net' : (s \in net /\ s.for # "parent") \/ s = page \/ s = user
        /\ ui.kind = "services" => user \in net'
    BY DEF Tables!ApplyAnswered
  <1> HIDE DEF page, user
  <1>5. Fits(ui'.data.rows, ui')
    BY <1>1 DEF TableInv, RowsFit, Fits
  <1>6. TicksShown'
    BY <1>1 DEF TableInv, TicksShown, TicksFit, Tables!Selectable
  <1>7. TableTyped'
    BY <1>1, <1>2, <1>3, <1>4 DEF TableInv, TableTyped
  <1>8. RowsFit'
    BY <1>2, <1>3, <1>4, <1>5 DEF TableInv, RowsFit
  <1>9. MembersKnown'
    BY <1>1, <1>2, <1>3, <1>4 DEF MembersKnown
  <1> QED
    BY <1>6, <1>7, <1>8, <1>9 DEF TableInv

LEMMA ApplyFailsInv == ASSUME TableInv, NEW r \in net, Tables!ApplyFails(r) PROVE TableInv'
  <1>1. net' = net \ {r} /\ ui' = ui /\ r.for = "apply"
    BY DEF Tables!ApplyFails
  <1>2. /\ DOMAIN db' = DOMAIN db /\ db'.rows = db.rows /\ db'.members = db.members
        /\ db'.untold = (db.untold \/ r.done)
    BY DEF Tables!ApplyFails, TableInv, TableTyped
  <1>3. TableTyped' /\ RowsFit' /\ TicksShown'
    BY <1>1, <1>2 DEF TableInv, TableTyped, RowsFit, TicksShown
  <1>4. MembersKnown'
    <2>1. ~db'.untold => ~db.untold /\ ~r.done
      BY <1>2
    <2>2. (\E t \in net : Unannounced(t)) /\ ~r.done => \E t \in net' : Unannounced(t)
      BY <1>1 DEF Unannounced
    <2>3. \A t \in net : t.for = "parent" => t \in net'
      BY <1>1
    <2>4. MembersKnown
      BY DEF TableInv
    <2> QED
      BY <1>1, <1>2, <2>1, <2>2, <2>3, <2>4 DEF MembersKnown
  <1> QED
    BY <1>3, <1>4 DEF TableInv

LEMMA ParentReadInv == ASSUME TableInv, NEW r \in net, Tables!ParentRead(r) PROVE TableInv'
  <1> DEFINE s == [r EXCEPT !.read = TRUE, !.members = db.members]
  <1>1. net' = (net \ {r}) \cup {s} /\ ui' = ui /\ db' = db /\ r.for = "parent"
    BY DEF Tables!ParentRead
  <1>2. DOMAIN s = {"for", "members", "read"} /\ s.for = "parent" /\ s.members = db.members
    BY <1>1 DEF TableInv, TableTyped
  <1> HIDE DEF s
  <1>3. TableTyped' /\ RowsFit' /\ TicksShown'
    BY <1>1, <1>2 DEF TableInv, TableTyped, RowsFit, TicksShown
  <1>4. MembersKnown'
    BY <1>1, <1>2 DEF TableInv, MembersKnown, Unannounced
  <1> QED
    BY <1>3, <1>4 DEF TableInv

\* Unless a write is unannounced, what was read of the user is what the server has.
LEMMA ParentAnsweredInv == ASSUME TableInv, NEW r \in net, Tables!ParentAnswered(r) PROVE TableInv'
  <1> DEFINE u == [ui EXCEPT !.existing = r.members]
  <1>1. net' = net \ {r} /\ db' = db /\ r.for = "parent" /\ r.read /\ ui' = Tables!DataEffects(u)
    BY DEF Tables!ParentAnswered
  <1>2. /\ DOMAIN u = TableFields /\ u.kind = ui.kind /\ u.size = ui.size /\ u.primary = ui.primary
        /\ u.filter = ui.filter /\ u.parent = ui.parent /\ u.existing = r.members
        /\ u.data = ui.data /\ ui.size \in Sizes
    BY DEF TableInv, TableTyped, TableFields
  <1> HIDE DEF u
  <1>3. /\ DOMAIN ui' = TableFields
        /\ ui'.kind = u.kind /\ ui'.page = u.page /\ ui'.size = u.size /\ ui'.primary = u.primary
        /\ ui'.filter = u.filter /\ ui'.parent = u.parent /\ ui'.data = u.data
        /\ ui'.existing = u.existing
        /\ Tables!Selectable(ui') => TicksFit(ui')
    BY <1>1, <1>2, EffectsKeep
  <1>4. Fits(ui'.data.rows, ui')
    BY <1>2, <1>3 DEF TableInv, RowsFit, Fits
  <1>5. TableTyped' /\ RowsFit' /\ TicksShown'
    BY <1>1, <1>2, <1>3, <1>4 DEF TableInv, TableTyped, RowsFit, TicksShown
  <1>6. MembersKnown'
    BY <1>1, <1>2, <1>3 DEF TableInv, MembersKnown, Unannounced
  <1> QED
    BY <1>5, <1>6 DEF TableInv

LEMMA TableNext == TableInv /\ (Tables!Next \/ UNCHANGED Tables!vars) => TableInv'
  <1> SUFFICES ASSUME TableInv, Tables!Next \/ UNCHANGED Tables!vars PROVE TableInv'
    OBVIOUS
  <1>1. CASE \E r \in net : \/ Tables!ServerReads(r) \/ Tables!Answered(r) \/ Tables!ReadFails(r)
                            \/ Tables!ApplyDone(r) \/ Tables!ApplyAnswered(r) \/ Tables!ApplyFails(r)
                            \/ Tables!ParentRead(r) \/ Tables!ParentAnswered(r)
    BY <1>1, ServerReadsInv, AnsweredInv, ReadFailsInv, ApplyDoneInv, ApplyAnsweredInv,
       ApplyFailsInv, ParentReadInv, ParentAnsweredInv
  <1>2. CASE Tables!OthersWrite \/ Tables!Tick \/ Tables!Apply
    BY <1>2, OthersWriteTables, TickInv, ApplyInv
  <1>3. CASE UNCHANGED Tables!vars
    BY <1>3 DEF Tables!vars, TableInv, TableTyped, RowsFit, TicksShown, MembersKnown
  <1> QED
    BY <1>1, <1>2, <1>3, PagingInv DEF Tables!Next

TablePage == open = "tables" => TableInv

LEMMA TablePageInit == Init => TablePage
  BY TableInit DEF Init, TablePage

LEMMA TablePageNext == TablePage /\ [Next]_vars => TablePage'
  <1>1. ASSUME open = "tables", TableInv, Next PROVE TableInv'
    <2>1. Tables!Next
      BY <1>1 DEF Next
    <2> QED
      BY <1>1, <2>1, TableNext
  <1>2. ASSUME TableInv, UNCHANGED vars PROVE TableInv'
    <2>1. UNCHANGED Tables!vars
      BY <1>2 DEF vars, Tables!vars
    <2> QED
      BY <1>2, <2>1, TableNext
  <1>3. [Next]_vars => open' = open
    BY DEF Next, vars
  <1> QED
    BY <1>1, <1>2, <1>3 DEF TablePage

\* A table that waits for nothing shows no row its key leaves out and no more than fit its page,
\* whatever order the answers come in; and the services of a user are ticked as the server has
\* them once everything is answered, unless somebody else wrote or the answer was lost.
THEOREM TablesShowTheServer == Spec => []TablesShowServer
  <1>1. TablePage => TablesShowServer
    BY TableInvShows DEF TablePage, TablesShowServer
  <1> QED
    BY <1>1, TablePageInit, TablePageNext, PTL DEF Spec
=============================================================================
