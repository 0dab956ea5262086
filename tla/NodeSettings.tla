----------------------------- MODULE NodeSettings -----------------------------
(***************************************************************************)
(* One backend of a node in its settings dialog: the editor of its config  *)
(* (modules/nodes/dialogs/settings) and its log (modules/nodes/log).       *)
(*                                                                         *)
(* A text of the editor is a document of a language, indented as the       *)
(* editor does it or otherwise; "bad" is a text that no parser accepts.    *)
(* The editor component validates in a worker, for JSON only, and tells    *)
(* of the markers of a text when they change, late as that may be.         *)
(***************************************************************************)
EXTENDS Integers, Sequences

CONSTANTS
    Documents, \* contents of the configs that there may be
    MaxWrites, \* bound: configs the node is given by others
    MaxSaves,  \* bound: saves
    MaxLogs,   \* lines the log keeps
    MaxLines,  \* bound: lines the node writes
    MaxRetries \* attempts to connect again

VARIABLES ui, net, db

vars == <<ui, net, db>>

Formats == {"json", "yaml"}
Text(lang, doc, indented) == [lang |-> lang, doc |-> doc, indented |-> indented]
NoText == Text("none", 0, FALSE)
Texts == [lang : Formats \cup {"bad"}, doc : Documents, indented : {FALSE}]

---------------------------------------------------------------------------
(* Parsing *)

\* JSON is YAML as well; a plain config is not looked at, and the blank text is only plain.
Parses(text, format) ==
    \/ format = "plain"
    \/ text.lang = format
    \/ text.lang = "json" /\ format = "yaml"

\* Comments and layout are lost, the document is not.
parseConfig(data) ==
    IF data.format = "plain" THEN data.config
    ELSE [data.config EXCEPT !.lang = data.format, !.indented = TRUE]

---------------------------------------------------------------------------
(* The editor *)

NodesSettingsQuery == [config |-> NoText, format |-> "plain"] \* its initialData

\* The editor shows the data, and the effect makes it what will be saved.
Shown(u) == [u EXCEPT !.fetching = FALSE, !.config = parseConfig(u.data), !.text = parseConfig(u.data)]

\* There is no editor while the config is fetched, but there is a save button.
NodeConfigEditor ==
    [ kind |-> "config", data |-> NodesSettingsQuery, fetching |-> TRUE,
      known |-> FALSE,   \* the last answer was a config and not blank
      config |-> NoText, \* what will be saved
      text |-> NoText,   \* what is in the editor
      valid |-> TRUE ]

\* Mutant of handleConfigChange: a text that does not parse is kept for saving as well,
\* and the editor's validation alone decides about saving.
KeepWhateverIsTyped ==
    /\ ui.kind = "config" /\ ~ui.fetching
    /\ \E text \in Texts \cup {NoText} :
        ui' = IF text = NoText THEN [ui EXCEPT !.text = text]
              ELSE [ui EXCEPT !.text = text, !.config = text, !.valid = Parses(text, ui.data.format)]
    /\ UNCHANGED <<net, db>>

\* Only a text that parses is kept for saving, in the layout of its format.
handleConfigChange ==
    /\ ui.kind = "config" /\ ~ui.fetching
    /\ \E text \in Texts \cup {NoText} :
        ui' = IF text = NoText THEN [ui EXCEPT !.text = text]
              ELSE IF Parses(text, ui.data.format)
              THEN [ui EXCEPT !.text = text, !.valid = TRUE,
                              !.config = parseConfig([config |-> text, format |-> ui.data.format])]
              ELSE [ui EXCEPT !.text = text, !.valid = FALSE]
    /\ UNCHANGED <<net, db>>

\* Markers of the text or of an earlier one.
handleEditorValidation ==
    /\ ui.kind = "config" /\ ~ui.fetching /\ ui.data.format = "json"
    /\ \E valid \in BOOLEAN : ui' = [ui EXCEPT !.valid = valid]
    /\ UNCHANGED <<net, db>>

handleConfigSave ==
    /\ ui.kind = "config" /\ ui.valid /\ db.saves < MaxSaves
    /\ net' = [net EXCEPT !.saves = @ \cup
                {[config |-> ui.config, format |-> ui.data.format, known |-> ui.known]}]
    /\ db' = [db EXCEPT !.saves = @ + 1]
    /\ UNCHANGED ui

---------------------------------------------------------------------------
(* Its query *)

\* The window regains the focus, or a save was answered.
Refetch(n) == [n EXCEPT !.read = <<>>]

ConfigRefetched ==
    /\ ui.kind = "config" /\ ~ui.fetching
    /\ ui' = [ui EXCEPT !.fetching = TRUE]
    /\ net' = Refetch(net)
    /\ UNCHANGED db

NodeReads ==
    /\ ui.kind = "config" /\ ui.fetching /\ net.read = <<>>
    /\ net' = [net EXCEPT !.read = <<db.data>>]
    /\ UNCHANGED <<ui, db>>

ConfigAnswered ==
    /\ ui.kind = "config" /\ ui.fetching /\ net.read # <<>>
    /\ ui' = Shown([ui EXCEPT !.data = net.read[1], !.known = net.read[1].config # NoText])
    /\ net' = Refetch(net)
    /\ UNCHANGED db

\* After the retries; what was typed is gone as well.
ConfigReadFails ==
    /\ ui.kind = "config" /\ ui.fetching
    /\ ui' = Shown(ui)
    /\ net' = Refetch(net)
    /\ UNCHANGED db

\* The backend is restarted with the config; the answer starts a new read.
SaveArrives(save) ==
    /\ net' = [Refetch(net) EXCEPT !.saves = @ \ {save}]
    /\ db' = [db EXCEPT !.data = [config |-> save.config, format |-> save.format]]
    /\ ui' = [ui EXCEPT !.fetching = TRUE]

\* The node did not answer: it may have taken the config or not.
SaveFails(save) ==
    /\ net' = [net EXCEPT !.saves = @ \ {save}]
    /\ \/ UNCHANGED db
       \/ db' = [db EXCEPT !.data = [config |-> save.config, format |-> save.format]]
    /\ UNCHANGED ui

OthersWrite ==
    /\ ui.kind = "config" /\ db.writes < MaxWrites
    /\ \E text \in Texts, format \in Formats :
          /\ Parses(text, format)
          /\ db' = [db EXCEPT !.data = [config |-> text, format |-> format], !.writes = @ + 1]
    /\ UNCHANGED <<ui, net>>

---------------------------------------------------------------------------
(* The log *)

\* The socket reconnects by itself; an opened one may fail as often again.
NodesLog == [kind |-> "log", logs |-> <<>>, status |-> "connecting", retries |-> 0]

Connected ==
    /\ ui.kind = "log" /\ ui.status = "connecting"
    /\ ui' = [ui EXCEPT !.status = "connected", !.retries = 0]
    /\ UNCHANGED <<net, db>>

updateLogs(logs, line) ==
    LET all == Append(logs, line) IN
    IF Len(all) > MaxLogs THEN SubSeq(all, Len(all) - MaxLogs + 1, Len(all)) ELSE all

onMessage ==
    /\ ui.kind = "log" /\ ui.status = "connected" /\ db.lines < MaxLines
    /\ ui' = [ui EXCEPT !.logs = updateLogs(@, db.lines + 1)]
    /\ db' = [db EXCEPT !.lines = @ + 1]
    /\ UNCHANGED net

\* The server sends its buffered lines again to a socket that was opened anew.
onBuffer ==
    /\ ui.kind = "log" /\ ui.status = "connected" /\ db.lines > 0
    /\ ui' = [ui EXCEPT !.logs = updateLogs(@, db.lines)]
    /\ UNCHANGED <<net, db>>

Disconnected ==
    /\ ui.kind = "log" /\ ui.status # "closed"
    /\ ui' = IF ui.retries < MaxRetries
             THEN [ui EXCEPT !.status = "connecting", !.retries = @ + 1]
             ELSE [ui EXCEPT !.status = "closed"]
    /\ UNCHANGED <<net, db>>

---------------------------------------------------------------------------
Init ==
    /\ ui \in {NodeConfigEditor, NodesLog}
    /\ net = [read |-> <<>>, saves |-> {}]
    /\ \E text \in Texts, format \in Formats :
          /\ Parses(text, format)
          /\ db = [data |-> [config |-> text, format |-> format], writes |-> 0, saves |-> 0, lines |-> 0]

Next ==
    \/ handleConfigChange \/ handleEditorValidation \/ handleConfigSave
    \/ ConfigRefetched \/ NodeReads \/ ConfigAnswered \/ ConfigReadFails \/ OthersWrite
    \/ \E save \in net.saves : SaveArrives(save) \/ SaveFails(save)
    \/ Connected \/ onMessage \/ onBuffer \/ Disconnected

---------------------------------------------------------------------------
\* Whatever the late markers of the editor say and whenever the config is read again
\* while it is edited, a save carries a text that parses in the format it is sent with,
\* and a blank one only as long as no read of the config was answered with another.
SavedConfigParses ==
    \A save \in net.saves :
        /\ Parses(save.config, save.format)
        /\ save.known => save.config # NoText
=============================================================================
