------------------------------- MODULE UiWizard -------------------------------
(***************************************************************************)
(* The wizard that creates a migration (views/WizardView.vue): five steps, *)
(* and between them the gates that ask for a connection test that went     *)
(* well and for a tool that was found.  Tests, listings, validations and   *)
(* the remembered options are answered late, and nothing but the spinning  *)
(* button they came from is blocked meanwhile: 'next' itself is            *)
(* asynchronous on the first step and can be pressed again.                *)
(* A source stands for its connection, typed or by reference; Lightning    *)
(* and dumpling share their shape, so one tool, dumpling, stands for both. *)
(* A failed test and none look alike to the gates.  Bounds: MaxEdits, and  *)
(* one listing of a source in flight.                                      *)
(* Left out: the other options, which no gate looks at.                    *)
(***************************************************************************)
EXTENDS Naturals, FiniteSets

CONSTANTS
  Tables,    \* for each source, the tables it has
  MySQL,     \* the sources dumpling can export
  Paths,     \* what can be typed for the tool
  MaxEdits   \* bound: changes of the source

VARIABLES
  step,     \* activeStep: source, target, tables, options, summary
  source,   \* form.source with its type, and how often it was changed
  green,    \* the connection a green test was of, and whether the target's is green
  testing,  \* the tests in flight
  prefill,  \* loadMigrationOptions: "unread", "reading" by a 'next', or "read"
  list,     \* availableTables by the source they are of, loadingTables, listings in flight
  picked,   \* selectedTables and excludedTables
  tool,     \* the tool: switched on, its path typed, validated, resolved
  asked,    \* the path being validated; "" for none
  sent      \* the body of createTask once it has succeeded

vars == <<step, source, green, testing, prefill, list, picked, tool, asked, sent>>

Sources == DOMAIN Tables
Names   == UNION {Tables[s] : s \in Sources}
Off     == [on |-> FALSE, typed |-> "", valid |-> FALSE, resolved |-> ""]
Nothing == [source |-> "", tables |-> {}, without |-> {}, tool |-> ""]

TypeOK ==
  /\ step \in 0..5
  /\ source \in [is : Sources, edits : 0..MaxEdits]
  /\ green \in [source : Sources \cup {""}, target : BOOLEAN]
  /\ testing \in [source : Sources \cup {""}, target : BOOLEAN]
  /\ prefill \in {"unread", "reading", "read"}
  /\ list \in [of : Sources \cup {""}, loading : BOOLEAN, asked : SUBSET Sources]
  /\ picked \in [in : SUBSET Names, out : SUBSET Names]
  /\ tool \in [on : BOOLEAN, typed : Paths \cup {""}, valid : BOOLEAN, resolved : Paths \cup {"", "found"}]
  /\ asked \in Paths \cup {"", "found"}
  /\ sent \in [source : Sources \cup {""}, tables : SUBSET Names, without : SUBSET Names,
               tool : Paths \cup {"", "found"}]

Init ==
  /\ step = 0 /\ source \in [is : Sources, edits : {0}]
  /\ green = [source |-> "", target |-> FALSE] /\ testing = green /\ prefill = "unread"
  /\ list = [of |-> "", loading |-> FALSE, asked |-> {}] /\ picked = [in |-> {}, out |-> {}]
  /\ tool = Off /\ asked = "" /\ sent = Nothing

On(s) == step = s /\ sent = Nothing

-----------------------------------------------------------------------------
(* The connections. *)

\* onSourceTypeChange, the pickers and the connection form; watch(form.source).
EditSource ==
  /\ On(0) /\ source.edits < MaxEdits
  /\ \E s \in Sources \ {source.is} : source' = [is |-> s, edits |-> source.edits + 1]
  /\ green' = [green EXCEPT !.source = ""]
  /\ UNCHANGED <<step, testing, prefill, list, picked, tool, asked, sent>>

\* watch(form.target).
EditTarget ==
  /\ On(1) /\ green.target /\ green' = [green EXCEPT !.target = FALSE]
  /\ UNCHANGED <<step, source, testing, prefill, list, picked, tool, asked, sent>>

TestSource ==
  /\ On(0) /\ testing.source = ""
  /\ testing' = [testing EXCEPT !.source = source.is] /\ green' = [green EXCEPT !.source = ""]
  /\ UNCHANGED <<step, source, prefill, list, picked, tool, asked, sent>>

TestTarget ==
  /\ On(1) /\ ~testing.target
  /\ testing' = [testing EXCEPT !.target = TRUE] /\ green' = [green EXCEPT !.target = FALSE]
  /\ UNCHANGED <<step, source, prefill, list, picked, tool, asked, sent>>

\* The continuations of testConnection: what was edited meanwhile is not looked at.
SourceTested ==
  /\ testing.source # "" /\ testing' = [testing EXCEPT !.source = ""]
  /\ \E good \in BOOLEAN : green' = IF good THEN [green EXCEPT !.source = testing.source] ELSE green
  /\ sent = Nothing
  /\ UNCHANGED <<step, source, prefill, list, picked, tool, asked, sent>>

TargetTested ==
  /\ testing.target /\ testing' = [testing EXCEPT !.target = FALSE]
  /\ \E good \in BOOLEAN : green' = [green EXCEPT !.target = good \/ @]
  /\ sent = Nothing
  /\ UNCHANGED <<step, source, prefill, list, picked, tool, asked, sent>>

-----------------------------------------------------------------------------
(* The steps. *)

\* What nextStep asks for before it leaves a step, and what the summary and the
\* request take the tool to be.
UsesTool == tool.on /\ source.is \in MySQL
Passes(s) ==
  CASE s = 0 -> green.source # ""
    [] s = 1 -> green.target
    [] s = 3 -> UsesTool => tool.valid
    [] OTHER -> TRUE

\* Of nextStep, what leaving the target's step does: loadTables.
LoadTables ==
  /\ source.is \notin list.asked
  /\ list' = [of |-> "", loading |-> TRUE, asked |-> list.asked \cup {source.is}]
  /\ picked' = [in |-> {}, out |-> {}]

\* nextStep.  The first to leave the first step awaits the remembered options.
NextStep ==
  /\ step < 4 /\ sent = Nothing /\ Passes(step)
  /\ IF step = 0 /\ prefill = "unread"
     THEN prefill' = "reading" /\ UNCHANGED step
     ELSE step' = step + 1 /\ UNCHANGED prefill
  /\ IF step = 1 THEN LoadTables ELSE UNCHANGED <<list, picked>>
  /\ UNCHANGED <<source, green, testing, tool, asked, sent>>

\* What the remembered options make of the tool; a failed answer leaves it.
Remembered == {tool} \cup {[tool EXCEPT !.on = TRUE, !.typed = p] : p \in Paths \cup {""}}

\* loadMigrationOptions goes on, and with it the nextStep that awaited it, from
\* the step a second press has meanwhile gone to: its gate is behind it, but what
\* leaving it does is not.  A remembered PD address clears the target's test.
Prefilled ==
  /\ prefill = "reading" /\ sent = Nothing /\ prefill' = "read"
  /\ \E pd \in BOOLEAN : green' = [green EXCEPT !.target = @ /\ ~pd]
  /\ tool' \in Remembered
  /\ IF step = 1 THEN LoadTables ELSE UNCHANGED <<list, picked>>
  /\ UNCHANGED <<source, testing, asked, sent>>
  /\ step' = IF step = 3 /\ ~Passes(3)' THEN step ELSE step + 1

PrevStep ==
  /\ step > 0 /\ sent = Nothing /\ step' = step - 1
  /\ UNCHANGED <<source, green, testing, prefill, list, picked, tool, asked, sent>>

-----------------------------------------------------------------------------
(* The tables. *)

GotTables(s) ==
  /\ s \in list.asked /\ sent = Nothing
  /\ \E of \in {s, list.of} :
       list' = [of |-> of, loading |-> FALSE, asked |-> list.asked \ {s}]
  /\ UNCHANGED <<step, source, green, testing, prefill, picked, tool, asked, sent>>

TableShown == On(2) /\ ~list.loading /\ list.of # ""

\* Mutant: a checked table stays excluded.
TakesKeepsExcluded(rows) == [picked EXCEPT !.in = rows]

\* handleTableSelection.
Takes(rows) == [in |-> rows, out |-> picked.out \ rows]

SelectRow(t) ==
  /\ picked' = Takes(IF t \in picked.in THEN picked.in \ {t} ELSE picked.in \cup {t})
  /\ UNCHANGED <<step, source, green, testing, prefill, list, tool, asked, sent>>

\* toggleSelectAll, of the rows the search leaves.
ToggleSelectAll(found) ==
  /\ picked' = Takes(IF found # {} /\ Cardinality(found) = Cardinality(picked.in)
                     THEN {} ELSE picked.in \cup found)
  /\ UNCHANGED <<step, source, green, testing, prefill, list, tool, asked, sent>>

\* toggleExclude, offered for rows that are not checked.
ToggleExclude(t) ==
  /\ t \notin picked.in
  /\ picked' = [picked EXCEPT !.out = IF t \in @ THEN @ \ {t} ELSE @ \cup {t}]
  /\ UNCHANGED <<step, source, green, testing, prefill, list, tool, asked, sent>>

-----------------------------------------------------------------------------
(* The tool. *)

ToolShown == On(3) /\ source.is \in MySQL

\* The switch: off forgets the path, either way the validation is gone.
SwitchTool ==
  /\ ToolShown /\ tool' = [Off EXCEPT !.on = ~tool.on]
  /\ UNCHANGED <<step, source, green, testing, prefill, list, picked, asked, sent>>

EditPath(p) ==
  /\ ToolShown /\ tool.on /\ tool' = [Off EXCEPT !.on = TRUE, !.typed = p]
  /\ UNCHANGED <<step, source, green, testing, prefill, list, picked, asked, sent>>

Validate ==
  /\ ToolShown /\ tool.on /\ asked = ""
  /\ asked' = IF tool.typed = "" THEN "found" ELSE tool.typed
  /\ UNCHANGED <<step, source, green, testing, prefill, list, picked, tool, sent>>

\* The continuation of validateDumpling.
Validated ==
  /\ asked # "" /\ asked' = "" /\ sent = Nothing
  /\ \E good \in BOOLEAN :
       tool' = [tool EXCEPT !.valid = good, !.resolved = IF good THEN asked ELSE ""]
  /\ UNCHANGED <<step, source, green, testing, prefill, list, picked, sent>>

-----------------------------------------------------------------------------
(* The summary and the request. *)

\* The template's summary.  The switch is on whatever the source is now.
Summary ==
  [source |-> source.is, tables |-> picked.in, without |-> picked.out,
   tool |-> IF ~UsesTool THEN "" ELSE IF tool.resolved # "" THEN tool.resolved
            ELSE IF tool.typed # "" THEN tool.typed ELSE "found"]

\* Mutant: the switch is sent as it stands.
RequestAsSwitched ==
  [source |-> source.is, tables |-> picked.in, without |-> picked.out,
   tool |-> IF ~tool.on THEN "" ELSE IF tool.resolved # "" THEN tool.resolved
            ELSE IF tool.typed # "" THEN tool.typed ELSE "found"]

\* submit; an empty path leaves the finding to the server.
Request ==
  LET path == IF tool.resolved # "" THEN tool.resolved ELSE tool.typed
  IN  [source |-> source.is, tables |-> picked.in, without |-> picked.out,
       tool |-> IF tool.on /\ source.is \in MySQL
                THEN (IF path = "" THEN "found" ELSE path) ELSE ""]

\* The task exists: the page is left for it, started or not.  A failed create
\* changes nothing.
Submit ==
  /\ On(4) /\ sent' = Request
  /\ UNCHANGED <<step, source, green, testing, prefill, list, picked, tool, asked>>

Next ==
  \/ EditSource \/ EditTarget \/ TestSource \/ TestTarget \/ SourceTested \/ TargetTested
  \/ NextStep \/ Prefilled \/ PrevStep
  \/ \E s \in Sources : GotTables(s)
  \/ TableShown /\ \E t \in Tables[list.of] : SelectRow(t) \/ ToggleExclude(t)
  \/ TableShown /\ \E found \in SUBSET Tables[list.of] : ToggleSelectAll(found)
  \/ SwitchTool \/ \E p \in Paths : EditPath(p)
  \/ Validate \/ Validated
  \/ Submit

Spec == Init /\ [][Next]_vars

-----------------------------------------------------------------------------

\* However rows are checked, searched, excluded and listed again, no table is
\* both selected and excluded (the comment on excludedTables).
Disjoint == picked.in \cap picked.out = {}

\* What is created is what the summary listed, whichever source the options
\* were chosen for (submit and the template of the last step).
SentAsShown == sent # Nothing => sent = Summary

-----------------------------------------------------------------------------
(* Not kept: TLC has a counterexample to this (README.md). *)

\* Past the target's step its connection has a green test (the comment in
\* nextStep: the gates still enforce a successful connection test).
TargetWasTested == step \in 2..4 => green.target
=============================================================================
