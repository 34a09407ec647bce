----------------------------- MODULE MCScreens -----------------------------
(***************************************************************************)
(* The parts behind the screens, checked in one run: as in MCServer an     *)
(* instance picks its part at the start, and the others keep one state.    *)
(* The grid's windows and its panel read the same table, so "panel" moves  *)
(* the rows and the panel together and "rows" the rows alone.              *)
(***************************************************************************)
EXTENDS ThemeRender, GridViews, GridPanel, EditorWindows, AdminMessages

CONSTANTS
    q1, q2, t1, t2, f1, f2,
    MaxFlowRequests     \* bound on requests and clicks, for templates and drafts

VARIABLE focus

\* The requests, and the windows, open at the same time; the templates; the
\* fields of an editor.
MCWindows == {q1, q2}
MCTemplates == {t1, t2}
MCEdFields == {f1, f2}
Symmetry ==
    Permutations(MCWindows) \cup Permutations(MCTemplates) \cup Permutations(MCEdFields)

------------------------------------------------------------------------------
\* Theming: a good template, one that lacks a slot, and one wrong in a colour
\* or in a font size; rules that pass and that fail each of the checks.
Light == [s \in COLOR_SLOTS |-> "light"]
Fonts == [f \in FONT_SLOTS |-> [step |-> "md", family |-> "Inter", weight |-> "regular"]]
MCTemplateDocs ==
    {[colors |-> Light, fonts |-> [Fonts EXCEPT !["uiFont"].step = "lg"], choice |-> "lg"],
     [colors |-> [s \in COLOR_SLOTS \ {"accent"} |-> "light"], fonts |-> Fonts, choice |-> "md"],
     [colors |-> [Light EXCEPT !["accent"] = "notHex"], fonts |-> Fonts, choice |-> "md"],
     [colors |-> Light, fonts |-> [Fonts EXCEPT !["uiFont"].step = "xxl"], choice |-> "md"]}
Rule == [field |-> "status", operator |-> "equals", value |-> "text", effect |-> "rowText",
         slot |-> "statusWarning"]
MCRuleDocs ==
    {Rule, [Rule EXCEPT !.operator = "isEmpty"], [Rule EXCEPT !.field = "unknown"],
     [Rule EXCEPT !.operator = "isEmpty", !.value = "null", !.slot = "statusNegative"]}
MCRulePatches ==
    {[operator |-> "isEmpty", value |-> "null"], [operator |-> "contains"], [value |-> "flag"]}
MCScaleDocs ==
    {[xs |-> 10, sm |-> 12, md |-> 14, lg |-> 16, xl |-> 20],
     [xs |-> 11, sm |-> 11, md |-> 14, lg |-> 16, xl |-> 20],
     [xs |-> 11, sm |-> 12, md |-> 14, lg |-> 16]}
MCRecords ==
    {[status |-> [type |-> "text", size |-> 1]], [status |-> [type |-> "text", size |-> 0]],
     [owner |-> [type |-> "null", size |-> 0]]}
MCRowThemes ==
    {[rowHeight |-> "large"], [colors |-> [accent |-> "dark"]],
     [colors |-> [rowText |-> "light"], font |-> [sizeStep |-> "xl"]]}

------------------------------------------------------------------------------
\* Two focuses: everything of the theming, and the requests that change which
\* rules a template has and how they are ordered, which need one more to meet
\* and of which one document is enough.
ThemingStep ==
    IF themeSent < MaxFlowRequests THEN FlowNext ELSE ThemeServe /\ UNCHANGED flowVars
RulesStep ==
    /\ \/ /\ themeSent < MaxThemeRequests
          /\ \E q \in FreeSlots, u \in ThemeUsers :
                \/ \E t \in LiveTemplates :
                      \/ \E c \in FRules, doc \in RuleDocs \cap {Rule} : create_rule(q, c, t, u, doc)
                      \/ \E order \in [1 .. Cardinality(_live_rules(t)) -> FRules] :
                            put_rule_order(q, t, u, order)
                \/ \E c \in FRules : delete_rule(q, c, u)
       \/ ThemeServe
    /\ UNCHANGED flowVars

------------------------------------------------------------------------------
\* Views: one person may promote and author, another may not.
MCGranted ==
    [u \in ViewUsers |-> IF u = "ann" THEN {"gridView.promote", "adminSql.author"} ELSE {}]
MCSourceDrafts ==
    {[declared |-> {"f1"}, visual |-> NoDocument],
     [declared |-> {}, visual |-> [selected |-> {"f1"}, calculated |-> {"f2"}]],
     [declared |-> {}, visual |-> [selected |-> {}, calculated |-> {}]]}

\* Rows: equal sort values, or a row with none, which matters to a sort only.
MCTables == {<<1, 1, 2>>, <<2, 1, NullValue>>}
MCHits == [s \in Searches |-> IF s = "abc" THEN {1, 2} ELSE GRows]

------------------------------------------------------------------------------
screenVars == <<themeVars, flowVars, viewVars, panelVars, edVars, msgVars, focus>>

Init ==
    /\ focus \in {"theming", "rules", "views", "rows", "panel", "editors", "messages"}
    /\ FlowInit /\ ViewsInit /\ PanelInit /\ EdInit /\ MsgInit
    /\ focus \notin {"theming", "rules"} =>
          /\ \A t \in LiveTemplates : templates[t].owner = "system"
          /\ \A c \in FRules : frules[c] = Absent
    /\ \A c \in FRules : frules[c] # Absent => frules[c].doc = Rule
    /\ focus # "views" => exposed = {}
    /\ focus \notin {"rows", "panel"} => sorted
    /\ focus \notin {"rows", "panel"} \/ ~sorted => \A r \in GRows : grows[r].value # NullValue

Next ==
    /\ UNCHANGED focus
    /\ \/ /\ \/ focus = "theming" /\ ThemingStep
             \/ focus = "rules" /\ RulesStep
          /\ UNCHANGED <<viewVars, panelVars, edVars, msgVars>>
       \/ /\ focus = "views" /\ ViewsNext
          /\ UNCHANGED <<themeVars, flowVars, panelVars, edVars, msgVars>>
       \/ /\ focus = "rows" /\ RowsNext
          /\ UNCHANGED <<themeVars, flowVars, viewVars, panelOnly, edVars, msgVars>>
       \/ /\ focus = "panel" /\ PanelNext
          /\ UNCHANGED <<themeVars, flowVars, viewVars, edVars, msgVars>>
       \/ /\ focus = "editors" /\ EdNext
          /\ UNCHANGED <<themeVars, flowVars, viewVars, panelVars, msgVars>>
       \/ /\ focus = "messages" /\ MsgNext
          /\ UNCHANGED <<themeVars, flowVars, viewVars, panelVars, edVars>>

Spec == Init /\ [][Next]_screenVars

\* Every variable of every part holds what its table, window or request can.
TypeOK ==
    /\ focus \in {"theming", "rules"} => ThemeTypeOK
    /\ ViewsTypeOK /\ RowsTypeOK /\ PanelTypeOK /\ EdTypeOK /\ MsgTypeOK
=============================================================================
