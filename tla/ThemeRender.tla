----------------------------- MODULE ThemeRender ------------------------------
(***************************************************************************)
(* What the screens do with the stored themes: src/mentorapp/ui/theming.py,*)
(* conditional_formatting.py, row_banding.py and contrast_guardrail.py     *)
(* resolve and paint them, template_flow.py and template_manager.py copy   *)
(* one into a draft, edit it slot by slot and hand it over as a new one.   *)
(***************************************************************************)
EXTENDS Theming

CONSTANTS
    Records,      \* grid rows: the value of each condition field
    RowThemes     \* row themes that views carry

VARIABLES
    drafts,   \* the drafts of the users whose flow is open
    handed    \* history: the TEMPLATE_CREATE bodies that finished flows gave

flowVars == <<drafts, handed>>
FlowClick == /\ themeSent' = themeSent + 1
             /\ UNCHANGED <<templates, frules, scale, choices, themeReq, collided, late>>

ROW_HEIGHT_STEPS == {"compact", "standard", "large"}

\* The four curated documents, as they are seeded, differ in their density and
\* in their palette.  template_manager.py has a copy, whose largePrint is "xl";
\* the row height is all that is read there.
LAUNCH_TEMPLATES ==
    [standard   |-> [rowHeight |-> "standard", sizeStep |-> "md"],
     compact    |-> [rowHeight |-> "compact", sizeStep |-> "sm"],
     largePrint |-> [rowHeight |-> "large", sizeStep |-> "lg"],
     dark       |-> [rowHeight |-> "standard", sizeStep |-> "md"]]

-----------------------------------------------------------------------------
\* ThemingError is the empty result: a document that does not validate resolves
\* to nothing.
validate_template(d) ==
    /\ DOMAIN d = {"colors", "fonts", "rowHeight", "sizeStep"}
    /\ DOMAIN d.colors = COLOR_SLOTS /\ \A slot \in COLOR_SLOTS : d.colors[slot] \in HexColor
    /\ DOMAIN d.fonts = FONT_SLOTS
    /\ d.rowHeight \in ROW_HEIGHT_STEPS /\ d.sizeStep \in ToSet(TYPE_SCALE_STEPS)

\* A row theme names any part of [rowHeight, colors, font].
validate_row_theme(r) ==
    /\ DOMAIN r \subseteq {"rowHeight", "colors", "font"}
    /\ "rowHeight" \in DOMAIN r => r.rowHeight \in ROW_HEIGHT_STEPS
    /\ "colors" \in DOMAIN r =>
          /\ DOMAIN r.colors \subseteq ROW_THEME_COLOR_SLOTS
          /\ \A slot \in DOMAIN r.colors : r.colors[slot] \in HexColor
    /\ "font" \in DOMAIN r =>
          /\ DOMAIN r.font \subseteq {"fontSlot", "sizeStep"}
          /\ "fontSlot" \in DOMAIN r.font => r.font.fontSlot \in FONT_SLOTS
          /\ "sizeStep" \in DOMAIN r.font => r.font.sizeStep \in ToSet(TYPE_SCALE_STEPS)

Part(r, key, default) == IF key \in DOMAIN r THEN r[key] ELSE default

\* Layer two replaces layer one whole; layer three overlays what it names.
resolve_effective_grid_theme(base, rowTheme) ==
    LET over == Part(rowTheme, "colors", <<>>)
        font == Part(rowTheme, "font", <<>>) IN
    [colors |-> [slot \in COLOR_SLOTS |-> Part(over, slot, base.colors[slot])],
     fonts |-> base.fonts,
     rowHeight |-> Part(rowTheme, "rowHeight", base.rowHeight),
     fontSlot |-> Part(font, "fontSlot", "dataFont"),
     sizeStep |-> Part(font, "sizeStep", base.sizeStep),
     rowScoped |-> DOMAIN over]

CONTRAST_CHECKED_PAIRS ==
    {<<"rowText", "rowBackground">>, <<"rowText", "rowAlternateBackground">>,
     <<"selectedRowText", "selectedRowBackground">>, <<"headerText", "headerBackground">>,
     <<"groupHeaderText", "groupHeaderBackground">>}

\* Two colours of one shade are below CONTRAST_MINIMUM.
check_template_contrast(colors) ==
    {pair \in CONTRAST_CHECKED_PAIRS : colors[pair[1]] = colors[pair[2]]}

\* What the review may say of the row backgrounds, whose tones are finer than
\* the shades: two of one shade are the same, barely apart (no warning) or
\* stripes, two of different shades are stripes.
check_banding_subtlety(colors) ==
    {{"pronounced"}} \cup
    (IF colors["rowBackground"] = colors["rowAlternateBackground"] THEN {{}, {"indistinct"}} ELSE {})

\* GUARDRAIL_NEVER_BLOCKS: whatever either check says, the save is enabled.
run_template_guardrail(colors) ==
    {[cards |-> check_template_contrast(colors), banding |-> banding, saveEnabled |-> TRUE] :
        banding \in check_banding_subtlety(colors)}

-----------------------------------------------------------------------------
\* A value of a row is [type, size]: texts and numbers are ordered by size, a
\* text contains every shorter one and is empty at size 0.  A rule compares
\* with the value of its type and of size 1.
Comparand(rule) == [type |-> rule.value, size |-> 1]
_is_empty(value) == value.type = "null" \/ value = [type |-> "text", size |-> 0]
Ordered(value, comparand) == value.type = comparand.type /\ value.type \in {"text", "number"}

condition_matches(rule, record) ==
    LET value == Part(record, rule.field, [type |-> "null", size |-> 0])
        comparand == Comparand(rule) IN
    CASE rule.operator = "isEmpty" -> _is_empty(value)
      [] rule.operator = "isNotEmpty" -> ~_is_empty(value)
      [] OTHER ->
            /\ value.type # "null"
            /\ CASE rule.operator = "equals" -> value = comparand
                 [] rule.operator = "notEquals" -> value # comparand
                 [] rule.operator = "greaterThan" -> Ordered(value, comparand) /\ value.size > 1
                 [] rule.operator = "lessThan" -> Ordered(value, comparand) /\ value.size < 1
                 [] rule.operator = "contains" -> value.type = "text" /\ value.size >= 1

\* The grid's own check of a rule, which raises; a literal list is a comparand
\* here, the write gate is stricter.
validate_formatting_rule(rule) ==
    /\ rule.field # "blank" /\ rule.operator \in CONDITION_OPERATORS
    /\ (rule.operator \in PRESENCE_OPERATORS) = (rule.value = "null")
    /\ rule.effect \in FORMATTING_EFFECTS /\ rule.slot \in STATUS_COLOR_SLOTS

\* Which rule wins each target, over the rules in the order served.
_first_match_per_target(rules, record) ==
    FoldLeft(LAMBDA won, c :
                 IF frules[c].doc.effect \notin DOMAIN won /\ condition_matches(frules[c].doc, record)
                 THEN [x \in DOMAIN won \cup {frules[c].doc.effect} |->
                          IF x = frules[c].doc.effect THEN c ELSE won[x]]
                 ELSE won,
             <<>>, rules)

\* list_rules.
Served(t) ==
    LET rules == _live_rules(t)
        Before(c) == {d \in rules : frules[d].order < frules[c].order} IN
    [i \in 1 .. Cardinality(rules) |-> CHOOSE c \in rules : Cardinality(Before(c)) = i - 1]

band_for_position(position) == IF position % 2 = 1 THEN "rowBackground" ELSE "rowAlternateBackground"

\* The slots that a data row is painted with.
resolve_row_render(rules, record, position, selected) ==
    LET won == _first_match_per_target(rules, record)
        Slot(target, default) == IF target \in DOMAIN won THEN frules[won[target]].doc.slot ELSE default IN
    [background |-> IF selected THEN "selectedRowBackground"
                    ELSE Slot("rowBackground", band_for_position(position)),
     text |-> IF selected THEN "selectedRowText" ELSE Slot("rowText", "rowText"),
     accent |-> Slot("accent", "none")]

\* FALSE is a structural row, which consumes no position.
assign_bands(isData) ==
    [i \in DOMAIN isData |->
        IF isData[i] THEN band_for_position(Cardinality({j \in 1 .. i : isData[j]})) ELSE "none"]

-----------------------------------------------------------------------------
stored_template_option(t) ==
    [colors |-> templates[t].doc.colors,
     fonts |-> [slot \in DOMAIN templates[t].doc.fonts |-> templates[t].doc.fonts[slot].family],
     rowHeight |-> IF templates[t].owner = "system" THEN LAUNCH_TEMPLATES["standard"].rowHeight
                   ELSE "standard",
     sizeStep |-> templates[t].doc.choice]

\* The system set, and the user's own.
build_template_picker(u) == {t \in LiveTemplates : templates[t].owner \in {"system", u}}

\* Picking the org default clears the choice.
select_template(t) == IF t \in _org_default_template THEN "none" ELSE t

\* Owner-only verbs explain themselves on a system template.
decide_template_action(action, t) ==
    action \notin {"rename", "editSlots", "delete"} \/ templates[t].owner # "system"

start_user_template(u, t) ==
    /\ t \in build_template_picker(u) /\ decide_template_action("createCopy", t)
    /\ drafts' = [v \in DOMAIN drafts \cup {u} |->
                    IF v = u THEN stored_template_option(t) ELSE drafts[v]]
    /\ FlowClick /\ UNCHANGED handed

\* A candidate that does not validate leaves the draft alone.
_commit(u, candidate) ==
    drafts' = IF validate_template(candidate) THEN [drafts EXCEPT ![u] = candidate] ELSE drafts

\* set_color_slot, set_font_slot, set_size_step and set_row_height, through the
\* controls of a step.
apply_control_edit(u) ==
    /\ u \in DOMAIN drafts
    /\ \/ \E slot \in {"rowText", "rowBackground", "neon"}, value \in {"light", "dark", "notHex"} :
             _commit(u, [drafts[u] EXCEPT !.colors = [s \in DOMAIN @ \cup {slot} |->
                                                        IF s = slot THEN value ELSE @[s]]])
       \/ \E slot \in FONT_SLOTS \cup {"neon"} :
             _commit(u, [drafts[u] EXCEPT !.fonts = [s \in DOMAIN @ \cup {slot} |->
                                                       IF s = slot THEN "Serif" ELSE @[s]]])
       \/ \E step \in {"sm", "xl", "xxl"} : _commit(u, [drafts[u] EXCEPT !.sizeStep = step])
       \/ \E step \in {"compact", "huge"} : _commit(u, [drafts[u] EXCEPT !.rowHeight = step])
    /\ FlowClick /\ UNCHANGED handed

\* Both fonts take the template's step.
template_create_payload(document) ==
    [colorTemplateName |-> "finished", templateType |-> "user",
     colorSlots |-> document.colors,
     fontSlots |-> [slot \in DOMAIN document.fonts |->
                       [step |-> document.sizeStep, family |-> document.fonts[slot],
                        weight |-> "regular"]],
     typeStepChoice |-> document.sizeStep]

\* The review warns and the save goes on.
finish_user_template(u) ==
    /\ u \in DOMAIN drafts
    /\ \E review \in run_template_guardrail(drafts[u].colors) : review.saveEnabled
    /\ handed' = handed \cup {template_create_payload(drafts[u])}
    /\ drafts' = [v \in DOMAIN drafts \ {u} |-> drafts[v]]
    /\ FlowClick

\* extra="forbid".
TemplateCreateBody == {"colorTemplateName", "colorSlots", "fontSlots", "typeStepChoice"}

-----------------------------------------------------------------------------
FlowInit == ThemeInit /\ drafts = <<>> /\ handed = {}

FlowNext ==
    \/ /\ themeSent < MaxThemeRequests
       /\ \E u \in ThemeUsers :
             \/ \E t \in Templates : start_user_template(u, t)
             \/ apply_control_edit(u)
             \/ finish_user_template(u)
    \/ ThemeNext /\ UNCHANGED flowVars

FlowSpec == FlowInit /\ [][FlowNext]_<<themeVars, flowVars>>

-----------------------------------------------------------------------------
\* Whatever edits, reorders and deletions race in the store, what it holds is
\* what the screens can paint: every rule passes the grid's own check, each
\* target of a row is painted by the matching rule that was ordered first and
\* with a slot every theme fills, and every user's theme and every draft copied
\* from one resolve to a whole document.
StoredThemesRender ==
    /\ RuleListHoldsTogether
    /\ \A t \in LiveTemplates : validate_template(stored_template_option(t))
    /\ \A c \in FRules : frules[c].live => validate_formatting_rule(frules[c].doc)
    /\ \A t \in {x \in LiveTemplates : _live_rules(x) # {}}, record \in Records :
          LET rules == Served(t)
              won == _first_match_per_target(rules, record)
              Claims(target) == {c \in _live_rules(t) : /\ frules[c].doc.effect = target
                                                        /\ condition_matches(frules[c].doc, record)} IN
          /\ \A target \in FORMATTING_EFFECTS :
                /\ target \in DOMAIN won <=> Claims(target) # {}
                /\ \A c \in Claims(target) : frules[won[target]].order <= frules[c].order
          /\ \A selected \in BOOLEAN :
                resolve_row_render(rules, record, 1, selected).text \in COLOR_SLOTS
    /\ \A u \in ThemeUsers :
          /\ \A doc \in get_effective_theme(u) : color_slot_errors(doc.colors) = {}
          /\ u \in DOMAIN drafts =>
                \A r \in RowThemes : validate_row_theme(r) =>
                   LET theme == resolve_effective_grid_theme(drafts[u], r) IN
                   /\ validate_template([x \in DOMAIN drafts[u] |-> theme[x]])
                   /\ theme.rowScoped \subseteq ROW_THEME_COLOR_SLOTS
    /\ \A isData \in [1 .. 3 -> BOOLEAN] :
          LET bands == assign_bands(isData) IN
          \A i, j \in 1 .. 3 : /\ i < j /\ isData[i] /\ isData[j]
                               /\ \A k \in i + 1 .. j - 1 : ~isData[k]
                               => bands[i] # bands[j]

=============================================================================
