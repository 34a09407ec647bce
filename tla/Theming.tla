------------------------------- MODULE Theming -------------------------------
(***************************************************************************)
(* Color templates, their conditional-formatting rules and the one type    *)
(* scale: src/mentorapp/api/routers/theming.py over api/theming_surface.py *)
(* and storage/theming.py.  A request validates what it read (the named    *)
(* verbs) and writes in a later step (Write...), where an UPDATE sets the  *)
(* changed columns only and carries the version its row was read at.       *)
(***************************************************************************)
EXTENDS Integers, FiniteSets, Sequences, SequencesExt, Requests

CONSTANTS
    Templates, FRules,      \* identifiers of templates; 1 .. n, those of rules
    ThemeUsers, TNames,     \* users, template names
    TemplateDocs,           \* documents that are sent: [colors, fonts, choice]
    RuleDocs, RulePatches,  \* rule documents; fields a PATCH sends, as functions
    ScaleDocs,              \* scaleSteps documents that are sent
    SeedRules,              \* how many rules a template may have at the start
    MaxThemeRequests        \* bound on the requests and clicks

\* The fields of a rule document, as a body's types leave them.
RuleDocument ==
    [field : STRING, operator : STRING, value : STRING, effect : STRING, slot : STRING]

ASSUME ThemingAssumption ==
    /\ IsFiniteSet(FRules) /\ FRules = 1 .. Cardinality(FRules)
    /\ {SeedRules, MaxThemeRequests} \subseteq Nat
    /\ RuleDocs \subseteq RuleDocument
    /\ \A sent \in RulePatches : \A f \in DOMAIN sent : sent[f] \in STRING

VARIABLES
    templates,   \* [Templates -> colorTemplate row]
    frules,      \* [FRules -> conditionalFormattingRule row]
    scale,       \* the shared typeScale row, [steps, version]
    choices,     \* the theming.templateChoice preference of each user
    themeReq,    \* [Slots -> request]
    themeSent,   \* requests and clicks so far
    collided,    \* history: an order collided in a request that had its list to itself
    late         \* history: rules appended to a template that was being deleted

themeVars == <<templates, frules, scale, choices, themeReq, themeSent, collided, late>>

-----------------------------------------------------------------------------
CHROME_COLOR_SLOTS ==
    {"appBackground", "panelBackground", "headerBackground", "headerText", "accent"}
ROW_THEME_COLOR_SLOTS ==
    {"rowBackground", "rowAlternateBackground", "rowText", "selectedRowBackground",
     "selectedRowText", "groupHeaderBackground", "groupHeaderText"}
STATUS_COLOR_SLOTS == {"statusPositive", "statusWarning", "statusNegative"}
COLOR_SLOTS == CHROME_COLOR_SLOTS \cup ROW_THEME_COLOR_SLOTS \cup STATUS_COLOR_SLOTS
FONT_SLOTS == {"uiFont", "dataFont"}
TYPE_SCALE_STEPS == <<"xs", "sm", "md", "lg", "xl">>
PRESENCE_OPERATORS == {"isEmpty", "isNotEmpty"}
CONDITION_OPERATORS ==
    {"equals", "notEquals", "greaterThan", "lessThan", "contains"} \cup PRESENCE_OPERATORS
FORMATTING_EFFECTS == {"rowBackground", "rowText", "accent"}

\* A #rrggbb colour is one of two shades; "notHex" is any other value.
HexColor == {"light", "dark"}

\* The curated document: STANDARD_TEMPLATE in the persisted slot shapes.
_builtin_org_default_slots ==
    [colors |-> [slot \in COLOR_SLOTS |-> IF slot \in {"headerText", "rowText", "selectedRowText",
                                                       "groupHeaderText"} THEN "dark" ELSE "light"],
     fonts |-> [slot \in FONT_SLOTS |-> [step |-> "md", family |-> "Inter", weight |-> "regular"]],
     choice |-> "md"]

\* A row that does not exist yet.
Absent == [version |-> 0, live |-> FALSE]

\* owner "system": userID is NULL.
ColorTemplate ==
    [live : BOOLEAN, owner : ThemeUsers \cup {"system"}, name : TNames,
     doc : TemplateDocs \cup {_builtin_org_default_slots}, version : Nat]

ConditionalFormattingRule ==
    [live : BOOLEAN, template : Templates, order : Nat, version : Nat,
     doc : [field : STRING, operator : CONDITION_OPERATORS, value : STRING,
            effect : FORMATTING_EFFECTS, slot : STATUS_COLOR_SLOTS]]

-----------------------------------------------------------------------------
\* The validators give the fields they report.
_exact_key_errors(document, required) ==
    (required \ DOMAIN document) \cup (DOMAIN document \ required)

color_slot_errors(colors) ==
    _exact_key_errors(colors, COLOR_SLOTS)
    \cup {slot \in COLOR_SLOTS \cap DOMAIN colors : colors[slot] \notin HexColor}

\* A font spec: [step, family, weight]; a blank family or a weight off
\* 100-900 is "bad".
_font_spec_errors(spec, steps) ==
    _exact_key_errors(spec, {"step", "family", "weight"})
    \cup {key \in DOMAIN spec : IF key = "step" THEN spec[key] \notin steps
                                ELSE spec[key] = "bad"}

font_slot_errors(fonts, steps) ==
    _exact_key_errors(fonts, FONT_SLOTS)
    \cup {slot \in FONT_SLOTS \cap DOMAIN fonts : _font_spec_errors(fonts[slot], steps) # {}}

type_step_choice_errors(step, steps) == {step} \ steps

scale_step_errors(document) ==
    LET steps == ToSet(TYPE_SCALE_STEPS)
        sizes == [i \in DOMAIN TYPE_SCALE_STEPS |-> document[TYPE_SCALE_STEPS[i]]] IN
    _exact_key_errors(document, steps)
    \cup {step \in steps \cap DOMAIN document : document[step] <= 0}
    \cup (IF steps \subseteq DOMAIN document /\ \E i \in 2 .. Len(sizes) : sizes[i - 1] >= sizes[i]
          THEN {"scaleSteps"} ELSE {})

\* conditionValue is known by its JSON type.
_condition_value_errors(operator, value) ==
    IF \/ (operator \in PRESENCE_OPERATORS) # (value = "null")
       \/ operator = "contains" /\ value # "text"
       \/ operator \in {"greaterThan", "lessThan"} /\ value \notin {"text", "number"}
       \/ operator \in {"equals", "notEquals"} /\ value \notin {"text", "number", "flag"}
    THEN {"conditionValue"} ELSE {}

rule_errors(rule) ==
    {f \in {"conditionField"} : rule.field = "blank"}
    \cup (IF rule.operator \notin CONDITION_OPERATORS THEN {"conditionOperator"}
          ELSE _condition_value_errors(rule.operator, rule.value))
    \cup {f \in {"effect"} : rule.effect \notin FORMATTING_EFFECTS}
    \cup {f \in {"effectSlot"} : rule.slot \notin STATUS_COLOR_SLOTS}

\* A field no grid data source exposes.
_condition_field_errors(field) == {field} \cap {"unknown"}

rule_order_errors(submitted, live) ==
    {e \in {"duplicate"} : ~IsInjective(submitted)}
    \cup {e \in {"stranger"} : ToSet(submitted) \ live # {}}
    \cup {e \in {"missing"} : live \ ToSet(submitted) # {}}

-----------------------------------------------------------------------------
Steps == DOMAIN scale.steps
LiveTemplates == {t \in Templates : templates[t].live}
_live_rules(t) == {c \in FRules : frules[c].live /\ frules[c].template = t}
NewestOrder(orders) == CHOOSE o \in orders : \A p \in orders : p <= o

_visible_template(t, u) == t \in LiveTemplates /\ templates[t].owner \in {u, "system"}
\* _visible_template and _refuse_system_writes.
Writable(t, u) == _visible_template(t, u) /\ templates[t].owner # "system"

NameIsTaken(u, name, except) ==
    \E t \in LiveTemplates \ except : templates[t].owner = u /\ templates[t].name = name

\* History: an append has its template's list to itself while no other append
\* to it is in progress, a reorder while no other reorder of it is and no
\* append that is not alone.
Crowd(reqs) ==
    LET Others(p, pc) == {x \in Slots \ {p} : reqs[x].pc = pc /\ reqs[x].t = reqs[p].t}
        Lone(p) == reqs[p].alone /\ Others(p, reqs[p].pc) = {} IN
    [p \in Slots |->
        CASE reqs[p].pc = "newRule" -> [reqs[p] EXCEPT !.alone = Lone(p)]
          [] reqs[p].pc = "order" ->
                [reqs[p] EXCEPT !.alone = Lone(p) /\ \A x \in Others(p, "newRule") : Lone(x)]
          [] OTHER -> reqs[p]]

ThemeBegin(q, request) ==
    /\ themeReq[q] = Idle
    /\ themeReq' = Crowd([themeReq EXCEPT ![q] = request])
    /\ themeSent' = themeSent + 1
    /\ UNCHANGED <<templates, frules, scale, choices, collided, late>>
ThemeEnd(q) == themeReq' = [themeReq EXCEPT ![q] = Idle] /\ UNCHANGED themeSent

\* POST /theming/templates.
create_template(q, t, u, name, doc) ==
    /\ templates[t].version = 0
    /\ color_slot_errors(doc.colors) = {} /\ font_slot_errors(doc.fonts, Steps) = {}
    /\ type_step_choice_errors(doc.choice, Steps) = {} /\ ~NameIsTaken(u, name, {})
    /\ ThemeBegin(q, [pc |-> "newTemplate", t |-> t,
           row |-> [live |-> TRUE, owner |-> u, name |-> name, doc |-> doc, version |-> 1]])

\* PATCH /theming/templates/{id} with the row's own rowVersion (else 409).
patch_template(q, t, u, name, doc) ==
    /\ Writable(t, u)
    /\ color_slot_errors(doc.colors) = {} /\ font_slot_errors(doc.fonts, Steps) = {}
    /\ type_step_choice_errors(doc.choice, Steps) = {} /\ ~NameIsTaken(u, name, {t})
    /\ <<name, doc>> # <<templates[t].name, templates[t].doc>>
    /\ ThemeBegin(q, [pc |-> "template", t |-> t, row |->
           [templates[t] EXCEPT !.name = name, !.doc = doc, !.version = @ + 1]])

\* DELETE /theming/templates/{id}: the template and the rules it has now.
delete_template(q, t, u) ==
    /\ Writable(t, u)
    /\ ThemeBegin(q, [pc |-> "dropTemplate", t |-> t, version |-> templates[t].version,
           rules |-> [c \in _live_rules(t) |-> frules[c].version]])

\* PATCH /theming/type-scale.
patch_type_scale(q, steps) ==
    /\ scale_step_errors(steps) = {} /\ steps # scale.steps
    /\ ThemeBegin(q, [pc |-> "scale", steps |-> steps, version |-> scale.version])

NextOrder(t) == IF _live_rules(t) = {} THEN 1
                ELSE NewestOrder({frules[c].order : c \in _live_rules(t)}) + 1

\* POST /theming/templates/{id}/rules.
create_rule(q, c, t, u, doc) ==
    /\ Writable(t, u) /\ frules[c].version = 0
    /\ rule_errors(doc) = {} /\ _condition_field_errors(doc.field) = {}
    /\ ThemeBegin(q, [pc |-> "newRule", c |-> c, t |-> t, alone |-> TRUE,
           row |-> [live |-> TRUE, template |-> t, order |-> NextOrder(t), doc |-> doc,
                    version |-> 1]])

\* PATCH /theming/rules/{id} with the row's own rowVersion: the document merged
\* with the stored rule is validated, its changed columns are written.
patch_rule(q, c, u, sent) ==
    LET merged == [f \in DOMAIN frules[c].doc |->
                      IF f \in DOMAIN sent THEN sent[f] ELSE frules[c].doc[f]] IN
    /\ frules[c].live /\ Writable(frules[c].template, u)
    /\ rule_errors(merged) = {} /\ _condition_field_errors(merged.field) = {}
    /\ merged # frules[c].doc
    /\ ThemeBegin(q, [pc |-> "rule", c |-> c, version |-> frules[c].version,
           columns |-> {f \in DOMAIN merged : merged[f] # frules[c].doc[f]},
           merged |-> merged])

\* DELETE /theming/rules/{id}.
delete_rule(q, c, u) ==
    /\ frules[c].live /\ Writable(frules[c].template, u)
    /\ ThemeBegin(q, [pc |-> "dropRule", c |-> c, version |-> frules[c].version])

\* PUT /theming/templates/{id}/rules/order: the rules that are not at their
\* position are moved.
put_rule_order(q, t, u, order) ==
    LET Moved == {i \in DOMAIN order : frules[order[i]].order # i} IN
    /\ Writable(t, u) /\ rule_order_errors(order, _live_rules(t)) = {}
    /\ Moved # {}
    /\ ThemeBegin(q, [pc |-> "order", t |-> t, alone |-> TRUE, order |-> order, moved |-> Moved,
           versions |-> [c \in ToSet(order) |-> frules[c].version]])

-----------------------------------------------------------------------------
\* A stale version, or a name or an order that was taken meanwhile, rolls back.
WriteTemplate(q) ==
    LET w == themeReq[q] IN
    /\ w.pc \in {"newTemplate", "template"} /\ ThemeEnd(q)
    /\ templates' = IF w.row.version = templates[w.t].version + 1
                       /\ ~NameIsTaken(w.row.owner, w.row.name, {w.t})
                    THEN [templates EXCEPT ![w.t] = w.row] ELSE templates
    /\ UNCHANGED <<frules, scale, choices, collided, late>>

Dropped(row) == [row EXCEPT !.live = FALSE, !.version = @ + 1]

\* Mutant: the rules stay behind.
DropTemplateMutant(q) ==
    LET w == themeReq[q] IN
    /\ w.pc = "dropTemplate" /\ ThemeEnd(q)
    /\ templates' = IF w.version = templates[w.t].version
                    THEN [templates EXCEPT ![w.t] = Dropped(@)] ELSE templates
    /\ UNCHANGED <<frules, scale, choices, collided, late>>

DropTemplate(q) ==
    LET w == themeReq[q]
        lands == /\ w.version = templates[w.t].version
                 /\ \A c \in DOMAIN w.rules : w.rules[c] = frules[c].version IN
    /\ w.pc = "dropTemplate" /\ ThemeEnd(q)
    /\ templates' = IF lands THEN [templates EXCEPT ![w.t] = Dropped(@)] ELSE templates
    /\ frules' = IF lands THEN [c \in FRules |-> IF c \in DOMAIN w.rules THEN Dropped(frules[c])
                                                 ELSE frules[c]] ELSE frules
    /\ late' = IF lands THEN late \cup (_live_rules(w.t) \ DOMAIN w.rules) ELSE late
    /\ UNCHANGED <<scale, choices, collided>>

WriteScale(q) ==
    LET w == themeReq[q] IN
    /\ w.pc = "scale" /\ ThemeEnd(q)
    /\ scale' = IF w.version = scale.version
                THEN [steps |-> w.steps, version |-> scale.version + 1] ELSE scale
    /\ UNCHANGED <<templates, frules, choices, collided, late>>

\* uq_conditionalFormattingRule_template_order_live.
OrderIsTaken(t, order, except) ==
    \E c \in _live_rules(t) \ except : frules[c].order = order

WriteNewRule(q) ==
    LET w == themeReq[q]
        taken == OrderIsTaken(w.row.template, w.row.order, {}) IN
    /\ w.pc = "newRule" /\ ThemeEnd(q)
    /\ frules' = IF taken \/ frules[w.c].version # 0 THEN frules
                 ELSE [frules EXCEPT ![w.c] = w.row]
    /\ collided' = (collided \/ (taken /\ w.alone))
    /\ late' = IF templates[w.row.template].live THEN late ELSE late \cup {w.c}
    /\ UNCHANGED <<templates, scale, choices>>

Columns(doc, w) == [f \in DOMAIN doc |-> IF f \in w.columns THEN w.merged[f] ELSE doc[f]]

WriteRule(q) ==
    LET w == themeReq[q] IN
    /\ w.pc = "rule" /\ ThemeEnd(q)
    /\ frules' = IF w.version = frules[w.c].version
                 THEN [frules EXCEPT ![w.c].doc = Columns(@, w), ![w.c].version = @ + 1]
                 ELSE frules
    /\ UNCHANGED <<templates, scale, choices, collided, late>>

DropRule(q) ==
    LET w == themeReq[q] IN
    /\ w.pc = "dropRule" /\ ThemeEnd(q)
    /\ frules' = IF w.version = frules[w.c].version
                 THEN [frules EXCEPT ![w.c] = Dropped(@)] ELSE frules
    /\ UNCHANGED <<templates, scale, choices, collided, late>>

\* Two UPDATEs of every moved rule, through its negated position; the index
\* judges each.
WriteOrder(q) ==
    LET w == themeReq[q]
        movedRules == {w.order[i] : i \in w.moved}
        current == \A c \in movedRules : w.versions[c] = frules[c].version
        taken == \E i \in w.moved :
                    OrderIsTaken(frules[w.order[i]].template, i, movedRules) IN
    /\ w.pc = "order" /\ ThemeEnd(q)
    /\ frules' = IF current /\ ~taken
                 THEN [c \in FRules |-> IF c \in movedRules
                        THEN [frules[c] EXCEPT !.order = CHOOSE i \in w.moved : w.order[i] = c,
                                               !.version = @ + 2]
                        ELSE frules[c]]
                 ELSE frules
    /\ collided' = (collided \/ (current /\ taken /\ w.alone))
    /\ UNCHANGED <<templates, scale, choices, late>>

\* The picker's PUT of the preference: a template's key, a launch key, or none.
ChooseTemplate(u) ==
    /\ \E key \in Templates \cup {"standard", "none"} : choices' = [choices EXCEPT ![u] = key]
    /\ themeSent' = themeSent + 1
    /\ UNCHANGED <<templates, frules, scale, themeReq, collided, late>>

-----------------------------------------------------------------------------
\* The curated "standard" row; {} when it was never seeded.
_org_default_template == {t \in LiveTemplates : templates[t].owner = "system"}

_chosen_template(u) ==
    {t \in Templates :
        /\ choices[u] = t \/ (choices[u] = "standard" /\ t \in _org_default_template)
        /\ _visible_template(t, u)}

\* The document the caller's screens paint with.
get_effective_theme(u) ==
    IF _chosen_template(u) # {} THEN {templates[t].doc : t \in _chosen_template(u)}
    ELSE IF _org_default_template # {} THEN {templates[t].doc : t \in _org_default_template}
    ELSE {_builtin_org_default_slots}

\* The seeded scale; one template, of the organization or of a user, and its rules.
ThemeInit ==
    /\ scale = [steps |-> [xs |-> 11, sm |-> 12, md |-> 14, lg |-> 16, xl |-> 20], version |-> 1]
    /\ \E t \in Templates, owner \in ThemeUsers \cup {"system"}, name \in TNames :
          templates = [[x \in Templates |-> Absent] EXCEPT ![t] =
             [live |-> TRUE, owner |-> owner, name |-> name, doc |-> _builtin_org_default_slots,
              version |-> 1]]
    /\ \E t \in {x \in Templates : templates[x].live}, n \in {0, SeedRules}, rule \in RuleDocs :
          /\ rule_errors(rule) = {} /\ _condition_field_errors(rule.field) = {}
          /\ frules = [c \in FRules |-> IF c > n THEN Absent ELSE
                [live |-> TRUE, template |-> t, order |-> c, doc |-> rule, version |-> 1]]
    /\ choices = [u \in ThemeUsers |-> "none"]
    /\ themeReq = [q \in Slots |-> Idle]
    /\ themeSent = 0 /\ collided = FALSE /\ late = {}

FreeSlots == {q \in Slots : themeReq[q] = Idle}

\* A request that has read is served.
ThemeServe ==
    \E q \in Slots :
       \/ WriteTemplate(q) \/ DropTemplate(q) \/ WriteScale(q) \/ WriteNewRule(q)
       \/ WriteRule(q) \/ DropRule(q) \/ WriteOrder(q)

ThemeNext ==
    \/ /\ themeSent < MaxThemeRequests
       /\ \/ \E q \in FreeSlots, t \in Templates, u \in ThemeUsers :
                \/ \E name \in TNames, doc \in TemplateDocs :
                      create_template(q, t, u, name, doc) \/ patch_template(q, t, u, name, doc)
                \/ delete_template(q, t, u)
                \/ \E c \in FRules, doc \in RuleDocs : create_rule(q, c, t, u, doc)
                \/ \E order \in [1 .. Cardinality(_live_rules(t)) -> FRules] :
                      put_rule_order(q, t, u, order)
          \/ \E q \in FreeSlots, c \in FRules, u \in ThemeUsers :
                (\E sent \in RulePatches : patch_rule(q, c, u, sent)) \/ delete_rule(q, c, u)
          \/ \E q \in FreeSlots, steps \in ScaleDocs : patch_type_scale(q, steps)
          \/ \E u \in ThemeUsers : ChooseTemplate(u)
    \/ ThemeServe

ThemeSpec == ThemeInit /\ [][ThemeNext]_themeVars

-----------------------------------------------------------------------------
ThemeTypeOK ==
    /\ \A t \in Templates : templates[t] \in ColorTemplate \cup {Absent}
    /\ \A c \in FRules : frules[c] \in ConditionalFormattingRule \cup {Absent}
    /\ DOMAIN themeReq = Slots /\ late \subseteq FRules

\* Rules are kept in one list, through any sequence of deletions with their
\* gaps, reorders and appends: an append never finds its order taken unless
\* another append to the template ran alongside, and a reorder whose rules are
\* as it read them finds a position taken only if another reorder, or two
\* appends that met, ran alongside it; and a template that is deleted takes
\* every rule with it that was not appended while the deletion ran.
RuleListHoldsTogether ==
    /\ ~collided
    /\ \A c \in FRules \ late : frules[c].live => templates[frules[c].template].live
    /\ \A c, d \in FRules : c # d /\ frules[c].live /\ frules[d].live
                              /\ frules[c].template = frules[d].template
                              => frules[c].order # frules[d].order
=============================================================================
