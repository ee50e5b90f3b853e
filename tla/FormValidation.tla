---------------------------- MODULE FormValidation ----------------------------
(***************************************************************************)
(* A form in the browser, validated by the script the web application      *)
(* serves with its pages (jquery.validate.unobtrusive.js, on top of         *)
(* jquery.validate.js).  The script reads the rules of each field from its  *)
(* attributes when the page is ready, checks fields as the user leaves or   *)
(* corrects them, and the whole form when it is submitted.                 *)
(*                                                                         *)
(* Two parts keep what the user sees: jquery.validate.js marks the inputs,  *)
(* the unobtrusive script fills the message beside each input.  A field may *)
(* be compared with another one, whose change then concerns both.          *)
(***************************************************************************)
EXTENDS Naturals, FiniteSets

CONSTANTS
  Fields,       \* names of the fields, all with data-val="true"
  NoField,      \* no element
  Values,       \* what may be in a field
  Empty,        \* the empty string
  Size,         \* the length of each value
  Addresses,    \* the values that are addresses
  Required,     \* fields with data-val-required
  EmailFields,  \* fields with data-val-email
  MinLength,    \* data-val-length-min of the fields that have it
  MaxLength,    \* data-val-length-max of the fields that have it
  Other,        \* data-val-equalto-other of the fields that have it
  Replaced,     \* fields whose message has data-valmsg-replace="true"
  Secret        \* fields a server never fills in

ASSUME FormAssumption ==
  /\ NoField \notin Fields
  /\ Empty \in Values
  /\ Size \in [Values -> Nat]
  /\ \A v \in Values : Size[v] = 0 <=> v = Empty
  /\ DOMAIN MinLength \subseteq Fields /\ MinLength \in [DOMAIN MinLength -> Nat]
  /\ DOMAIN MaxLength \subseteq Fields /\ MaxLength \in [DOMAIN MaxLength -> Nat]
  /\ DOMAIN Other \subseteq Fields
  /\ \A f \in DOMAIN Other : Other[f] \in Fields \ {f}

VARIABLES
  phase,      \* of the page: its scripts are loading, it is ready, or sent off
  value,      \* what is in each field
  defaults,   \* what was in it when the page came
  focus,      \* the field the user is in
  lastActive, \* the field that received the focus last
  rules,      \* settings.rules of the validator
  submitted,  \* names of the fields that have been found in error
  invalid,    \* names of the fields in the map of the last verdicts
  bound,      \* the field that is checked when this one is left
  marked,     \* inputs with the class input-validation-error
  message,    \* class and text of the message beside each input
  summary,    \* class and entries of the summary
  checked     \* history: fields checked since the page came or was reset

vars == <<phase, value, defaults, focus, lastActive, rules, submitted, invalid,
          bound, marked, message, summary, checked>>

-----------------------------------------------------------------------------
Phases == {"loading", "ready", "sent"}
Rules == {"required", "email", "minlength", "maxlength", "rangelength",
          "equalTo", "__dummy__"}

(* A text is named by the rule it is about; "server" came with the page.    *)
Texts == Rules \cup {"", "server"}
Message == [class: {"valid", "error"}, text: Texts]
Summary == [class: {"valid", "error"}, list: SUBSET Fields]

Init ==
  /\ phase = "loading"
  /\ value = [f \in Fields |-> Empty]
  /\ defaults = value
  /\ focus = NoField
  /\ lastActive = NoField
  /\ rules = [f \in Fields |-> {}]
  /\ submitted = {}
  /\ invalid = {}
  /\ bound = [f \in Fields |-> NoField]
  /\ marked = {}
  /\ message = [f \in Fields |-> [class |-> "valid", text |-> ""]]
  /\ summary = [class |-> "valid", list |-> {}]
  /\ checked = {}

-----------------------------------------------------------------------------
(* The adapters: which rules the attributes of a field stand for.          *)

(* addMinMax("length", "minlength", "maxlength", "rangelength")            *)
LengthRules(f) ==
  CASE f \in DOMAIN MinLength \cap DOMAIN MaxLength -> {"rangelength"}
    [] f \in DOMAIN MinLength \ DOMAIN MaxLength -> {"minlength"}
    [] f \in DOMAIN MaxLength \ DOMAIN MinLength -> {"maxlength"}
    [] OTHER -> {}

AdaptedRules(f) ==
  (IF f \in Required THEN {"required"} ELSE {})
    \cup (IF f \in EmailFields THEN {"email"} ELSE {})
    \cup LengthRules(f)
    \cup (IF f \in DOMAIN Other THEN {"equalTo"} ELSE {})

(* parseElement, as it would be without its last rule, and as it is: the    *)
(* rule that always holds makes a field that may be empty a success.       *)
ParseElementPlain(f) == AdaptedRules(f)
ParseElement(f) == AdaptedRules(f) \cup {"__dummy__"}

(* validate() copies the rules once, the first time it is called: after all *)
(* elements were parsed, or too early.                                     *)
SettingsOfFirst == LET first == CHOOSE f \in Fields : TRUE
                   IN  [f \in Fields |-> IF f = first THEN ParseElement(f) ELSE {}]
Settings == [f \in Fields |-> ParseElement(f)]

-----------------------------------------------------------------------------
(* The methods of the rules.  But for required and equalTo, what is empty   *)
(* satisfies them.                                                         *)
Optional(f, rule) == value'[f] = Empty /\ rule \notin {"required", "equalTo", "__dummy__"}

Satisfies(f, rule) ==
  LET v == value'[f] IN
  \/ Optional(f, rule)
  \/ CASE rule = "required" -> v # Empty
       [] rule = "email" -> v \in Addresses
       [] rule = "minlength" -> Size[v] >= MinLength[f]
       [] rule = "maxlength" -> Size[v] <= MaxLength[f]
       [] rule = "rangelength" -> Size[v] \in MinLength[f]..MaxLength[f]
       [] rule = "equalTo" -> v = value'[Other[f]]
       [] rule = "__dummy__" -> TRUE

Broken(f) == {rule \in rules[f] : ~Satisfies(f, rule)}

(* rules() puts required at the front; the others are in the order of the   *)
(* adapters.                                                               *)
Place(rule) ==
  CASE rule = "required" -> 1
    [] rule = "email" -> 2
    [] rule = "equalTo" -> 4
    [] rule = "__dummy__" -> 5
    [] OTHER -> 3
FirstBroken(f) ==
  CHOOSE rule \in Broken(f) : \A other \in Broken(f) : Place(rule) <= Place(other)

(* A field whose only rule does not apply is neither right nor wrong.       *)
Mismatch(f) == Cardinality(rules[f]) = 1 /\ \A rule \in rules[f] : Optional(f, rule)

(* onError and onSuccess: what becomes of the message beside the field.     *)
OnError(f) ==
  [class |-> "error", text |-> IF f \in Replaced THEN FirstBroken(f) ELSE message[f].text]
OnSuccess(f) ==
  [class |-> "valid", text |-> IF f \in Replaced THEN "" ELSE message[f].text]

(* The fields of S whose check gets as far as equalTo and its target t: the  *)
(* rules before it hold.                                                   *)
Binders(S, t) ==
  {f \in S : "equalTo" \in rules[f] /\ Other[f] = t /\ Broken(f) \subseteq {"equalTo"}}

(* equalTo binds the blur of its target, unless one is bound already: the   *)
(* first field that comes, and the order of the fields on the page is left  *)
(* open.  The first form never binds.                                      *)
BoundNever(S) == {bound}
Bound(S) ==
  LET open == {t \in Fields : bound[t] = NoField /\ Binders(S, t) # {}} IN
  {[t \in Fields |-> IF t \in open THEN first[t] ELSE bound[t]] :
     first \in {b \in [open -> S] : \A t \in open : b[t] \in Binders(S, t)}}

(* check and defaultShowErrors for the fields in S.                        *)
Check(S) ==
  LET wrong == {f \in S : Broken(f) # {}} IN
  /\ message' = [f \in Fields |->
       IF f \in wrong THEN OnError(f)
       ELSE IF f \in S /\ rules[f] # {} /\ ~Mismatch(f) THEN OnSuccess(f)
       ELSE message[f]]
  /\ marked' = (marked \ S) \cup wrong
  /\ submitted' = submitted \cup wrong
  /\ bound' \in Bound(S)
  /\ checked' = checked \cup S

(* element(), for each field in S.                                         *)
CheckElements(S) ==
  /\ Check(S)
  /\ invalid' = invalid \cup S

-----------------------------------------------------------------------------
(* $(document).ready: parse, and attachValidation.                         *)
Ready ==
  /\ phase = "loading"
  /\ phase' = "ready"
  /\ rules' = Settings
  /\ UNCHANGED <<value, defaults, focus, lastActive, submitted, invalid, bound,
                 marked, message, summary, checked>>

(* The user enters a field.  Coming by the tab key, the key goes up in it:  *)
(* onkeyup leaves an empty field alone.                                    *)
Enter(f, byTab) ==
  /\ phase # "sent"
  /\ focus = NoField
  /\ focus' = f
  /\ UNCHANGED <<phase, value, defaults, rules, summary>>
  /\ IF phase = "ready"
     THEN /\ lastActive' = f
          /\ CheckElements(IF byTab /\ value[f] # Empty
                           THEN {f} \cap (submitted \cup invalid) ELSE {})
     ELSE UNCHANGED <<lastActive, submitted, invalid, bound, marked, message,
                      checked>>

(* The user changes the field, with keys or without (by the mouse).        *)
Change(f, v, byKey) ==
  /\ phase # "sent"
  /\ focus = f
  /\ v # value[f]
  /\ value' = [value EXCEPT ![f] = v]
  /\ UNCHANGED <<phase, defaults, focus, lastActive, rules, summary>>
  /\ IF phase = "ready"
     THEN CheckElements(IF byKey THEN {f} \cap (submitted \cup invalid) ELSE {})
     ELSE UNCHANGED <<submitted, invalid, bound, marked, message, checked>>

(* Blur and focusout: the field that is compared with this one is checked,  *)
(* and this one unless it was never wrong and is empty.                    *)
LeftFields(f, binding, wrong) ==
  ({binding[f]} \cap Fields) \cup (IF f \in wrong \/ value[f] # Empty THEN {f} ELSE {})

Leave ==
  /\ phase # "sent"
  /\ focus # NoField
  /\ focus' = NoField
  /\ UNCHANGED <<phase, value, defaults, lastActive, rules, summary>>
  /\ IF phase = "ready"
     THEN CheckElements(LeftFields(focus, bound, submitted))
     ELSE UNCHANGED <<submitted, invalid, bound, marked, message, checked>>

-----------------------------------------------------------------------------
(* The fields form() looks at: those with rules.                           *)
Elements == {f \in Fields : rules[f] # {}}
Wrong == {f \in Elements : Broken(f) # {}}

(* Before the scripts are there nobody looks at the form.                  *)
SubmitEarly ==
  /\ phase = "loading"
  /\ phase' = "sent"
  /\ UNCHANGED <<value, defaults, focus, lastActive, rules, submitted, invalid,
                 bound, marked, message, summary, checked>>

Submit ==
  /\ phase = "ready"
  /\ UNCHANGED value
  /\ Wrong = {}
  /\ phase' = "sent"
  /\ Check(Elements)
  /\ invalid' = {}
  /\ UNCHANGED <<defaults, focus, lastActive, rules, summary>>

(* onErrors, and focusInvalid: to the field that was active last, if it is  *)
(* wrong, else to a wrong one.  The blur this may cause checks fields whose *)
(* verdict is known; it leaves their names in the map.                     *)
SubmitRefused ==
  /\ phase = "ready"
  /\ UNCHANGED value
  /\ Wrong # {}
  /\ Check(Elements)
  /\ summary' = [class |-> "error", list |-> Wrong]
  /\ focus' \in IF lastActive \in Wrong THEN {lastActive} ELSE Wrong
  /\ lastActive' = focus'
  /\ invalid' = Wrong \cup
       (IF focus \in Fields \ {focus'} THEN LeftFields(focus, bound', submitted') ELSE {})
  /\ UNCHANGED <<phase, defaults, rules>>

(* onReset with resetForm: marks and messages are put back, with the text   *)
(* they have, and what was found wrong is forgotten - or not.              *)
ResetMarks ==
  /\ phase = "ready"
  /\ focus = NoField
  /\ value' = defaults
  /\ marked' = {}
  /\ message' = [f \in Fields |-> [message[f] EXCEPT !.class = "valid"]]
  /\ summary' = [summary EXCEPT !.class = "valid"]
  /\ checked' = {}
  /\ UNCHANGED <<phase, defaults, focus, lastActive, rules, bound>>

ResetMarksOnly ==
  /\ ResetMarks
  /\ UNCHANGED <<submitted, invalid>>

Reset ==
  /\ ResetMarks
  /\ submitted' = {}
  /\ invalid' = {}

(* The server answers with the page again, and with what it found wrong.    *)
Reload(E) ==
  /\ phase = "sent"
  /\ phase' = "loading"
  /\ value' = [f \in Fields |-> IF f \in Secret THEN Empty ELSE value[f]]
  /\ defaults' = value'
  /\ focus' = NoField
  /\ lastActive' = NoField
  /\ rules' = [f \in Fields |-> {}]
  /\ submitted' = {}
  /\ invalid' = {}
  /\ bound' = [f \in Fields |-> NoField]
  /\ marked' = E
  /\ message' = [f \in Fields |->
       IF f \in E THEN [class |-> "error", text |-> "server"]
       ELSE [class |-> "valid", text |-> ""]]
  /\ summary' = [class |-> IF E = {} THEN "valid" ELSE "error", list |-> E]
  /\ checked' = {}

-----------------------------------------------------------------------------
Next ==
  \/ Ready
  \/ \E f \in Fields, byTab \in BOOLEAN : Enter(f, byTab)
  \/ \E f \in Fields, v \in Values, byKey \in BOOLEAN : Change(f, v, byKey)
  \/ Leave
  \/ SubmitEarly \/ Submit \/ SubmitRefused
  \/ Reset
  \/ \E E \in SUBSET Fields : Reload(E)

Spec == Init /\ [][Next]_vars

-----------------------------------------------------------------------------
TypeOK ==
  /\ phase \in Phases
  /\ value \in [Fields -> Values]
  /\ defaults \in [Fields -> Values]
  /\ focus \in Fields \cup {NoField}
  /\ lastActive \in Fields \cup {NoField}
  /\ rules \in [Fields -> SUBSET Rules]
  /\ submitted \subseteq checked
  /\ invalid \subseteq checked
  /\ bound \in [Fields -> Fields \cup {NoField}]
  /\ marked \subseteq Fields
  /\ message \in [Fields -> Message]
  /\ summary \in Summary
  /\ checked \subseteq Fields

(* What the attributes of a field ask of the values, whatever the rules.    *)
IsRight(f) ==
  LET v == value[f] IN
  /\ f \in Required => v # Empty
  /\ v # Empty =>
       /\ f \in EmailFields => v \in Addresses
       /\ f \in DOMAIN MinLength => Size[v] >= MinLength[f]
       /\ f \in DOMAIN MaxLength => Size[v] <= MaxLength[f]
  /\ f \in DOMAIN Other => v = value[Other[f]]

(* Nobody but this field is checked when the one it is compared with is left.*)
Heeded(f) == f \in DOMAIN Other => bound[Other[f]] \in {f, NoField}

(* While the user is in no field, a field that has been checked shows an    *)
(* error only if it is wrong, and, unless it is empty, whenever it is: also *)
(* one that is compared with another, which changed since.  Of several      *)
(* compared with one target this is said of the first alone: the target is  *)
(* bound once (jquery.validate.js:1493), and the others keep old messages.  *)
(* (jquery.validate.js:298, :1489; unobtrusive:55, :86).                   *)
MessagesAreCurrent ==
  phase = "ready" /\ focus = NoField =>
    \A f \in checked : Heeded(f) =>
      /\ message[f].class = "error" => ~IsRight(f)
      /\ value[f] # Empty /\ ~IsRight(f) => message[f].class = "error"

(* The mark of an input and the message beside it tell the same, whoever    *)
(* set them: the server, a check, a refused submission, a reset.           *)
MarksMatchMessages == \A f \in Fields : f \in marked <=> message[f].class = "error"

(* Once the page is ready, a form is sent off exactly if all its fields are *)
(* right, for the values they have then: no rule is lost on the way from    *)
(* the attributes to the validator, and no old verdict stands in the way   *)
(* (unobtrusive:177-256, jquery.validate.js:62).                           *)
SentIfRight ==
  [][phase = "ready" /\ (Submit \/ SubmitRefused) =>
       (phase' = "sent" <=> \A f \in Fields : IsRight(f))]_vars
=============================================================================
