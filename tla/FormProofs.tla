------------------------------ MODULE FormProofs ------------------------------
(***************************************************************************)
(* For every form, with any number of fields, values and rules of the kinds *)
(* modelled: marks agree with messages, messages with values, and a form is *)
(* sent off exactly if it is right.                                        *)
(***************************************************************************)
EXTENDS FormValidation, TLAPS

-----------------------------------------------------------------------------
(* The rules and what they ask for.                                        *)

(* What the attributes of a field ask of its own value.                    *)
OwnRight(f) ==
  LET v == value[f] IN
  /\ f \in Required => v # Empty
  /\ v # Empty =>
       /\ f \in EmailFields => v \in Addresses
       /\ f \in DOMAIN MinLength => Size[v] >= MinLength[f]
       /\ f \in DOMAIN MaxLength => Size[v] <= MaxLength[f]

LEMMA RightInParts ==
  ASSUME NEW f \in Fields
  PROVE  IsRight(f) <=> OwnRight(f) /\ (f \in DOMAIN Other => value[f] = value[Other[f]])
BY DEF IsRight, OwnRight

(* What each method looks at.                                              *)
LEMMA Methods ==
  ASSUME NEW f \in Fields, NEW v, v = value'[f]
  PROVE  /\ Satisfies(f, "required") <=> v # Empty
         /\ Satisfies(f, "email") <=> v = Empty \/ v \in Addresses
         /\ Satisfies(f, "minlength") <=> v = Empty \/ Size[v] >= MinLength[f]
         /\ Satisfies(f, "maxlength") <=> v = Empty \/ Size[v] <= MaxLength[f]
         /\ Satisfies(f, "rangelength") <=>
              v = Empty \/ Size[v] \in MinLength[f]..MaxLength[f]
         /\ Satisfies(f, "equalTo") <=> v = value'[Other[f]]
         /\ Satisfies(f, "__dummy__")
<1>1. \A rule : Optional(f, rule) <=> v = Empty /\ rule \notin {"required", "equalTo", "__dummy__"}
  BY DEF Optional
<1> QED
  BY <1>1 DEF Satisfies

(* The rules of a field, one by one.                                       *)
LEMMA RulesOfField ==
  ASSUME NEW f \in Fields
  PROVE  /\ ParseElement(f) \subseteq Rules
         /\ "__dummy__" \in ParseElement(f)
         /\ "required" \in ParseElement(f) <=> f \in Required
         /\ "email" \in ParseElement(f) <=> f \in EmailFields
         /\ "equalTo" \in ParseElement(f) <=> f \in DOMAIN Other
         /\ "minlength" \in ParseElement(f) <=>
              f \in DOMAIN MinLength /\ f \notin DOMAIN MaxLength
         /\ "maxlength" \in ParseElement(f) <=>
              f \in DOMAIN MaxLength /\ f \notin DOMAIN MinLength
         /\ "rangelength" \in ParseElement(f) <=>
              f \in DOMAIN MinLength /\ f \in DOMAIN MaxLength
<1>1. LengthRules(f) =
        (IF f \in DOMAIN MinLength
         THEN IF f \in DOMAIN MaxLength THEN {"rangelength"} ELSE {"minlength"}
         ELSE IF f \in DOMAIN MaxLength THEN {"maxlength"} ELSE {})
  BY DEF LengthRules
<1> QED
  BY <1>1 DEF ParseElement, AdaptedRules, Rules

Parsed(f) == rules[f] = ParseElement(f)

LEMMA BrokenOfOwn ==
  ASSUME NEW f \in Fields, Parsed(f), value'[f] \in Values
  PROVE  Broken(f) \subseteq {"equalTo"} <=> OwnRight(f)'
<1> DEFINE v == value'[f]
<1>1. Size[v] \in Nat
  BY FormAssumption
<1>2. /\ f \in DOMAIN MinLength => MinLength[f] \in Nat
      /\ f \in DOMAIN MaxLength => MaxLength[f] \in Nat
  BY FormAssumption
<1>3. Broken(f) \subseteq {"equalTo"} <=>
        \A rule \in ParseElement(f) : rule # "equalTo" => Satisfies(f, rule)
  BY DEF Broken, Parsed
<1>4. (\A rule \in ParseElement(f) : rule # "equalTo" => Satisfies(f, rule)) <=>
        /\ f \in Required => Satisfies(f, "required")
        /\ f \in EmailFields => Satisfies(f, "email")
        /\ f \in DOMAIN MinLength /\ f \notin DOMAIN MaxLength => Satisfies(f, "minlength")
        /\ f \in DOMAIN MaxLength /\ f \notin DOMAIN MinLength => Satisfies(f, "maxlength")
        /\ f \in DOMAIN MinLength /\ f \in DOMAIN MaxLength => Satisfies(f, "rangelength")
  BY RulesOfField, Methods DEF Rules
<1>5. OwnRight(f)' <=>
        /\ f \in Required => v # Empty
        /\ v # Empty =>
             /\ f \in EmailFields => v \in Addresses
             /\ f \in DOMAIN MinLength => Size[v] >= MinLength[f]
             /\ f \in DOMAIN MaxLength => Size[v] <= MaxLength[f]
  BY DEF OwnRight
<1> QED
  BY <1>1, <1>2, <1>3, <1>4, <1>5, Methods

LEMMA BrokenOfRight ==
  ASSUME NEW f \in Fields, Parsed(f), value'[f] \in Values
  PROVE  Broken(f) = {} <=> IsRight(f)'
<1>1. Broken(f) = {} <=> Broken(f) \subseteq {"equalTo"} /\ "equalTo" \notin Broken(f)
  OBVIOUS
<1>2. "equalTo" \notin Broken(f) <=> (f \in DOMAIN Other => value'[f] = value'[Other[f]])
  BY RulesOfField, Methods DEF Broken, Parsed
<1>3. IsRight(f)' <=> OwnRight(f)' /\ (f \in DOMAIN Other => value'[f] = value'[Other[f]])
  BY DEF IsRight, OwnRight
<1> QED
  BY <1>1, <1>2, <1>3, BrokenOfOwn

(* The rule that is reported is a broken one.                              *)
LEMMA FirstIsBroken ==
  ASSUME NEW f \in Fields, Parsed(f), Broken(f) # {}
  PROVE  FirstBroken(f) \in Rules
<1>1. Broken(f) \subseteq Rules
  BY RulesOfField DEF Broken, Parsed
<1>2. \A rule \in Rules : Place(rule) \in 1..5
  BY DEF Place
<1>3. \E rule \in Broken(f) : \A other \in Broken(f) : Place(rule) <= Place(other)
  <2>1. CASE \E rule \in Broken(f) : Place(rule) = 1
    BY <1>1, <1>2, <2>1
  <2>2. CASE /\ \E rule \in Broken(f) : Place(rule) = 2
             /\ \A rule \in Broken(f) : Place(rule) # 1
    BY <1>1, <1>2, <2>2
  <2>3. CASE /\ \E rule \in Broken(f) : Place(rule) = 3
             /\ \A rule \in Broken(f) : Place(rule) \notin {1, 2}
    BY <1>1, <1>2, <2>3
  <2>4. CASE /\ \E rule \in Broken(f) : Place(rule) = 4
             /\ \A rule \in Broken(f) : Place(rule) \notin {1, 2, 3}
    BY <1>1, <1>2, <2>4
  <2>5. CASE \A rule \in Broken(f) : Place(rule) = 5
    BY <2>5
  <2> QED
    BY <1>1, <1>2, <2>1, <2>2, <2>3, <2>4, <2>5
<1> QED
  BY <1>1, <1>3 DEF FirstBroken

-----------------------------------------------------------------------------
(* What a check of the fields S does, once the page is parsed.             *)

AllParsed == \A f \in Fields : Parsed(f)

LEMMA NoMismatch ==
  ASSUME NEW f \in Fields, Parsed(f)
  PROVE  rules[f] # {} /\ ~Mismatch(f)
<1>1. "__dummy__" \in rules[f]
  BY RulesOfField DEF Parsed
<1>2. ~Optional(f, "__dummy__")
  BY DEF Optional
<1> QED
  BY <1>1, <1>2 DEF Mismatch

Bindings(b) == \A t \in Fields : b[t] # NoField => b[t] \in DOMAIN Other /\ Other[b[t]] = t

LEMMA CheckBinds ==
  ASSUME NEW S \in SUBSET Fields, AllParsed, value' \in [Fields -> Values],
         bound \in [Fields -> Fields \cup {NoField}], Bindings(bound), Check(S)
  PROVE  /\ bound' \in [Fields -> Fields \cup {NoField}]
         /\ Bindings(bound')
         /\ \A t \in Fields : bound[t] # NoField => bound'[t] = bound[t]
         /\ \A f \in S : f \in DOMAIN Other /\ OwnRight(f)' => bound'[Other[f]] # NoField
<1> DEFINE open == {t \in Fields : bound[t] = NoField /\ Binders(S, t) # {}}
<1>1. PICK first \in [open -> S] :
        /\ \A t \in open : first[t] \in Binders(S, t)
        /\ bound' = [t \in Fields |-> IF t \in open THEN first[t] ELSE bound[t]]
  BY DEF Check, Bound
<1>2. \A f \in S : "equalTo" \in rules[f] <=> f \in DOMAIN Other
  BY RulesOfField DEF AllParsed, Parsed
<1>3. ASSUME NEW t \in open
      PROVE  /\ first[t] \in DOMAIN Other
             /\ Other[first[t]] = t
             /\ first[t] \in Fields
             /\ first[t] # NoField
  BY <1>1, <1>2, FormAssumption DEF Binders
<1>4. \A t \in Fields : bound'[t] = IF t \in open THEN first[t] ELSE bound[t]
  BY <1>1
<1>5. \A t \in open : bound[t] = NoField
  OBVIOUS
<1>6. ASSUME NEW f \in S, f \in DOMAIN Other, OwnRight(f)'
      PROVE  bound'[Other[f]] # NoField
  <2>1. Broken(f) \subseteq {"equalTo"}
    BY <1>6, BrokenOfOwn DEF AllParsed
  <2>2. f \in Binders(S, Other[f]) /\ Other[f] \in Fields
    BY <1>2, <1>6, <2>1, FormAssumption DEF Binders
  <2>3. bound[Other[f]] # NoField \/ Other[f] \in open
    BY <2>2
  <2> QED
    BY <1>3, <1>4, <2>2, <2>3
<1> HIDE DEF open
<1>7. bound' \in [Fields -> Fields \cup {NoField}]
  BY <1>1, <1>3
<1>8. Bindings(bound')
  BY <1>3, <1>4 DEF Bindings
<1>9. \A t \in Fields : bound[t] # NoField => bound'[t] = bound[t]
  BY <1>4, <1>5
<1> QED
  BY <1>6, <1>7, <1>8, <1>9

LEMMA CheckJudges ==
  ASSUME NEW S \in SUBSET Fields, AllParsed, value' \in [Fields -> Values],
         message \in [Fields -> Message], marked \subseteq Fields, Check(S)
  PROVE  /\ message' \in [Fields -> Message]
         /\ marked' \subseteq Fields
         /\ \A f \in S : /\ f \in marked' <=> ~IsRight(f)'
                         /\ message'[f].class = "error" <=> ~IsRight(f)'
                         /\ ~IsRight(f)' => f \in submitted'
         /\ \A f \in Fields \ S : /\ f \in marked' <=> f \in marked
                                  /\ message'[f] = message[f]
         /\ submitted \subseteq submitted'
         /\ submitted' \subseteq submitted \cup S
         /\ checked' = checked \cup S
<1> DEFINE wrong == {f \in S : Broken(f) # {}}
<1>1. \A f \in S : f \in wrong <=> ~IsRight(f)'
  BY BrokenOfRight DEF AllParsed
<1>2. message' = [f \in Fields |->
        IF f \in wrong THEN OnError(f)
        ELSE IF f \in S THEN OnSuccess(f)
        ELSE message[f]]
  BY NoMismatch DEF Check, AllParsed
<1>3. /\ marked' = (marked \ S) \cup wrong
      /\ submitted' = submitted \cup wrong
      /\ checked' = checked \cup S
  BY DEF Check
<1>4. ASSUME NEW f \in wrong
      PROVE  OnError(f) \in Message /\ OnError(f).class = "error"
  <2>1. FirstBroken(f) \in Rules
    BY FirstIsBroken DEF AllParsed
  <2>2. message[f].text \in Texts
    BY DEF Message
  <2> QED
    BY <2>1, <2>2 DEF OnError, Message, Texts
<1>5. ASSUME NEW f \in Fields
      PROVE  OnSuccess(f) \in Message /\ OnSuccess(f).class = "valid"
  BY DEF OnSuccess, Message, Texts
<1> HIDE DEF wrong
<1>6. wrong \subseteq S
  BY DEF wrong
<1>7. message' \in [Fields -> Message]
  BY <1>2, <1>4, <1>5
<1>8. ASSUME NEW f \in S
      PROVE  message'[f].class = "error" <=> f \in wrong
  BY <1>2, <1>4, <1>5, <1>8
<1> QED
  BY <1>1, <1>2, <1>3, <1>6, <1>7, <1>8

-----------------------------------------------------------------------------
(* The invariant.  The messages alone are not inductive: while the user is  *)
(* in a field, its message and that of the field compared with it may be    *)
(* out of date, and it takes the binding of the blur, or the memory of what *)
(* was wrong, to see that they are put right when the user leaves.         *)

Current(f) ==
  /\ message[f].class = "error" => ~IsRight(f)
  /\ value[f] # Empty /\ ~IsRight(f) => message[f].class = "error"

(* The fields whose message may be out of date.                            *)
InDoubt(f) == focus # NoField /\ (f = focus \/ (f \in DOMAIN Other /\ Other[f] = focus))

ErrorsRemembered == \A f \in checked : message[f].class = "error" => f \in submitted
CurrentButInDoubt == \A f \in checked : Heeded(f) => InDoubt(f) \/ Current(f)

(* A repetition that has been checked although the blur of its target is    *)
(* not bound yet was wrong by itself, and is, unless the user is in it.    *)
UnboundAreWrong ==
  \A f \in checked \cap DOMAIN Other :
    bound[Other[f]] = NoField =>
      /\ f \in submitted
      /\ focus = f \/ (~OwnRight(f) /\ message[f].class = "error")

ReadyInv ==
  /\ AllParsed
  /\ ErrorsRemembered
  /\ CurrentButInDoubt
  /\ UnboundAreWrong

FormInv ==
  /\ TypeOK
  /\ Bindings(bound)
  /\ MarksMatchMessages
  /\ phase = "loading" => checked = {}
  /\ phase = "ready" => ReadyInv

LEMMA FormInit == Init => FormInv
<1> SUFFICES ASSUME Init PROVE FormInv
  OBVIOUS
<1>1. TypeOK
  BY FormAssumption DEF Init, TypeOK, Phases, Message, Summary, Texts
<1>2. Bindings(bound) /\ MarksMatchMessages
  BY DEF Init, Bindings, MarksMatchMessages
<1> QED
  BY <1>1, <1>2 DEF Init, FormInv

(* Fields, values and focus before and after an event on a ready page.      *)
Event == /\ phase = "ready" /\ phase' = "ready"
         /\ FormInv
         /\ UNCHANGED <<rules, defaults, summary>>
         /\ value' \in [Fields -> Values]
         /\ focus' \in Fields \cup {NoField}
         /\ lastActive' \in Fields \cup {NoField}

(* What a check of the fields S during an event leaves true by itself.      *)
LEMMA EventKeeps ==
  ASSUME NEW S \in SUBSET Fields, Event, Check(S),
         invalid' \subseteq invalid \cup S
  PROVE  /\ TypeOK'
         /\ Bindings(bound)'
         /\ MarksMatchMessages'
         /\ AllParsed'
         /\ ErrorsRemembered'
<1>1. /\ AllParsed /\ ErrorsRemembered
      /\ TypeOK /\ Bindings(bound) /\ MarksMatchMessages
  BY DEF Event, FormInv, ReadyInv
<1>2. /\ message \in [Fields -> Message] /\ marked \subseteq Fields
      /\ bound \in [Fields -> Fields \cup {NoField}]
      /\ value' \in [Fields -> Values]
  BY <1>1 DEF TypeOK, Event
<1> USE CheckJudges, CheckBinds
<1>3. /\ message' \in [Fields -> Message]
      /\ marked' \subseteq Fields
      /\ submitted' \subseteq submitted \cup S
      /\ checked' = checked \cup S
  BY <1>1, <1>2
<1>4. bound' \in [Fields -> Fields \cup {NoField}] /\ Bindings(bound')
  BY <1>1, <1>2
<1>5. TypeOK'
  BY <1>1, <1>2, <1>3, <1>4 DEF TypeOK, Event, Phases
<1>6. MarksMatchMessages'
  BY <1>1, <1>2 DEF MarksMatchMessages
<1>7. AllParsed'
  BY <1>1 DEF AllParsed, Parsed, Event
<1>8. ErrorsRemembered'
  <2> SUFFICES ASSUME NEW f \in checked', message'[f].class = "error"
               PROVE  f \in submitted'
    BY DEF ErrorsRemembered
  <2>1. CASE f \in S
    BY <1>1, <1>2, <2>1
  <2>2. CASE f \notin S
    <3>1. f \in checked /\ f \in Fields
      BY <1>1, <1>3, <2>2 DEF TypeOK
    <3>2. f \in submitted
      BY <1>1, <1>2, <2>2, <3>1 DEF ErrorsRemembered
    <3> QED
      BY <1>1, <1>2, <3>2
  <2> QED
    BY <2>1, <2>2
<1> QED
  BY <1>4, <1>5, <1>6, <1>7, <1>8

(* A checked field is current, and bound or wrong by itself.                *)
LEMMA CheckedIsCurrent ==
  ASSUME NEW S \in SUBSET Fields, Event, Check(S), NEW f \in S
  PROVE  /\ Current(f)'
         /\ f \in DOMAIN Other /\ bound'[Other[f]] = NoField =>
              f \in submitted' /\ ~OwnRight(f)' /\ message'[f].class = "error"
<1>1. /\ AllParsed
      /\ message \in [Fields -> Message] /\ marked \subseteq Fields
      /\ bound \in [Fields -> Fields \cup {NoField}]
      /\ value' \in [Fields -> Values] /\ Bindings(bound)
  BY DEF Event, FormInv, ReadyInv, TypeOK
<1>2. /\ message'[f].class = "error" <=> ~IsRight(f)'
      /\ ~IsRight(f)' => f \in submitted'
  BY <1>1, CheckJudges
<1>3. f \in DOMAIN Other /\ OwnRight(f)' => bound'[Other[f]] # NoField
  BY <1>1, CheckBinds
<1>4. ~OwnRight(f)' => ~IsRight(f)'
  BY DEF OwnRight, IsRight
<1> QED
  BY <1>2, <1>3, <1>4 DEF Current

(* A field the event neither checks nor changes: not it, nor the field it   *)
(* is compared with.                                                       *)
LEMMA OthersAreAsBefore ==
  ASSUME NEW S \in SUBSET Fields, Event, Check(S), NEW f \in Fields \ S,
         value'[f] = value[f]
  PROVE  /\ message'[f] = message[f]
         /\ OwnRight(f)' <=> OwnRight(f)
         /\ (f \in DOMAIN Other => value'[Other[f]] = value[Other[f]]) =>
              (Current(f)' <=> Current(f))
         /\ f \in submitted => f \in submitted'
         /\ f \in DOMAIN Other /\ bound'[Other[f]] = NoField => bound[Other[f]] = NoField
         /\ Heeded(f)' => Heeded(f)
<1>1. /\ AllParsed
      /\ message \in [Fields -> Message] /\ marked \subseteq Fields
      /\ bound \in [Fields -> Fields \cup {NoField}]
      /\ value' \in [Fields -> Values] /\ Bindings(bound)
  BY DEF Event, FormInv, ReadyInv, TypeOK
<1>2. message'[f] = message[f] /\ submitted \subseteq submitted'
  BY <1>1, CheckJudges
<1>3. OwnRight(f)' <=> OwnRight(f)
  BY DEF OwnRight
<1>4. f \in DOMAIN Other => Other[f] \in Fields
  BY FormAssumption
<1>5. \A t \in Fields : bound[t] # NoField => bound'[t] = bound[t]
  BY <1>1, CheckBinds
<1>6. Heeded(f)' => Heeded(f)
  BY <1>4, <1>5 DEF Heeded
<1>7. (f \in DOMAIN Other => value'[Other[f]] = value[Other[f]]) =>
        (IsRight(f)' <=> IsRight(f))
  BY DEF IsRight
<1> QED
  BY <1>2, <1>3, <1>4, <1>5, <1>6, <1>7 DEF Current

-----------------------------------------------------------------------------
(* The events of a ready page.                                             *)

LEMMA EnterKeeps ==
  ASSUME FormInv, phase = "ready", NEW f \in Fields, NEW byTab \in BOOLEAN,
         Enter(f, byTab)
  PROVE  FormInv'
<1> DEFINE S == IF byTab /\ value[f] # Empty THEN {f} \cap (submitted \cup invalid) ELSE {}
<1>1. /\ focus = NoField /\ focus' = f /\ phase' = "ready"
      /\ UNCHANGED <<value, rules>>
  BY DEF Enter
<1>2. S \in SUBSET Fields /\ S \subseteq checked
  BY DEF FormInv, TypeOK
<1>3. /\ Check(S) /\ invalid' \subseteq invalid \cup S
  BY DEF Enter, CheckElements
<1>4. Event
  BY DEF Enter, Event, FormInv, TypeOK
<1> HIDE DEF S
<1>5. /\ TypeOK' /\ Bindings(bound)' /\ MarksMatchMessages'
      /\ AllParsed' /\ ErrorsRemembered'
  BY <1>2, <1>3, <1>4, EventKeeps
<1>6. checked' = checked \cup S /\ checked \subseteq Fields
  BY <1>3 DEF Check, FormInv, TypeOK
<1>7. ReadyInv
  BY DEF FormInv
<1>8. CurrentButInDoubt'
  <2> SUFFICES ASSUME NEW g \in checked', Heeded(g)' PROVE Current(g)'
    BY DEF CurrentButInDoubt
  <2>1. CASE g \in S
    BY <1>2, <1>3, <1>4, <2>1, CheckedIsCurrent
  <2>2. CASE g \notin S
    <3>1. g \in Fields \ S /\ Heeded(g)
      BY <1>1, <1>2, <1>3, <1>4, <1>6, <2>2, OthersAreAsBefore
    <3>2. Current(g)
      BY <1>1, <1>6, <1>7, <2>2, <3>1 DEF ReadyInv, CurrentButInDoubt, InDoubt
    <3> QED
      BY <1>1, <1>2, <1>3, <1>4, <3>1, <3>2, OthersAreAsBefore
  <2> QED
    BY <2>1, <2>2
<1>9. UnboundAreWrong'
  <2> SUFFICES ASSUME NEW g \in checked', g \in DOMAIN Other, bound'[Other[g]] = NoField
               PROVE  g \in submitted' /\ ~OwnRight(g)' /\ message'[g].class = "error"
    BY DEF UnboundAreWrong
  <2>1. CASE g \in S
    BY <1>2, <1>3, <1>4, <2>1, CheckedIsCurrent
  <2>2. CASE g \notin S
    <3>1. bound[Other[g]] = NoField /\ g \in Fields \ S
      BY <1>1, <1>2, <1>3, <1>4, <1>6, <2>2, OthersAreAsBefore
    <3>2. g # NoField
      BY <3>1, FormAssumption
    <3>3. g \in submitted /\ ~OwnRight(g) /\ message[g].class = "error"
      BY <1>1, <1>6, <1>7, <2>2, <3>1, <3>2 DEF ReadyInv, UnboundAreWrong
    <3> QED
      BY <1>1, <1>2, <1>3, <1>4, <3>1, <3>3, OthersAreAsBefore
  <2> QED
    BY <2>1, <2>2
<1> QED
  BY <1>1, <1>5, <1>8, <1>9 DEF FormInv, ReadyInv

LEMMA ChangeKeeps ==
  ASSUME FormInv, phase = "ready", NEW f \in Fields, NEW v \in Values,
         NEW byKey \in BOOLEAN, Change(f, v, byKey)
  PROVE  FormInv'
<1> DEFINE S == IF byKey THEN {f} \cap (submitted \cup invalid) ELSE {}
<1>1. /\ focus = f /\ focus' = f /\ phase' = "ready"
      /\ value' = [value EXCEPT ![f] = v]
      /\ value \in [Fields -> Values]
      /\ f # NoField
  BY FormAssumption DEF Change, FormInv, TypeOK
<1>2. S \in SUBSET Fields /\ S \subseteq checked /\ S \subseteq {f}
  BY DEF FormInv, TypeOK
<1>3. Check(S) /\ invalid' \subseteq invalid \cup S
  BY DEF Change, CheckElements
<1>4. Event
  BY DEF Change, Event, FormInv, TypeOK
<1> HIDE DEF S
<1>5. /\ TypeOK' /\ Bindings(bound)' /\ MarksMatchMessages'
      /\ AllParsed' /\ ErrorsRemembered'
  BY <1>2, <1>3, <1>4, EventKeeps
<1>6. checked' = checked /\ checked \subseteq Fields
  BY <1>2, <1>3 DEF Check, FormInv, TypeOK
<1>7. ReadyInv
  BY DEF FormInv
<1>8. CurrentButInDoubt'
  <2> SUFFICES ASSUME NEW g \in checked', Heeded(g)', ~InDoubt(g)'
               PROVE  Current(g)'
    BY DEF CurrentButInDoubt
  <2>1. g \in Fields \ S /\ g # f /\ (g \in DOMAIN Other => Other[g] # f)
    BY <1>1, <1>2, <1>6 DEF InDoubt
  <2>2. value'[g] = value[g] /\ (g \in DOMAIN Other => value'[Other[g]] = value[Other[g]])
    BY <1>1, <2>1, FormAssumption
  <2>3. Heeded(g)
    BY <1>2, <1>3, <1>4, <2>1, <2>2, OthersAreAsBefore
  <2>4. Current(g)
    BY <1>1, <1>6, <1>7, <2>1, <2>3 DEF ReadyInv, CurrentButInDoubt, InDoubt
  <2> QED
    BY <1>2, <1>3, <1>4, <2>1, <2>2, <2>4, OthersAreAsBefore
<1>9. UnboundAreWrong'
  <2> SUFFICES ASSUME NEW g \in checked', g \in DOMAIN Other, bound'[Other[g]] = NoField
               PROVE  /\ g \in submitted'
                      /\ g = f \/ (~OwnRight(g)' /\ message'[g].class = "error")
    BY <1>1 DEF UnboundAreWrong
  <2>1. bound[Other[g]] = NoField
    <3>1. \A t \in Fields : bound[t] # NoField => bound'[t] = bound[t]
      BY <1>2, <1>3, <1>4, <1>7, CheckBinds DEF Event, FormInv, ReadyInv, TypeOK
    <3> QED
      BY <3>1, FormAssumption
  <2>2. /\ g \in submitted
        /\ g = f \/ (~OwnRight(g) /\ message[g].class = "error")
    BY <1>1, <1>6, <1>7, <2>1 DEF ReadyInv, UnboundAreWrong
  <2>3. submitted \subseteq submitted'
    BY <1>3 DEF Check
  <2>4. CASE g # f
    <3>1. g \in Fields \ S /\ value'[g] = value[g]
      BY <1>1, <1>2, <1>6, <2>4
    <3> QED
      BY <1>2, <1>3, <1>4, <2>2, <2>3, <2>4, <3>1, OthersAreAsBefore
  <2> QED
    BY <2>2, <2>3, <2>4
<1> QED
  BY <1>1, <1>5, <1>8, <1>9 DEF FormInv, ReadyInv

(* Leaving a field settles every doubt.                                    *)
LEMMA LeaveKeeps ==
  ASSUME FormInv, phase = "ready", Leave
  PROVE  FormInv'
<1> DEFINE S == LeftFields(focus, bound, submitted)
<1>1. /\ focus \in Fields /\ focus # NoField /\ focus' = NoField /\ phase' = "ready"
      /\ UNCHANGED <<value, rules>>
  BY DEF Leave, FormInv, TypeOK
<1>2. /\ S \in SUBSET Fields
      /\ bound[focus] # NoField => bound[focus] \in S
      /\ focus \in submitted \/ value[focus] # Empty => focus \in S
  BY <1>1 DEF LeftFields, FormInv, TypeOK
<1>3. Check(S) /\ invalid' \subseteq invalid \cup S
  BY DEF Leave, CheckElements
<1>4. Event
  BY DEF Leave, Event, FormInv, TypeOK
<1> HIDE DEF S
<1>5. /\ TypeOK' /\ Bindings(bound)' /\ MarksMatchMessages'
      /\ AllParsed' /\ ErrorsRemembered'
  BY <1>2, <1>3, <1>4, EventKeeps
<1>6. checked' = checked \cup S /\ checked \subseteq Fields
  BY <1>3 DEF Check, FormInv, TypeOK
<1>7. ReadyInv
  BY DEF FormInv
<1>8. ASSUME NEW g \in checked \ S, g \in DOMAIN Other, bound'[Other[g]] = NoField
      PROVE  g \in submitted' /\ ~OwnRight(g)' /\ message'[g].class = "error"
  <2>1. bound[Other[g]] = NoField /\ g \in Fields \ S
    BY <1>1, <1>2, <1>3, <1>4, <1>6, <1>8, OthersAreAsBefore
  <2>2. g \in submitted /\ (g = focus \/ (~OwnRight(g) /\ message[g].class = "error"))
    BY <1>7, <1>8, <2>1 DEF ReadyInv, UnboundAreWrong
  <2>3. g # focus
    BY <1>2, <1>8, <2>2
  <2> QED
    BY <1>1, <1>2, <1>3, <1>4, <2>1, <2>2, <2>3, OthersAreAsBefore
<1>9. CurrentButInDoubt'
  <2> SUFFICES ASSUME NEW g \in checked', Heeded(g)' PROVE Current(g)'
    BY DEF CurrentButInDoubt
  <2>1. CASE g \in S
    BY <1>2, <1>3, <1>4, <2>1, CheckedIsCurrent
  <2>2. ASSUME g \notin S
        PROVE  Current(g)
    <3>1. g \in checked /\ g \in Fields /\ Heeded(g)
      BY <1>1, <1>2, <1>3, <1>4, <1>6, <2>2, OthersAreAsBefore
    <3>2. CASE g = focus
      <4>1. g \notin submitted /\ value[g] = Empty
        BY <1>2, <2>2, <3>2
      <4>2. message[g].class # "error"
        BY <1>7, <3>1, <4>1 DEF ReadyInv, ErrorsRemembered
      <4> QED
        BY <4>1, <4>2 DEF Current
    <3>3. CASE g \in DOMAIN Other /\ Other[g] = focus
      <4>1. bound[focus] = NoField
        BY <1>2, <2>2, <3>1, <3>3 DEF Heeded
      <4>2. g # focus
        BY <3>3, FormAssumption
      <4>3. ~OwnRight(g) /\ message[g].class = "error"
        BY <1>7, <3>1, <3>3, <4>1, <4>2 DEF ReadyInv, UnboundAreWrong
      <4> QED
        BY <4>3 DEF Current, OwnRight, IsRight
    <3>4. CASE ~InDoubt(g)
      BY <1>7, <3>1, <3>4 DEF ReadyInv, CurrentButInDoubt
    <3> QED
      BY <3>2, <3>3, <3>4 DEF InDoubt
  <2>3. CASE g \notin S
    <3>1. g \in Fields \ S
      BY <1>6, <2>3
    <3> QED
      BY <1>1, <1>2, <1>3, <1>4, <2>2, <2>3, <3>1, OthersAreAsBefore
  <2> QED
    BY <2>1, <2>3
<1>10. UnboundAreWrong'
  <2> SUFFICES ASSUME NEW g \in checked', g \in DOMAIN Other, bound'[Other[g]] = NoField
               PROVE  g \in submitted' /\ ~OwnRight(g)' /\ message'[g].class = "error"
    BY DEF UnboundAreWrong
  <2>1. CASE g \in S
    BY <1>2, <1>3, <1>4, <2>1, CheckedIsCurrent
  <2>2. CASE g \notin S
    BY <1>6, <1>8, <2>2
  <2> QED
    BY <2>1, <2>2
<1> QED
  BY <1>1, <1>5, <1>9, <1>10 DEF FormInv, ReadyInv

(* A submission looks at every field, by what it is worth now.              *)
LEMMA AllAreElements ==
  ASSUME FormInv, phase = "ready"
  PROVE  /\ AllParsed
         /\ Elements = Fields
<1>1. AllParsed
  BY DEF FormInv, ReadyInv
<1> QED
  BY <1>1, NoMismatch DEF Elements, AllParsed

LEMMA WrongAreWrong ==
  ASSUME FormInv, phase = "ready", UNCHANGED value, NEW f \in Fields
  PROVE  f \in Wrong <=> ~IsRight(f)
<1>1. value' \in [Fields -> Values]
  BY DEF FormInv, TypeOK
<1>2. Broken(f) = {} <=> IsRight(f)'
  BY <1>1, AllAreElements, BrokenOfRight DEF AllParsed
<1>3. IsRight(f)' <=> IsRight(f)
  BY DEF IsRight
<1> QED
  BY <1>2, <1>3, AllAreElements DEF Wrong

LEMMA SubmitKeeps ==
  ASSUME FormInv, phase = "ready", Submit
  PROVE  FormInv'
<1>1. /\ AllParsed /\ Elements = Fields
      /\ TypeOK /\ MarksMatchMessages /\ Bindings(bound)
  BY AllAreElements DEF FormInv
<1>2. Check(Fields) /\ phase' = "sent" /\ UNCHANGED value /\ invalid' = {}
  BY <1>1 DEF Submit
<1>3. /\ message \in [Fields -> Message] /\ marked \subseteq Fields
      /\ bound \in [Fields -> Fields \cup {NoField}]
      /\ value' \in [Fields -> Values]
  BY <1>1, <1>2 DEF TypeOK
<1>4. /\ message' \in [Fields -> Message] /\ marked' \subseteq Fields
      /\ submitted' \subseteq submitted \cup Fields
      /\ checked' = checked \cup Fields
  BY <1>1, <1>2, <1>3, CheckJudges
<1>5. bound' \in [Fields -> Fields \cup {NoField}] /\ Bindings(bound')
  BY <1>1, <1>2, <1>3, CheckBinds
<1>6. TypeOK'
  BY <1>1, <1>2, <1>3, <1>4, <1>5 DEF TypeOK, Submit, Phases
<1>7. MarksMatchMessages'
  BY <1>1, <1>2, <1>3, CheckJudges DEF MarksMatchMessages
<1> QED
  BY <1>2, <1>5, <1>6, <1>7 DEF FormInv

LEMMA RefusalKeeps ==
  ASSUME FormInv, phase = "ready", SubmitRefused
  PROVE  FormInv'
<1>1. /\ AllParsed /\ Elements = Fields
      /\ TypeOK /\ MarksMatchMessages /\ Bindings(bound)
  BY AllAreElements DEF FormInv
<1>2. Check(Fields) /\ phase' = "ready" /\ UNCHANGED <<value, rules>>
  BY <1>1 DEF SubmitRefused
<1>3. /\ message \in [Fields -> Message] /\ marked \subseteq Fields
      /\ bound \in [Fields -> Fields \cup {NoField}]
      /\ value' \in [Fields -> Values]
  BY <1>1, <1>2 DEF TypeOK
<1>4. /\ message' \in [Fields -> Message] /\ marked' \subseteq Fields
      /\ submitted' \subseteq submitted \cup Fields
      /\ checked' = checked \cup Fields
  BY <1>1, <1>2, <1>3, CheckJudges
<1>5. /\ bound' \in [Fields -> Fields \cup {NoField}] /\ Bindings(bound')
      /\ \A f \in Fields : f \in DOMAIN Other /\ OwnRight(f)' => bound'[Other[f]] # NoField
  BY <1>1, <1>2, <1>3, CheckBinds
<1>6. Wrong \subseteq Fields
  BY <1>1 DEF Wrong
<1>7. focus' \in Fields /\ lastActive' \in Fields
  BY <1>6 DEF SubmitRefused
<1>8. invalid' \subseteq Fields
  BY <1>6 DEF SubmitRefused, LeftFields
<1>9. summary' \in Summary
  BY <1>6 DEF SubmitRefused, Summary
<1>10. TypeOK'
  <2>1. checked' = Fields
    BY <1>1, <1>4 DEF TypeOK
  <2>2. submitted' \subseteq Fields
    BY <1>1, <1>4 DEF TypeOK
  <2>3. defaults' = defaults
    BY DEF SubmitRefused
  <2> QED
    BY <1>1, <1>2, <1>3, <1>4, <1>5, <1>7, <1>8, <1>9, <2>1, <2>2, <2>3
    DEF TypeOK, Phases
<1>11. \A f \in Fields : /\ f \in marked' <=> ~IsRight(f)'
                         /\ message'[f].class = "error" <=> ~IsRight(f)'
                         /\ ~IsRight(f)' => f \in submitted'
  BY <1>1, <1>2, <1>3, CheckJudges
<1>12. MarksMatchMessages'
  BY <1>11 DEF MarksMatchMessages
<1>13. checked' \subseteq Fields
  BY <1>10 DEF TypeOK
<1>14. ErrorsRemembered' /\ CurrentButInDoubt'
  BY <1>11, <1>13 DEF ErrorsRemembered, CurrentButInDoubt, Current
<1>15. UnboundAreWrong'
  <2> SUFFICES ASSUME NEW f \in Fields, f \in DOMAIN Other, bound'[Other[f]] = NoField
               PROVE  f \in submitted' /\ ~OwnRight(f)' /\ message'[f].class = "error"
    BY <1>13 DEF UnboundAreWrong
  <2>1. ~OwnRight(f)'
    BY <1>5
  <2>2. ~IsRight(f)'
    BY <2>1 DEF OwnRight, IsRight
  <2> QED
    BY <1>11, <2>1, <2>2
<1>16. AllParsed'
  BY <1>1, <1>2 DEF AllParsed, Parsed
<1> QED
  BY <1>2, <1>5, <1>10, <1>12, <1>14, <1>15, <1>16 DEF FormInv, ReadyInv

LEMMA ResetKeeps ==
  ASSUME FormInv, phase = "ready", Reset
  PROVE  FormInv'
<1>1. /\ TypeOK /\ AllParsed /\ Bindings(bound)
      /\ phase' = phase /\ value' = defaults /\ marked' = {} /\ checked' = {}
      /\ submitted' = {} /\ invalid' = {}
      /\ UNCHANGED <<phase, defaults, focus, lastActive, rules, bound>>
  BY DEF FormInv, ReadyInv, Reset, ResetMarks
<1>2. message' = [f \in Fields |-> [message[f] EXCEPT !.class = "valid"]]
  BY DEF Reset, ResetMarks
<1>3. \A f \in Fields : [message[f] EXCEPT !.class = "valid"] \in [class : {"valid"}, text : Texts]
  BY <1>1 DEF TypeOK, Message
<1>4. /\ message' \in [Fields -> Message]
      /\ \A f \in Fields : message'[f].class = "valid"
  BY <1>2, <1>3 DEF Message
<1>5. summary' \in Summary
  BY <1>1 DEF Reset, ResetMarks, TypeOK, Summary
<1>6. TypeOK'
  BY <1>1, <1>4, <1>5 DEF TypeOK
<1>7. MarksMatchMessages'
  BY <1>1, <1>4 DEF MarksMatchMessages
<1>8. ReadyInv'
  BY <1>1 DEF ReadyInv, AllParsed, Parsed, ErrorsRemembered, CurrentButInDoubt, UnboundAreWrong
<1> QED
  BY <1>1, <1>6, <1>7, <1>8 DEF FormInv, Bindings

-----------------------------------------------------------------------------
(* Pages that come and go.                                                 *)

LEMMA ReadyKeeps ==
  ASSUME FormInv, Ready
  PROVE  FormInv'
<1>1. \A f \in Fields : ParseElement(f) \in SUBSET Rules
  BY RulesOfField
<1>2. rules' \in [Fields -> SUBSET Rules] /\ AllParsed'
  BY <1>1 DEF Ready, Settings, AllParsed, Parsed, ParseElement, AdaptedRules, LengthRules
<1>3. TypeOK'
  BY <1>2 DEF Ready, FormInv, TypeOK, Phases
<1>4. ReadyInv'
  BY <1>2 DEF Ready, FormInv, ReadyInv, ErrorsRemembered, CurrentButInDoubt, UnboundAreWrong
<1> QED
  BY <1>3, <1>4 DEF Ready, FormInv, Bindings, MarksMatchMessages

LEMMA LoadingKeeps ==
  ASSUME FormInv, phase = "loading",
         \/ \E f \in Fields, byTab \in BOOLEAN : Enter(f, byTab)
         \/ \E f \in Fields, v \in Values, byKey \in BOOLEAN : Change(f, v, byKey)
         \/ Leave
  PROVE  FormInv'
<1>1. /\ phase' = "loading"
      /\ UNCHANGED <<defaults, lastActive, rules, submitted, invalid, bound, marked,
                     message, summary, checked>>
  BY DEF Enter, Change, Leave
<1>2. value' \in [Fields -> Values] /\ focus' \in Fields \cup {NoField}
  BY DEF Enter, Change, Leave, FormInv, TypeOK
<1> QED
  BY <1>1, <1>2 DEF FormInv, TypeOK, Bindings, MarksMatchMessages

LEMMA SubmitEarlyKeeps ==
  ASSUME FormInv, SubmitEarly
  PROVE  FormInv'
BY DEF SubmitEarly, FormInv, TypeOK, Phases, Bindings, MarksMatchMessages

LEMMA ReloadKeeps ==
  ASSUME FormInv, NEW E \in SUBSET Fields, Reload(E)
  PROVE  FormInv'
<1>1. /\ phase' = "loading" /\ focus' = NoField /\ lastActive' = NoField
      /\ submitted' = {} /\ invalid' = {} /\ checked' = {} /\ marked' = E
      /\ value' \in [Fields -> Values] /\ defaults' = value'
      /\ rules' \in [Fields -> SUBSET Rules]
      /\ bound' \in [Fields -> Fields \cup {NoField}]
      /\ Bindings(bound')
  <2>1. /\ value' = [f \in Fields |-> IF f \in Secret THEN Empty ELSE value[f]]
        /\ rules' = [f \in Fields |-> {}]
        /\ bound' = [f \in Fields |-> NoField]
    BY DEF Reload
  <2>2. value \in [Fields -> Values] /\ Empty \in Values
    BY FormAssumption DEF FormInv, TypeOK
  <2>3. value' \in [Fields -> Values]
    BY <2>1, <2>2
  <2>4. bound' \in [Fields -> Fields \cup {NoField}] /\ Bindings(bound')
    BY <2>1 DEF Bindings
  <2>5. rules' \in [Fields -> SUBSET Rules]
    BY <2>1
  <2> QED
    BY <2>3, <2>4, <2>5 DEF Reload
<1>2. message' = [f \in Fields |->
        IF f \in E THEN [class |-> "error", text |-> "server"]
        ELSE [class |-> "valid", text |-> ""]]
  BY DEF Reload
<1>3. /\ message' \in [Fields -> Message]
      /\ \A f \in Fields : message'[f].class = "error" <=> f \in E
  BY <1>2 DEF Message, Texts
<1>4. summary' \in Summary
  BY DEF Reload, Summary
<1>5. TypeOK'
  BY <1>1, <1>3, <1>4 DEF TypeOK, Phases
<1> QED
  BY <1>1, <1>3, <1>5 DEF FormInv, MarksMatchMessages

-----------------------------------------------------------------------------
LEMMA FormNext == FormInv /\ [Next]_vars => FormInv'
<1> SUFFICES ASSUME FormInv, [Next]_vars PROVE FormInv'
  OBVIOUS
<1>1. phase \in {"loading", "ready", "sent"}
  BY DEF FormInv, TypeOK, Phases
<1>2. CASE Ready
  BY <1>2, ReadyKeeps
<1>3. CASE \E f \in Fields, byTab \in BOOLEAN : Enter(f, byTab)
  <2>1. phase # "sent"
    BY <1>3 DEF Enter
  <2> QED
    BY <1>1, <1>3, <2>1, LoadingKeeps, EnterKeeps
<1>4. CASE \E f \in Fields, v \in Values, byKey \in BOOLEAN : Change(f, v, byKey)
  <2>1. phase # "sent"
    BY <1>4 DEF Change
  <2> QED
    BY <1>1, <1>4, <2>1, LoadingKeeps, ChangeKeeps
<1>5. CASE Leave
  <2>1. phase # "sent"
    BY <1>5 DEF Leave
  <2> QED
    BY <1>1, <1>5, <2>1, LoadingKeeps, LeaveKeeps
<1>6. CASE SubmitEarly
  BY <1>6, SubmitEarlyKeeps
<1>7. CASE Submit
  BY <1>7, SubmitKeeps DEF Submit
<1>8. CASE SubmitRefused
  BY <1>8, RefusalKeeps DEF SubmitRefused
<1>9. CASE Reset
  BY <1>9, ResetKeeps DEF Reset, ResetMarks
<1>10. CASE \E E \in SUBSET Fields : Reload(E)
  BY <1>10, ReloadKeeps
<1>11. CASE UNCHANGED vars
  BY <1>11 DEF vars, FormInv, TypeOK, Bindings, MarksMatchMessages, ReadyInv, AllParsed,
               Parsed, ErrorsRemembered, CurrentButInDoubt, InDoubt, Heeded, Current,
               UnboundAreWrong, OwnRight, IsRight
<1> QED
  BY <1>2, <1>3, <1>4, <1>5, <1>6, <1>7, <1>8, <1>9, <1>10, <1>11 DEF Next

THEOREM FormInvariant == Spec => []FormInv
BY FormInit, FormNext, PTL DEF Spec

(* Every reachable state of a page is well typed; in particular what was     *)
(* found wrong, and what was judged, has been checked since the page came   *)
(* or was reset (jquery.validate.js:449, :421).                            *)
THEOREM FormTypeCorrect == Spec => []TypeOK
<1>1. FormInv => TypeOK
  BY DEF FormInv
<1> QED
  BY <1>1, FormInvariant, PTL

(* In every form the mark of an input and the message beside it agree, two   *)
(* scripts set them notwithstanding (unobtrusive:43, :88, :102).           *)
THEOREM MarksAgree == Spec => []MarksMatchMessages
<1>1. FormInv => MarksMatchMessages
  BY DEF FormInv
<1> QED
  BY <1>1, FormInvariant, PTL

(* In every form, what is shown of a checked field while the user is in no   *)
(* field is true of the values now, those of the field it repeats included, *)
(* unless the blur of that field is bound to another repetition             *)
(* (jquery.validate.js:298, :1489).                                        *)
THEOREM MessagesStayCurrent == Spec => []MessagesAreCurrent
<1>1. FormInv => MessagesAreCurrent
  <2> SUFFICES ASSUME FormInv, phase = "ready", focus = NoField,
                      NEW f \in checked, Heeded(f)
               PROVE  Current(f)
    BY DEF MessagesAreCurrent, Current
  <2> QED
    BY DEF FormInv, ReadyInv, CurrentButInDoubt, InDoubt
<1> QED
  BY <1>1, FormInvariant, PTL

(* Every target has one repetition, as in the forms of identity pages.       *)
RepeatedOnce == \A f, g \in DOMAIN Other : Other[f] = Other[g] => f = g
AllAreCurrent == phase = "ready" /\ focus = NoField => \A f \in checked : Current(f)

(* In a form that repeats no field twice, every checked field shows what is  *)
(* true of the values now while the user is in no field: nothing but a      *)
(* second repetition keeps an old message (jquery.validate.js:1493).       *)
THEOREM OneRepetitionSuffices == RepeatedOnce => (Spec => []AllAreCurrent)
<1> SUFFICES ASSUME RepeatedOnce PROVE Spec => []AllAreCurrent
  OBVIOUS
<1>1. FormInv /\ MessagesAreCurrent => AllAreCurrent
  <2> SUFFICES ASSUME FormInv, MessagesAreCurrent, phase = "ready", focus = NoField,
                      NEW f \in checked
               PROVE  Current(f)
    BY DEF AllAreCurrent
  <2>1. Heeded(f)
    <3> SUFFICES ASSUME f \in DOMAIN Other, bound[Other[f]] # NoField
                 PROVE  bound[Other[f]] = f
      BY DEF Heeded
    <3>1. LET g == bound[Other[f]] IN g \in DOMAIN Other /\ Other[g] = Other[f]
      BY FormAssumption DEF FormInv, Bindings
    <3> QED
      BY <3>1 DEF RepeatedOnce
  <2> QED
    BY <2>1 DEF MessagesAreCurrent, Current
<1> QED
  BY <1>1, FormInvariant, MessagesStayCurrent, PTL

(* Every form whose page is ready is sent off exactly if all fields are      *)
(* right by their attributes, whatever was shown or found before           *)
(* (unobtrusive:177, jquery.validate.js:62).                               *)
THEOREM RightFormsAreSent == Spec => SentIfRight
<1>1. ASSUME FormInv, phase = "ready", Submit \/ SubmitRefused
      PROVE  phase' = "sent" <=> \A f \in Fields : IsRight(f)
  <2>1. UNCHANGED value
    BY <1>1 DEF Submit, SubmitRefused
  <2>2. Wrong \subseteq Fields
    BY DEF Wrong, Elements
  <2>3. Wrong = {} <=> \A f \in Fields : IsRight(f)
    BY <1>1, <2>1, <2>2, WrongAreWrong
  <2> QED
    BY <1>1, <2>3 DEF Submit, SubmitRefused
<1>2. FormInv => [phase = "ready" /\ (Submit \/ SubmitRefused) =>
                    (phase' = "sent" <=> \A f \in Fields : IsRight(f))]_vars
  BY <1>1
<1> QED
  BY <1>2, FormInvariant, PTL DEF SentIfRight
=============================================================================
