---------------------------- MODULE WizardProofs ----------------------------
(***************************************************************************)
(* Proofs about Wizard.  A link holds the form's fields but the empty      *)
(* ones, so decoding an encoded form gives the form back (RoundTrip), and  *)
(* encoding a decoded link the link (EncodeDecode).  What is shown once    *)
(* all is quiet follows from what a single call of generate has taken      *)
(* (GenInv).                                                               *)
(***************************************************************************)
EXTENDS Wizard, TLAPS

-----------------------------------------------------------------------------
(* Links *)

\* A protocol buffer has no empty fields.
Canonical(x) == x.version = 1 => \A f \in DOMAIN x.data : x.data[f] # Empty

\* What is known of an element of Links.
LEMMA LinkFields ==
    ASSUME NEW x \in Links
    PROVE  /\ x.version \in {0, 1}
           /\ DOMAIN x.data \subseteq Field
           /\ \A f \in DOMAIN x.data : x.data[f] \in Value
           /\ x.data = [f \in DOMAIN x.data |-> x.data[f]]
           /\ x = [version |-> x.version, data |-> x.data]
<1>1. PICK F \in SUBSET Field : x \in [version : {0, 1}, data : [F -> Value]]
    BY DEF Links
<1>2. x.data \in [F -> Value] /\ x.version \in {0, 1}
    BY <1>1
<1>3. DOMAIN x.data = F
    BY <1>2
<1> QED
    BY <1>1, <1>2, <1>3

\* Encoding a form gives a link, without empty fields.
LEMMA EncodeType ==
    ASSUME NEW s \in Specs
    PROVE  Encode(s) \in Links /\ Canonical(Encode(s)) /\ Encode(s) # None
<1> DEFINE F == {g \in Field : s[g] # Empty}
           d == [f \in F |-> s[f]]
<1>1. d \in [F -> Value] /\ F \in SUBSET Field
    BY DEF Specs
<1>2. Encode(s) = [version |-> 1, data |-> d]
    BY DEF Encode
<1>3. Encode(s) \in [version : {0, 1}, data : [F -> Value]]
    BY <1>1, <1>2
<1>4. Encode(s) \in Links
    BY <1>1, <1>3 DEF Links
<1>5. DOMAIN d = F /\ \A f \in F : d[f] # Empty
    OBVIOUS
<1>6. Canonical(Encode(s))
  <2> HIDE DEF d, F
  <2> QED
      BY <1>2, <1>5 DEF Canonical
<1> QED
    BY <1>4, <1>6, WizardAssumption

\* Decoding an encoded form gives the form.
LEMMA RoundTrip ==
    ASSUME NEW s \in Specs
    PROVE  Decode(Encode(s)) = s
<1> DEFINE d == [f \in {g \in Field : s[g] # Empty} |-> s[f]]
<1>1. Encode(s).version = 1 /\ Encode(s).data = d
    BY DEF Encode
<1>2. Decode(Encode(s)) = [f \in Field |-> IF f \in DOMAIN d THEN d[f] ELSE Empty]
    BY <1>1 DEF Decode
<1>3. \A f \in Field : (IF f \in DOMAIN d THEN d[f] ELSE Empty) = s[f]
    OBVIOUS
<1> QED
    BY <1>2, <1>3 DEF Specs

\* The form that a decoded link makes of another form.
Merge(x, s) ==
    [f \in Field |-> IF f \in DOMAIN Decode(x) THEN Decode(x)[f] ELSE s[f]]

\* It is a form.
LEMMA MergeType ==
    ASSUME NEW x \in Links, NEW s \in Specs
    PROVE  Merge(x, s) \in Specs
<1>1. \A f \in DOMAIN Decode(x) : f \in Field => Decode(x)[f] \in Value
    BY LinkFields, WizardAssumption DEF Decode
<1> QED
    BY <1>1 DEF Merge, Specs

\* Encoding a decoded version 1 link gives the link, whatever form it came to.
LEMMA EncodeDecode ==
    ASSUME NEW x \in Links, NEW s \in Specs, Canonical(x), x.version = 1
    PROVE  Encode(Merge(x, s)) = x
<1> DEFINE m == Merge(x, s)
           F == DOMAIN x.data
<1>1. Decode(x) = [f \in Field |-> IF f \in F THEN x.data[f] ELSE Empty]
    BY DEF Decode
<1>2. \A f \in Field : m[f] = IF f \in F THEN x.data[f] ELSE Empty
    BY <1>1 DEF Merge
<1>3. {g \in Field : m[g] # Empty} = F
    BY <1>2, LinkFields DEF Canonical
<1>4. Encode(m).data = [f \in F |-> m[f]] /\ Encode(m).version = 1
    BY <1>3 DEF Encode
<1>5. [f \in F |-> m[f]] = x.data
    BY <1>2, LinkFields
<1>6. Encode(m) = [version |-> 1, data |-> x.data]
    BY <1>3, <1>5 DEF Encode
<1> QED
    BY <1>6, LinkFields

-----------------------------------------------------------------------------
(* Types *)

\* Decoding changes the form as Merge says.
LEMMA DecodedMerges ==
    ASSUME NEW p \in Paste, Decoded(p)
    PROVE  specs' = Merge(pasted[p], specs)
BY DEF Decoded, Update, Merge

\* Every variable keeps its type, whatever is pasted, encoded and reloaded.
THEOREM TypeCorrect == Spec => []TypeOK
<1>0. Default \in Specs /\ MaxActs \in Nat /\ Foreign \subseteq Links
    BY WizardAssumption
<1>1. Init => TypeOK
  <2> SUFFICES ASSUME Init PROVE TypeOK
      OBVIOUS
  <2>1. gen \in [Gen -> {"idle", "link", "preset"}]
      BY DEF Init
  <2>2. taken \in [Gen -> Specs] /\ specs \in Specs
      BY <1>0 DEF Init
  <2>3. pasted \in [Paste -> Links \cup {None}]
      BY DEF Init
  <2>4. saving \in BOOLEAN /\ showing \in BOOLEAN /\ clean \in BOOLEAN
      BY DEF Init
  <2>5. acts \in 0..MaxActs
      BY <1>0 DEF Init
  <2>6. /\ stored \in Specs \cup {None}
        /\ link \in Links \cup {None}
        /\ preset \in Links \cup {None}
      BY DEF Init
  <2> QED
      BY <2>1, <2>2, <2>3, <2>4, <2>5, <2>6 DEF TypeOK
<1>2. TypeOK /\ [Next]_vars => TypeOK'
  <2> SUFFICES ASSUME TypeOK, [Next]_vars PROVE TypeOK'
      OBVIOUS
  <2> USE <1>0
  <2>0. Default \in Specs /\ Initial \in Specs
      BY DEF TypeOK, Initial
  <2>1. ASSUME NEW f \in Field, NEW v \in Value, Edit(f, v) PROVE TypeOK'
    <3>1. [specs EXCEPT ![f] = v] \in Specs
        BY DEF TypeOK, Specs
    <3> QED
        BY <2>1, <3>1 DEF TypeOK, Edit, Act, Update, genVars
  <2>2. CASE Reset
      BY <2>0, <2>2 DEF TypeOK, Reset, Act, Update, genVars
  <2>3. CASE Reload
    <3>1. gen' \in [Gen -> {"idle", "link", "preset"}]
        BY <2>3 DEF Reload
    <3>2. taken' \in [Gen -> Specs] /\ specs' \in Specs
        BY <2>0, <2>3 DEF Reload
    <3>3. pasted' \in [Paste -> Links \cup {None}]
        BY <2>3 DEF Reload
    <3>4. saving' \in BOOLEAN /\ showing' \in BOOLEAN /\ clean' \in BOOLEAN
        BY <2>3 DEF Reload
    <3>5. acts' \in 0..MaxActs
        BY <2>3 DEF TypeOK, Reload, Act
    <3>6. /\ stored' \in Specs \cup {None}
          /\ link' \in Links \cup {None}
          /\ preset' \in Links \cup {None}
        BY <2>3 DEF TypeOK, Reload
    <3> QED
        BY <3>1, <3>2, <3>3, <3>4, <3>5, <3>6 DEF TypeOK
  <2>4. CASE Save
      BY <2>4 DEF TypeOK, Save, genVars
  <2>5. CASE Show
    <3>1. /\ specs' = specs /\ stored' = stored /\ saving' = saving
          /\ pasted' = pasted /\ acts' = acts /\ showing' \in BOOLEAN
          /\ clean' \in BOOLEAN
        BY <2>5 DEF Show
    <3>2. link' \in Links \cup {None} /\ preset' \in Links \cup {None}
        BY <2>5 DEF Show, TypeOK
    <3>3. gen' \in [Gen -> {"idle", "link", "preset"}] /\ taken' \in [Gen -> Specs]
        BY <2>5 DEF Show, TypeOK, genVars
    <3> QED
        BY <3>1, <3>2, <3>3 DEF TypeOK
  <2>6. ASSUME NEW p \in Paste, StartPaste(p) PROVE TypeOK'
    <3>1. PICK x \in Links : pasted' = [pasted EXCEPT ![p] = x]
        BY <2>6 DEF StartPaste, TypeOK
    <3> QED
        BY <2>6, <3>1 DEF TypeOK, StartPaste, Act, genVars
  <2>7. ASSUME NEW p \in Paste, EndPaste(p) PROVE TypeOK'
    <3>1. CASE Decoded(p)
      <4>1. specs' \in Specs
          <5>1. pasted[p] \in Links /\ specs \in Specs
            BY <3>1 DEF Decoded, TypeOK
        <5>2. specs' = Merge(pasted[p], specs)
            BY <3>1, DecodedMerges
        <5> QED
            BY <5>1, <5>2, MergeType
      <4> QED
          BY <3>1, <4>1 DEF TypeOK, Decoded, Update, genVars
    <3>2. CASE NotDecoded(p)
        BY <3>2 DEF TypeOK, NotDecoded, genVars
    <3> QED
        BY <2>7, <3>1, <3>2 DEF EndPaste
  <2>8. ASSUME NEW g \in Gen, Generate(g) PROVE TypeOK'
    <3>1. Encode(taken[g]) \in Links
        BY EncodeType DEF TypeOK
    <3>2. CASE ShowLink(g)
        BY <3>1, <3>2 DEF TypeOK, ShowLink
    <3>3. CASE ShowPreset(g)
        BY <2>0, <3>1, <3>3 DEF TypeOK, ShowPreset
    <3>4. CASE NotEncoded(g)
        BY <2>0, <3>4 DEF TypeOK, NotEncoded
    <3> QED
        BY <2>8, <3>2, <3>3, <3>4 DEF Generate
  <2>9. CASE UNCHANGED vars
      BY <2>9 DEF TypeOK, vars, genVars
  <2> QED
      BY <2>1, <2>2, <2>3, <2>4, <2>5, <2>6, <2>7, <2>8, <2>9 DEF Next
<1> QED
    BY <1>1, <1>2, PTL DEF Spec

-----------------------------------------------------------------------------
(* What is saved *)

\* Without a save to come, the form is what a reload would read: every change
\* of the form asks for a save.
THEOREM SavedRestores == Spec => []SavedWhenQuiet
<1>1. Init => SavedWhenQuiet
    BY DEF Init, SavedWhenQuiet, Initial
<1>2. TypeOK /\ SavedWhenQuiet /\ [Next]_vars => SavedWhenQuiet'
  <2> SUFFICES ASSUME TypeOK, SavedWhenQuiet, [Next]_vars PROVE SavedWhenQuiet'
      OBVIOUS
  <2> USE DEF SavedWhenQuiet
  <2>0. specs # None
      BY WizardAssumption DEF TypeOK
  <2>1. ASSUME NEW f \in Field, NEW v \in Value, Edit(f, v) PROVE SavedWhenQuiet'
      BY <2>1 DEF Edit, Update
  <2>2. CASE Reset
      BY <2>2 DEF Reset, Update
  <2>3. CASE Reload
      BY <2>3 DEF Reload, Initial
  <2>4. CASE Save
      BY <2>0, <2>4 DEF Save, Initial
  <2>5. CASE Show
      BY <2>5 DEF Show, Initial
  <2>6. ASSUME NEW p \in Paste, StartPaste(p) PROVE SavedWhenQuiet'
      BY <2>6 DEF StartPaste, Initial
  <2>7. ASSUME NEW p \in Paste, EndPaste(p) PROVE SavedWhenQuiet'
      BY <2>7 DEF EndPaste, Decoded, NotDecoded, Update, Initial
  <2>8. ASSUME NEW g \in Gen, Generate(g) PROVE SavedWhenQuiet'
      BY <2>8 DEF Generate, ShowLink, ShowPreset, NotEncoded, Initial
  <2>9. CASE UNCHANGED vars
      BY <2>9 DEF vars, Initial
  <2> QED
      BY <2>1, <2>2, <2>3, <2>4, <2>5, <2>6, <2>7, <2>8, <2>9 DEF Next
<1> QED
    BY <1>1, <1>2, TypeCorrect, PTL DEF Spec

-----------------------------------------------------------------------------
(* What is shown *)

\* A call that makes the link has taken a valid form, and the link is of one.
ValidInv ==
    /\ \A g \in Gen : gen[g] = "link" => FormValid(taken[g])
    /\ LinkIsValid

\* Whatever overlaps or fails, a link shown was made of a valid form.
THEOREM LinksAreValid == Spec => []LinkIsValid
<1>1. Init => ValidInv
    BY DEF Init, ValidInv, LinkIsValid
<1>2. TypeOK /\ ValidInv /\ [Next]_vars => ValidInv'
  <2> SUFFICES ASSUME TypeOK, ValidInv, [Next]_vars PROVE ValidInv'
      OBVIOUS
  <2>1. CASE UNCHANGED <<gen, taken, link>>
      BY <2>1 DEF ValidInv, LinkIsValid
  <2>2. CASE Reload
      BY <2>2 DEF Reload, ValidInv, LinkIsValid
  <2>3. CASE Show
    <3>1. \A g \in Gen : gen'[g] = "link" => FormValid(taken'[g])
        BY <2>3 DEF Show, ValidInv, genVars, TypeOK
    <3>2. link' = link \/ link' = None
        BY <2>3 DEF Show
    <3> QED
        BY <3>1, <3>2 DEF ValidInv, LinkIsValid
  <2>4. ASSUME NEW g \in Gen, Generate(g) PROVE ValidInv'
    <3>1. \A h \in Gen : gen'[h] = "link" => gen[h] = "link" /\ taken'[h] = taken[h]
        BY <2>4 DEF Generate, ShowLink, ShowPreset, NotEncoded, TypeOK
    <3>2. CASE ShowLink(g)
      <4>1. link' = Encode(taken[g]) /\ FormValid(taken[g]) /\ taken[g] \in Specs
          BY <3>2 DEF ShowLink, ValidInv, TypeOK
      <4>2. FormValid(Decode(link'))
          BY <4>1, RoundTrip
      <4> QED
          BY <3>1, <4>2 DEF ValidInv, LinkIsValid
    <3>3. CASE ~ShowLink(g)
      <4>1. link' = link
          BY <2>4, <3>3 DEF Generate, ShowPreset, NotEncoded
      <4> QED
          BY <3>1, <4>1 DEF ValidInv, LinkIsValid
    <3> QED
        BY <3>2, <3>3
  <2> QED
      BY <2>1, <2>2, <2>3, <2>4
      DEF Next, vars, genVars, Edit, Reset, Save, StartPaste, EndPaste, Decoded, NotDecoded
<1> QED
    BY <1>1, <1>2, TypeCorrect, PTL DEF Spec, ValidInv

\* What a single call of generate has taken, and shown, while the watcher has
\* nothing new to do.
GenInv ==
    clean =>
      /\ \A g, h \in Gen : gen[g] # "idle" /\ gen[h] # "idle" => g = h
      /\ ~showing =>
           \A g \in Gen :
              /\ gen[g] # "idle" => taken[g] = specs /\ FormValid(specs)
              /\ gen[g] = "preset" => link = Encode(specs)

\* Once all is quiet, link and preset are those of the form: a call that runs
\* alone takes the form as it was when the watcher ran, and a change since
\* then starts the watcher again.
THEOREM ShownRight == Spec => []ShownWhenQuiet
<1>1. Init => GenInv /\ ShownWhenQuiet
    BY DEF Init, GenInv, ShownWhenQuiet, Quiet
<1>2. TypeOK /\ GenInv /\ ShownWhenQuiet /\ [Next]_vars => GenInv' /\ ShownWhenQuiet'
  <2> SUFFICES ASSUME TypeOK, GenInv, ShownWhenQuiet, [Next]_vars
               PROVE  GenInv' /\ ShownWhenQuiet'
      OBVIOUS
  <2>1. CASE UNCHANGED <<gen, taken, link, preset, clean, specs, showing>>
    <3>1. GenInv'
        BY <2>1 DEF GenInv
    <3>2. ShownWhenQuiet'
        BY <2>1 DEF ShownWhenQuiet, Quiet, Shown
    <3> QED
        BY <3>1, <3>2
  <2>2. ASSUME NEW s \in Specs, Update(s), UNCHANGED <<gen, taken, link, preset, clean>>
        PROVE  GenInv' /\ ShownWhenQuiet'
    <3>1. showing' \/ (specs' = specs /\ showing' = showing)
        BY <2>2 DEF Update, TypeOK
    <3>2. CASE showing'
        BY <2>2, <3>2 DEF GenInv, ShownWhenQuiet, Quiet
    <3>3. CASE specs' = specs /\ showing' = showing
      <4>1. GenInv'
          BY <2>2, <3>3 DEF GenInv
      <4>2. ShownWhenQuiet'
          BY <2>2, <3>3 DEF ShownWhenQuiet, Quiet, Shown
      <4> QED
          BY <4>1, <4>2
    <3> QED
        BY <3>1, <3>2, <3>3
  <2>3. ASSUME NEW f \in Field, NEW v \in Value, Edit(f, v)
        PROVE  GenInv' /\ ShownWhenQuiet'
    <3>1. [specs EXCEPT ![f] = v] \in Specs
        BY DEF TypeOK, Specs
    <3> QED
        BY <2>2, <2>3, <3>1 DEF Edit, genVars
  <2>4. CASE Reset
    <3>1. Default \in Specs
        BY WizardAssumption
    <3> QED
        BY <2>2, <2>4, <3>1 DEF Reset, genVars
  <2>5. CASE Reload
      BY <2>5 DEF Reload, GenInv, ShownWhenQuiet, Quiet
  <2>6. CASE Show
    <3> DEFINE alone == \A g \in Gen : gen[g] = "idle"
    <3>1. /\ clean' = alone /\ ~showing'
          /\ specs' = specs
        BY <2>6 DEF Show
    <3>2. CASE FormValid(specs)
      <4>1. PICK g \in Gen : /\ gen[g] = "idle"
                             /\ gen' = [gen EXCEPT ![g] = "link"]
                             /\ taken' = [taken EXCEPT ![g] = specs]
          BY <2>6, <3>2 DEF Show
      <4>2. /\ gen'[g] = "link" /\ taken'[g] = specs
            /\ \A h \in Gen : h # g => gen'[h] = gen[h]
          BY <4>1 DEF TypeOK
      <4>3. GenInv'
          BY <3>1, <3>2, <4>2 DEF GenInv, FormValid
      <4>4. ~Quiet'
          BY <4>2 DEF Quiet
      <4> QED
          BY <4>3, <4>4 DEF ShownWhenQuiet
    <3>3. CASE ~FormValid(specs)
      <4>1. link' = None /\ preset' = None /\ gen' = gen /\ taken' = taken
          BY <2>6, <3>3 DEF Show, genVars
      <4>2. GenInv'
          BY <3>1, <4>1 DEF GenInv
      <4>3. Shown' = None
          BY <3>1, <3>3 DEF Shown, FormValid
      <4> QED
          BY <4>1, <4>2, <4>3 DEF ShownWhenQuiet
    <3> QED
        BY <3>2, <3>3
  <2>7. ASSUME NEW p \in Paste, EndPaste(p) PROVE GenInv' /\ ShownWhenQuiet'
    <3>1. CASE Decoded(p)
      <4>1. pasted[p] \in Links /\ specs \in Specs
          BY <3>1 DEF Decoded, TypeOK
      <4>2. specs' \in Specs
          BY <3>1, <4>1, DecodedMerges, MergeType
      <4>3. Update(specs')
          BY <3>1 DEF Decoded, Update
      <4> QED
          BY <2>2, <3>1, <4>2, <4>3 DEF Decoded, genVars
    <3>2. CASE NotDecoded(p)
        BY <2>1, <3>2 DEF NotDecoded, genVars
    <3> QED
        BY <2>7, <3>1, <3>2 DEF EndPaste
  <2>8. ASSUME NEW g \in Gen, Generate(g) PROVE GenInv' /\ ShownWhenQuiet'
    <3>0. specs' = specs /\ showing' = showing
        BY <2>8 DEF Generate, ShowLink, ShowPreset, NotEncoded
    <3>1. CASE ShowLink(g)
      <4>1. /\ gen[g] = "link" /\ clean' = clean
            /\ link' = Encode(taken[g])
            /\ gen'[g] = "preset" /\ taken'[g] = specs
            /\ \A h \in Gen : h # g => gen'[h] = gen[h] /\ taken'[h] = taken[h]
          BY <3>1 DEF ShowLink, TypeOK
      <4>2. GenInv'
          BY <3>0, <4>1 DEF GenInv
      <4>3. ~Quiet'
          BY <4>1 DEF Quiet
      <4> QED
          BY <4>2, <4>3 DEF ShownWhenQuiet
    <3>2. CASE ShowPreset(g)
      <4>1. /\ gen[g] = "preset" /\ clean' = clean /\ link' = link
            /\ preset' = Encode(taken[g])
            /\ gen'[g] = "idle"
            /\ \A h \in Gen : h # g => gen'[h] = gen[h] /\ taken'[h] = taken[h]
          BY <3>2 DEF ShowPreset, TypeOK
      <4>2. GenInv'
          BY <3>0, <4>1 DEF GenInv
      <4>3. clean /\ ~showing =>
              link = Encode(specs) /\ taken[g] = specs /\ FormValid(specs)
          BY <4>1 DEF GenInv
      <4>4. Shown' = Shown
          BY <3>0 DEF Shown
      <4>5. ShownWhenQuiet'
          BY <3>0, <4>1, <4>3, <4>4 DEF ShownWhenQuiet, Quiet, Shown
      <4> QED
          BY <4>2, <4>5
    <3>3. CASE NotEncoded(g)
        BY <3>3 DEF NotEncoded, GenInv, ShownWhenQuiet
    <3> QED
        BY <2>8, <3>1, <3>2, <3>3 DEF Generate
  <2> QED
      BY <2>1, <2>3, <2>4, <2>5, <2>6, <2>7, <2>8
      DEF Next, vars, genVars, Save, StartPaste
<1> QED
    BY <1>1, <1>2, TypeCorrect, PTL DEF Spec

-----------------------------------------------------------------------------
(* What is pasted *)

\* No link the page knows of holds an empty field in version 1.
LinksInv ==
    /\ link # None => Canonical(link)
    /\ preset # None => Canonical(preset)
    /\ \A p \in Paste : pasted[p] # None => Canonical(pasted[p])

\* A version 1 link makes any form the one that was encoded: it is pasted as
\* it was made, and what it was not sent is emptied.
THEOREM PastesRoundTrip == Spec => PasteRoundTrips
<1>1. Init => LinksInv
    BY DEF Init, LinksInv
<1>2. TypeOK /\ LinksInv /\ [Next]_vars => LinksInv'
  <2> SUFFICES ASSUME TypeOK, LinksInv, [Next]_vars PROVE LinksInv'
      OBVIOUS
  <2>1. CASE UNCHANGED <<link, preset, pasted>>
      BY <2>1 DEF LinksInv
  <2>2. CASE Reload
      BY <2>2 DEF Reload, LinksInv
  <2>3. CASE Show
    <3>1. (link' = link \/ link' = None) /\ (preset' = preset \/ preset' = None)
        BY <2>3 DEF Show
    <3> QED
        BY <2>3, <3>1 DEF Show, LinksInv
  <2>4. ASSUME NEW p \in Paste, StartPaste(p) PROVE LinksInv'
    <3>1. PICK x \in Foreign \cup ({link, preset} \ {None}) :
            pasted' = [pasted EXCEPT ![p] = x]
        BY <2>4 DEF StartPaste
    <3>2. Canonical(x)
        BY <3>1, WizardAssumption DEF LinksInv, Canonical
    <3> QED
        BY <2>4, <3>1, <3>2 DEF StartPaste, LinksInv, TypeOK
  <2>5. ASSUME NEW p \in Paste, EndPaste(p) PROVE LinksInv'
      BY <2>5 DEF EndPaste, Decoded, NotDecoded, LinksInv, TypeOK
  <2>6. ASSUME NEW g \in Gen, Generate(g) PROVE LinksInv'
    <3>1. Canonical(Encode(taken[g]))
        BY EncodeType DEF TypeOK
    <3>2. /\ link' = link \/ link' = Encode(taken[g])
          /\ preset' = preset \/ preset' = Encode(taken[g])
          /\ pasted' = pasted
        BY <2>6 DEF Generate, ShowLink, ShowPreset, NotEncoded
    <3> QED
        BY <3>1, <3>2 DEF LinksInv
  <2> QED
      BY <2>1, <2>2, <2>3, <2>4, <2>5, <2>6
      DEF Next, vars, Edit, Reset, Save
<1>3. ASSUME TypeOK, LinksInv
      PROVE  \A p \in Paste :
               Decoded(p) /\ pasted[p].version = 1 => Encode(specs') = pasted[p]
  <2> TAKE p \in Paste
  <2> HAVE Decoded(p) /\ pasted[p].version = 1
  <2>1. pasted[p] \in Links /\ Canonical(pasted[p]) /\ specs \in Specs
      BY <1>3 DEF Decoded, TypeOK, LinksInv
  <2>2. specs' = Merge(pasted[p], specs)
      BY DecodedMerges
  <2> QED
      BY <2>1, <2>2, EncodeDecode
<1> QED
    BY <1>1, <1>2, <1>3, TypeCorrect, PTL DEF Spec, PasteRoundTrips
=============================================================================
