------------------------------- MODULE Wizard -------------------------------
(***************************************************************************)
(* The wizard in the browser (frontend/wizard-vue): a form of specs, kept  *)
(* in localStorage, and the link and the preset made from it.              *)
(*                                                                         *)
(* Every change of the form starts two debounced functions, one that saves *)
(* it and one that makes link and preset anew, or clears them while the    *)
(* form is not valid.  Encoding and decoding await a compression stream,   *)
(* so several of them may be under way, and end in any order.  The link    *)
(* and the preset encode the same specs: the form is read again between    *)
(* the two.                                                                *)
(***************************************************************************)
EXTENDS Naturals

CONSTANTS
    Field,    \* fields of the form
    Required, \* those that must not be empty
    Value,    \* what a field may hold
    Empty,    \* the value of an empty field, and of one never sent
    Valid,    \* the values of each field that its validator accepts
    Default,  \* the form at first
    Foreign,  \* links and presets the user has from elsewhere
    None,     \* nothing shown, or nothing stored
    Gen,      \* bound: calls of generate under way
    Paste,    \* bound: calls that decode a pasted link under way
    MaxActs   \* bound on what the user does

Specs == [Field -> Value]

\* What a link or preset holds: version 1 is a protocol buffer without the
\* empty fields, version 0 a JSON object with the fields of the wizard it is
\* from.
Links == UNION {[version : {0, 1}, data : [F -> Value]] : F \in SUBSET Field}

ASSUME WizardAssumption ==
    /\ Required \subseteq Field
    /\ Empty \in Value
    /\ Valid \in [Field -> SUBSET Value]
    /\ Default \in Specs
    /\ Foreign \subseteq Links
    /\ \A x \in Foreign : x.version = 1 => \A f \in DOMAIN x.data : x.data[f] # Empty
    /\ None \notin Specs \cup Links
    /\ MaxActs \in Nat

VARIABLES
    specs,   \* the form
    stored,  \* localStorage
    saving,  \* is updateLocalStorage due?
    showing, \* is the watcher of the form due?
    link, preset, \* what is shown
    gen,     \* where each call of generate is
    taken,   \* the specs it is encoding
    pasted,  \* what each decoding call decodes
    acts,    \* what the user did so far
    \* history
    clean    \* did the watcher last run while no call of generate was under
             \* way, and has no call failed since?

genVars == <<gen, taken>>
vars == <<specs, stored, saving, showing, link, preset, genVars, pasted, acts,
          clean>>

\* encodeSpecsPart
Encode(s) ==
    [version |-> 1, data |-> [f \in {g \in Field : s[g] # Empty} |-> s[f]]]

\* Mutant of Decode: what version 1 was not sent is at its default.
DecodeOverDefault(x) ==
    IF x.version = 1
    THEN [f \in Field |-> IF f \in DOMAIN x.data THEN x.data[f] ELSE Default[f]]
    ELSE x.data

\* decodeSpecsPart: version 1 has a value for every field, version 0 has not.
Decode(x) ==
    IF x.version = 1
    THEN [f \in Field |-> IF f \in DOMAIN x.data THEN x.data[f] ELSE Empty]
    ELSE x.data

FormValid(s) ==
    \A f \in Field : (s[f] = Empty /\ f \notin Required) \/ s[f] \in Valid[f]

\* Mutant of Initial: what is not there is read too.
InitialUnchecked == stored

\* The form a page starts with.
Initial == IF stored = None THEN Default ELSE stored

TypeOK ==
    /\ specs \in Specs
    /\ stored \in Specs \cup {None}
    /\ saving \in BOOLEAN
    /\ showing \in BOOLEAN
    /\ link \in Links \cup {None}
    /\ preset \in Links \cup {None}
    /\ gen \in [Gen -> {"idle", "link", "preset"}]
    /\ taken \in [Gen -> Specs]
    /\ pasted \in [Paste -> Links \cup {None}]
    /\ acts \in 0..MaxActs
    /\ clean \in BOOLEAN

Init ==
    /\ specs = Default
    /\ stored = None
    /\ saving = FALSE
    /\ showing = TRUE
    /\ link = None
    /\ preset = None
    /\ gen = [g \in Gen |-> "idle"]
    /\ taken = [g \in Gen |-> Default]
    /\ pasted = [p \in Paste |-> None]
    /\ acts = 0
    /\ clean = TRUE

-----------------------------------------------------------------------------
(* The user *)

Act == acts < MaxActs /\ acts' = acts + 1

\* The store's three updates: each asks for a save, and the watcher of the
\* form is started if the form has changed.
Update(s) ==
    /\ specs' = s
    /\ saving' = TRUE
    /\ showing' = (showing \/ s # specs)

Edit(f, v) ==
    /\ Act
    /\ Update([specs EXCEPT ![f] = v])
    /\ UNCHANGED <<stored, link, preset, genVars, pasted, clean>>

\* Mutant of Reset: the defaults are not saved.
ResetUnsaved ==
    /\ Act
    /\ specs' = Default
    /\ showing' = (showing \/ specs # Default)
    /\ UNCHANGED <<stored, saving, link, preset, genVars, pasted, clean>>

Reset ==
    /\ Act
    /\ Update(Default)
    /\ UNCHANGED <<stored, link, preset, genVars, pasted, clean>>

\* A link or preset is pasted into the dialog; decoding it begins.
StartPaste(p) ==
    /\ Act
    /\ pasted[p] = None
    /\ \E x \in Foreign \cup ({link, preset} \ {None}) :
         pasted' = [pasted EXCEPT ![p] = x]
    /\ UNCHANGED <<specs, stored, saving, showing, link, preset, genVars, clean>>

\* Mutant of Reload: the watcher waits for a first change.
ReloadQuietly ==
    /\ Act
    /\ specs' = Initial
    /\ saving' = FALSE
    /\ showing' = FALSE
    /\ link' = None /\ preset' = None
    /\ gen' = [g \in Gen |-> "idle"]
    /\ taken' = [g \in Gen |-> Default]
    /\ pasted' = [p \in Paste |-> None]
    /\ clean' = TRUE
    /\ UNCHANGED stored

\* The page is closed or reloaded: timers and calls are gone with it, and a
\* change not saved yet is lost.  The watcher runs at once on the new page.
Reload ==
    /\ Act
    /\ specs' = Initial
    /\ saving' = FALSE
    /\ showing' = TRUE
    /\ link' = None /\ preset' = None
    /\ gen' = [g \in Gen |-> "idle"]
    /\ taken' = [g \in Gen |-> Default]
    /\ pasted' = [p \in Paste |-> None]
    /\ clean' = TRUE
    /\ UNCHANGED stored

-----------------------------------------------------------------------------
(* Timers and promises *)

\* The fields decoded replace those of the form; the others stay.
Decoded(p) ==
    LET d == Decode(pasted[p])
    IN  /\ pasted[p] # None
        /\ Update([f \in Field |-> IF f \in DOMAIN d THEN d[f] ELSE specs[f]])
        /\ pasted' = [pasted EXCEPT ![p] = None]
        /\ UNCHANGED <<stored, link, preset, genVars, acts, clean>>

\* It cannot be decoded: an alert.
NotDecoded(p) ==
    /\ pasted[p] # None
    /\ pasted' = [pasted EXCEPT ![p] = None]
    /\ UNCHANGED <<specs, stored, saving, showing, link, preset, genVars, acts, clean>>

Save ==
    /\ saving
    /\ saving' = FALSE
    /\ stored' = specs
    /\ UNCHANGED <<specs, showing, link, preset, genVars, pasted, acts, clean>>

\* Mutant of Show: whatever the form holds, it is encoded.
ShowUnchecked ==
    /\ showing
    /\ showing' = FALSE
    /\ clean' = (\A g \in Gen : gen[g] = "idle")
    /\ \E g \in Gen : /\ gen[g] = "idle"
                      /\ gen' = [gen EXCEPT ![g] = "link"]
                      /\ taken' = [taken EXCEPT ![g] = specs]
    /\ UNCHANGED <<specs, stored, saving, link, preset, pasted, acts>>

\* Mutant of Show: an invalid form clears the link only.
ShowKeepsPreset ==
    /\ showing
    /\ showing' = FALSE
    /\ clean' = (\A g \in Gen : gen[g] = "idle")
    /\ IF FormValid(specs)
       THEN /\ \E g \in Gen : /\ gen[g] = "idle"
                              /\ gen' = [gen EXCEPT ![g] = "link"]
                              /\ taken' = [taken EXCEPT ![g] = specs]
            /\ UNCHANGED link
       ELSE /\ link' = None
            /\ UNCHANGED genVars
    /\ UNCHANGED <<specs, stored, saving, preset, pasted, acts>>

\* The debounced watcher: generate begins, or link and preset are cleared.
Show ==
    /\ showing
    /\ showing' = FALSE
    /\ clean' = (\A g \in Gen : gen[g] = "idle")
    /\ IF FormValid(specs)
       THEN /\ \E g \in Gen : /\ gen[g] = "idle"
                              /\ gen' = [gen EXCEPT ![g] = "link"]
                              /\ taken' = [taken EXCEPT ![g] = specs]
            /\ UNCHANGED <<link, preset>>
       ELSE /\ link' = None /\ preset' = None
            /\ UNCHANGED genVars
    /\ UNCHANGED <<specs, stored, saving, pasted, acts>>

\* encodeUrl is done: the link is shown, and encodePreset reads the form.
ShowLink(g) ==
    /\ gen[g] = "link"
    /\ link' = Encode(taken[g])
    /\ taken' = [taken EXCEPT ![g] = specs]
    /\ gen' = [gen EXCEPT ![g] = "preset"]
    /\ UNCHANGED <<specs, stored, saving, showing, preset, pasted, acts, clean>>

\* encodePreset is done, and generate with it.
ShowPreset(g) ==
    /\ gen[g] = "preset"
    /\ preset' = Encode(taken[g])
    /\ taken' = [taken EXCEPT ![g] = Default]
    /\ gen' = [gen EXCEPT ![g] = "idle"]
    /\ UNCHANGED <<specs, stored, saving, showing, link, pasted, acts, clean>>

\* Either of them fails: an alert.
NotEncoded(g) ==
    /\ gen[g] # "idle"
    /\ taken' = [taken EXCEPT ![g] = Default]
    /\ gen' = [gen EXCEPT ![g] = "idle"]
    /\ clean' = FALSE
    /\ UNCHANGED <<specs, stored, saving, showing, link, preset, pasted, acts>>

-----------------------------------------------------------------------------
Generate(g) == ShowLink(g) \/ ShowPreset(g) \/ NotEncoded(g)

EndPaste(p) == Decoded(p) \/ NotDecoded(p)

Next ==
    \/ \E f \in Field, v \in Value : Edit(f, v)
    \/ Reset \/ Reload \/ Save \/ Show
    \/ \E p \in Paste : StartPaste(p) \/ EndPaste(p)
    \/ \E g \in Gen : Generate(g)

Spec == Init /\ [][Next]_vars

\* Timers fire and compression streams end.  The user need not do anything.
Fairness ==
    /\ WF_vars(Save) /\ WF_vars(Show)
    /\ \A p \in Paste : WF_vars(EndPaste(p))
    /\ \A g \in Gen : WF_vars(Generate(g))

FairSpec == Spec /\ Fairness

-----------------------------------------------------------------------------
(* Properties *)

Quiet == ~showing /\ \A g \in Gen : gen[g] = "idle"

Shown == IF FormValid(specs) THEN Encode(specs) ELSE None

\* Once all is quiet, link and preset both are those of the form, or both
\* cleared if it is not valid, although the form was read twice and may have
\* changed in between: unless the watcher ran while an earlier call of
\* generate was still under way, or a call failed.
ShownWhenQuiet == Quiet /\ clean => link = Shown /\ preset = Shown

\* Whatever overlaps or fails, a link that is shown is one the form was valid
\* for.  (The preset need not be: it is of the form as it is after the link.)
LinkIsValid == link # None => FormValid(Decode(link))

\* When nothing is left to be saved, a reload brings back the form as it is.
SavedWhenQuiet == ~saving => specs = Initial

\* A version 1 link or preset, pasted into a form that holds something else,
\* makes it the form that was encoded, empty fields too: none is left over
\* from what was in the form before.
PasteRoundTrips ==
    [][\A p \in Paste :
         Decoded(p) /\ pasted[p].version = 1 => Encode(specs') = pasted[p]]_vars

\* When the user has stopped, a valid form has its link, unless a call of
\* generate failed or one overlapped another.
LinkIsShownAtLast == <>[](FormValid(specs) /\ clean => link # None /\ preset # None)
=============================================================================
