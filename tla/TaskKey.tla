------------------------------- MODULE TaskKey -------------------------------
(***************************************************************************)
(* From a request to a task, to the key of its result, and to the task as  *)
(* a worker reads it: decodeSpecs, handleRender and handlePageScreenshot   *)
(* (internal/api/http), models.Task and CacheKey.                          *)
(*                                                                         *)
(* A text is a sequence of characters, of which Broken is a byte that is   *)
(* no UTF-8; JSON turns it into Replacement.  A header that is absent is   *)
(* the empty text.  SHA-256 is taken to tell all texts apart.              *)
(***************************************************************************)
EXTENDS Naturals, Sequences

CONSTANTS
    Char,        \* the characters of texts
    Broken,
    Replacement,
    Urls,        \* texts the validator takes for a URL
    Selectors    \* texts the CSS parser can read

Text == Seq(Char)

ASSUME TextAssumption ==
    /\ Broken \in Char /\ Replacement \in Char /\ Broken # Replacement
    /\ Urls \subseteq Text /\ Selectors \subseteq Text

Required == {"SelectorPost", "SelectorTitle", "SelectorLink", "SelectorCreated",
             "SelectorEnclosure"}
Optional == {"SelectorDescription", "SelectorAuthor", "SelectorContent"}
Field    == Required \cup Optional \cup {"URL"}

Headers  == [AcceptLanguage : Text, Cookie : Text]

\* What a link holds: a prefix up to its colon, and base64 of either format.
Link == [prefix   : {"none", "0", "1", "other"},
         format   : {"json", "proto", "broken"},
         text     : [Field -> Text],
         from     : {"InnerText", "Attribute", "other"},
         attr     : Text,
         lifetime : BOOLEAN] \* is cache_lifetime a duration?

Ask == [type : {"extract"}, link : Link, headers : Headers]
       \cup [type : {"page_screenshot"}, url : Text, headers : Headers,
             parses : BOOLEAN] \* does url.Parse accept it?

Task == [TaskType : {"extract", "page_screenshot"},
         text : [Field -> Text],
         CreatedExtractFrom : {"InnerText", "Attribute"},
         CreatedAttributeName : Text,
         Headers : Headers]

IsUtf8(s) == \A i \in DOMAIN s : s[i] # Broken

\* encoding/json keeps a text except for what is no UTF-8.
Recoded(s) == [i \in DOMAIN s |-> IF s[i] = Broken THEN Replacement ELSE s[i]]

-----------------------------------------------------------------------------
Version(link) == IF link.prefix = "none" THEN "0" ELSE link.prefix

\* The texts decodeSpecs reads from a link it accepts.
SpecsText(link) ==
    IF Version(link) = "0" THEN [f \in Field |-> Recoded(link.text[f])] ELSE link.text

ValidateSelector(s) == s \in Selectors

\* decodeSpecs: version, base64 and compression, the format that goes with
\* the version, then the validator.
DecodeSpecs(link) ==
    /\ \/ Version(link) = "0" /\ link.format = "json"
       \/ /\ Version(link) = "1" /\ link.format = "proto"
          /\ \A f \in Field : IsUtf8(link.text[f])
          /\ IsUtf8(link.attr)
    /\ SpecsText(link)["URL"] \in Urls
    /\ \A f \in Required : ValidateSelector(SpecsText(link)[f])
    /\ \A f \in Optional :
          SpecsText(link)[f] = <<>> \/ ValidateSelector(SpecsText(link)[f])

\* Is the request one that gets as far as a task?
Accepted(asked) ==
    IF asked.type = "extract"
    THEN /\ DecodeSpecs(asked.link)
         /\ asked.link.from \in {"InnerText", "Attribute"}
         /\ asked.link.lifetime
    ELSE asked.parses

\* The models.Task of each handler.
TaskOf(asked) ==
    IF asked.type = "extract"
    THEN [TaskType |-> "extract",
          text |-> SpecsText(asked.link),
          CreatedExtractFrom |-> asked.link.from,
          CreatedAttributeName |-> IF Version(asked.link) = "0" THEN Recoded(asked.link.attr)
                                   ELSE asked.link.attr,
          Headers |-> asked.headers]
    ELSE [TaskType |-> "page_screenshot",
          text |-> [f \in Field |-> IF f = "URL" THEN asked.url ELSE <<>>],
          CreatedExtractFrom |-> "InnerText",
          CreatedAttributeName |-> <<>>,
          Headers |-> asked.headers]

-----------------------------------------------------------------------------
\* fmt's %+v of the map: its keys are sorted, and absent ones are not there.
Printed(headers) ==
    LET lang   == IF headers.AcceptLanguage = <<>> THEN <<>>
                  ELSE <<"Accept-Language:">> \o headers.AcceptLanguage
        cookie == IF headers.Cookie = <<>> THEN <<>>
                  ELSE <<"Cookie:">> \o headers.Cookie
        space  == IF lang = <<>> \/ cookie = <<>> THEN <<>> ELSE <<" ">>
    IN  <<"map[">> \o (lang \o (space \o (cookie \o <<"]">>)))

\* Mutant of CacheKey: a field nobody thought of here.
CacheKeyWithoutEnclosure(t) ==
    <<t.TaskType,
      t.text["URL"] \o (t.text["SelectorPost"] \o (t.text["SelectorTitle"]
      \o (t.text["SelectorLink"] \o (t.text["SelectorDescription"]
      \o (t.text["SelectorAuthor"] \o (t.text["SelectorCreated"]
      \o (t.text["SelectorContent"] \o Printed(t.Headers))))))))>>

\* The fields one after the other, with nothing between them.
CacheKey(t) ==
    <<t.TaskType,
      t.text["URL"] \o (t.text["SelectorPost"] \o (t.text["SelectorTitle"]
      \o (t.text["SelectorLink"] \o (t.text["SelectorDescription"]
      \o (t.text["SelectorAuthor"] \o (t.text["SelectorCreated"]
      \o (t.text["SelectorContent"] \o (t.text["SelectorEnclosure"]
      \o Printed(t.Headers)))))))))>>

\* Mutant of Received: a cookie header that JSON leaves out.
ReceivedWithoutCookie(t) ==
    [t EXCEPT !.text = [f \in Field |-> Recoded(@[f])],
              !.CreatedAttributeName = Recoded(@),
              !.Headers = [AcceptLanguage |-> Recoded(@.AcceptLanguage), Cookie |-> <<>>]]

\* The task as the worker unmarshals it.
Received(t) ==
    [t EXCEPT !.text = [f \in Field |-> Recoded(@[f])],
              !.CreatedAttributeName = Recoded(@),
              !.Headers = [AcceptLanguage |-> Recoded(@.AcceptLanguage),
                           Cookie |-> Recoded(@.Cookie)]]

IsUtf8Task(t) ==
    /\ \A f \in Field : IsUtf8(t.text[f])
    /\ IsUtf8(t.Headers.AcceptLanguage) /\ IsUtf8(t.Headers.Cookie)
=============================================================================
